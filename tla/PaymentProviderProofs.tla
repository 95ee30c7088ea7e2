----------------------- MODULE PaymentProviderProofs ------------------------
(***************************************************************************)
(* Theorems about PaymentProvider for any deliveries, bodies, keys and any *)
(* number of crashes.                                                      *)
(***************************************************************************)
EXTENDS PaymentProvider, TLAPS

Ended == {"voided", "expired"}

\* The points of a reversal at which its refund row exists.
Past == {"order", "book", "link", "void", "reconcile"}

\* A reversal that is finished: its row refers to its ledger entry and the
\* credit of the capture has ended.
HasEntry(k) == \E x \in entries : x.refund = k
Complete(d) ==
  /\ refunds[IdempotencyHash(d)] # NoRow
  /\ refunds[IdempotencyHash(d)].reversal = "linked"
  /\ HasEntry(IdempotencyHash(d))
  /\ grants[body[d].capture] \in Ended

\* Who sent what, and that a delivery was not sent more often than it was lost.
SenderInv(d) ==
  /\ pc[d] # "new" => body[d] \in Bodies
  /\ pc[d] \in {"insert"} \cup Past => IsReversal(d)
  /\ attempt[d] + (IF pc[d] = "lost" THEN 1 ELSE 0) <= crashes

\* What a reversal has written when it gets to a statement.
ReversalInv(d) ==
  /\ pc[d] \in {"plan", "insert"} \cup Past /\ IsReversal(d) => captures[body[d].capture] # NoRow
  /\ pc[d] \in Past => refunds[IdempotencyHash(d)] # NoRow
  /\ pc[d] = "link" => HasEntry(IdempotencyHash(d))
  /\ pc[d] \in {"void", "reconcile"} => refunds[IdempotencyHash(d)].reversal = "linked"
  /\ pc[d] = "reconcile" => Complete(d)
  /\ pc[d] \in {"answer", "done"} /\ answer[d] \in {"written", "replayed"} /\ IsReversal(d) =>
       Complete(d) /\ (answer[d] = "written" => IdempotencyHash(d) \in matched)

\* The capture that a try has inserted is the capture of its delivery's event,
\* and the event has no other.
CapturesNamed ==
  \A c \in Tries :
    captures[c] # NoRow => body[c[1]] \in Bodies /\ captures[c].event = body[c[1]].event
EventsDiffer ==
  \A c, e \in Captured : captures[c].event = captures[e].event => c = e

\* An entry is the one of its delivery's message, and the message's refund and
\* capture have no other.
EntriesNamed ==
  \A x \in entries :
    /\ body[x.by[1]] \in Bodies /\ x.source = body[x.by[1]].capture
    /\ body[x.by[1]].key # NoRow => x.refund = body[x.by[1]].key
EntriesDiffer ==
  \A x, y \in entries : x.refund = y.refund /\ x.source = y.source => x = y

\* A refund row that refers to a ledger entry has one.
LinkedHaveEntry ==
  \A k \in RowKeys : refunds[k] # NoRow /\ refunds[k].reversal = "linked" => HasEntry(k)

Inv ==
  /\ TypeOK /\ CapturesNamed /\ EventsDiffer /\ EntriesNamed /\ EntriesDiffer /\ LinkedHaveEntry
  /\ \A d \in Deliveries : SenderInv(d) /\ ReversalInv(d)

\* Nothing has been received.
LEMMA PaymentInit == Init => Inv
<1> SUFFICES ASSUME Init PROVE Inv
  OBVIOUS
<1>1. TypeOK
  BY CrashAssumption DEF Init, TypeOK
<1>2. CapturesNamed /\ EventsDiffer /\ EntriesNamed /\ EntriesDiffer /\ LinkedHaveEntry
  BY DEF Init, CapturesNamed, EventsDiffer, Captured, EntriesNamed, EntriesDiffer, LinkedHaveEntry
<1>3. \A d \in Deliveries : SenderInv(d) /\ ReversalInv(d)
  BY CrashAssumption DEF Init, SenderInv, ReversalInv, Past
<1> QED BY <1>1, <1>2, <1>3 DEF Inv

\* Every request has a key the tables accept, and its try names a row.
LEMMA KeyType ==
  ASSUME TypeOK, NEW d \in Deliveries, body[d] \in Bodies
  PROVE  IdempotencyHash(d) \in RowKeys /\ Try(d) \in Tries /\ body[d].capture \in Tries
<1>1. Try(d) \in Tries
  BY DEF TypeOK, Try, Tries
<1> QED BY <1>1, BodyAssumption DEF IdempotencyHash, RowKeys

-----------------------------------------------------------------------------
\* The steps, by the delivery that takes them.
Received(d) == \E b \in Bodies : Receive(d, b)
Reversal(d) ==
  \/ FindRefund(d) \/ InsertRefund(d) \/ MarkOrder(d) \/ BookReversal(d) \/ LinkReversal(d)
  \/ VoidGrant(d) \/ Reconcile(d)
Other(d) ==
  CaptureWritesNothing(d) \/ CaptureCommit(d) \/ Answer(d) \/ Resend(d) \/ Crash(d)
Lifecycle(c) == \E status \in {"expired", "voided"} : EndGrant(c, status)

\* A step is one of these.
LEMMA StepCases ==
  ASSUME Next
  PROVE  \/ \E d \in Deliveries : Received(d) \/ Reversal(d) \/ Other(d)
         \/ \E c \in Tries : Lifecycle(c)
BY DEF Next, Step, Received, Reversal, Other, Lifecycle

\* A try captures once: its event would be found.
LEMMA CaptureIsNew ==
  ASSUME Inv, NEW d \in Deliveries, CaptureCommit(d)
  PROVE  Try(d) \in Tries /\ captures[Try(d)] = NoRow /\ grants[Try(d)] = "absent"
<1>1. body[d] \in Bodies
  BY DEF CaptureCommit, Inv, SenderInv
<1>2. Try(d) \in Tries /\ Try(d)[1] = d
  BY <1>1, KeyType DEF Inv, Try
<1>3. captures[Try(d)] = NoRow
  BY <1>2 DEF CaptureCommit, EventCaptured, Captured, Inv, CapturesNamed
<1> QED BY <1>2, <1>3 DEF Inv, TypeOK

\* What no step undoes.
Kept ==
  /\ \A d \in Deliveries : body[d] \in Bodies => body'[d] = body[d]
  /\ \A c \in Tries : captures[c] # NoRow => captures'[c] = captures[c]
  /\ \A c \in Tries : grants[c] \in Ended => grants'[c] = grants[c]
  /\ \A k \in RowKeys : refunds[k] # NoRow =>
       /\ refunds'[k] # NoRow /\ refunds'[k].capture = refunds[k].capture
       /\ refunds[k].reversal = "linked" => refunds'[k] = refunds[k]
  /\ entries \subseteq entries' /\ matched \subseteq matched'

\* Rows stay, and what they refer to.
LEMMA History ==
  ASSUME Inv, [Next]_vars
  PROVE  Kept
<1>1. ASSUME NEW d \in Deliveries, Received(d) PROVE Kept
  <2>1. PICK b \in Bodies : Receive(d, b)
    BY <1>1 DEF Received
  <2>2. body' = [body EXCEPT ![d] = b] /\ body[d] \in {NoRow, b}
        /\ UNCHANGED <<captures, grants, refunds, entries, matched>>
    BY <2>1 DEF Receive
  <2> QED BY <2>2, RowAssumption DEF Kept, Inv, TypeOK
<1>2. ASSUME NEW d \in Deliveries, CaptureCommit(d) PROVE Kept
  <2>1. Try(d) \in Tries /\ captures[Try(d)] = NoRow /\ grants[Try(d)] = "absent"
    BY <1>2, CaptureIsNew
  <2> QED BY <1>2, <2>1 DEF CaptureCommit, Kept, Inv, TypeOK, Ended
<1>3. ASSUME NEW d \in Deliveries, InsertRefund(d) PROVE Kept
  <2> DEFINE k == IdempotencyHash(d)
  <2>1. k \in RowKeys /\ body[d] \in Bodies
    BY <1>3, KeyType DEF InsertRefund, Inv, SenderInv
  <2>2. \/ UNCHANGED refunds
        \/ refunds[k] = NoRow
           /\ refunds' = [refunds EXCEPT ![k] = [capture |-> body[d].capture, reversal |-> "none"]]
    BY <1>3 DEF InsertRefund
  <2>3. UNCHANGED <<body, captures, grants, entries, matched>>
    BY <1>3 DEF InsertRefund
  <2> HIDE DEF k
  <2> QED BY <2>1, <2>2, <2>3 DEF Kept, Inv, TypeOK
<1>4. ASSUME NEW d \in Deliveries, LinkReversal(d) PROVE Kept
  <2> DEFINE k == IdempotencyHash(d)
  <2>1. k \in RowKeys /\ refunds[k] # NoRow
    BY <1>4, KeyType DEF LinkReversal, Inv, SenderInv, ReversalInv, Past
  <2>2. refunds[k] \in RefundRow
    BY <2>1 DEF Inv, TypeOK
  <2>3. refunds' = [refunds EXCEPT ![k] = [refunds[k] EXCEPT !.reversal = "linked"]]
    BY <1>4 DEF LinkReversal
  <2>4. [refunds[k] EXCEPT !.reversal = "linked"] \in RefundRow
    BY <2>2 DEF RefundRow
  <2>5. [refunds[k] EXCEPT !.reversal = "linked"].capture = refunds[k].capture
        /\ (refunds[k].reversal = "linked" =>
              [refunds[k] EXCEPT !.reversal = "linked"] = refunds[k])
    BY <2>2 DEF RefundRow
  <2>6. UNCHANGED <<body, captures, grants, entries, matched>>
    BY <1>4 DEF LinkReversal
  <2> HIDE DEF k
  <2> QED BY <2>1, <2>3, <2>4, <2>5, <2>6, RowAssumption DEF Kept, Inv, TypeOK
<1>5. ASSUME NEW d \in Deliveries, BookReversal(d) \/ Reconcile(d) PROVE Kept
  BY <1>5 DEF BookReversal, Reconcile, Kept
<1>6. ASSUME \/ \E d \in Deliveries : VoidGrant(d)
             \/ \E c \in Tries : Lifecycle(c)
      PROVE  Kept
  <2>1. \A c \in Tries : grants[c] \in Ended => grants'[c] = grants[c]
    BY <1>6 DEF VoidGrant, Lifecycle, EndGrant, Voided, Ended, Inv, TypeOK
  <2>2. UNCHANGED <<body, captures, refunds, entries, matched>>
    BY <1>6 DEF VoidGrant, Lifecycle, EndGrant
  <2> QED BY <2>1, <2>2 DEF Kept
<1>7. CASE UNCHANGED <<body, captures, grants, refunds, entries, matched>>
  BY <1>7 DEF Kept
<1>8. CASE Next
  <2>1. ASSUME NEW d \in Deliveries, Received(d) \/ Reversal(d) \/ Other(d) PROVE Kept
    <3>1. CASE FindRefund(d) \/ MarkOrder(d)
      BY <1>7, <3>1 DEF FindRefund, MarkOrder
    <3>2. CASE CaptureWritesNothing(d) \/ Answer(d) \/ Resend(d) \/ Crash(d)
      BY <1>7, <3>2 DEF CaptureWritesNothing, Answer, Resend, Crash
    <3> QED BY <2>1, <3>1, <3>2, <1>1, <1>2, <1>3, <1>4, <1>5, <1>6 DEF Reversal, Other
  <2> QED BY <1>6, <1>8, <2>1, StepCases
<1> QED BY <1>7, <1>8 DEF vars

-----------------------------------------------------------------------------
\* Every step keeps the control variables in their types.
ControlTyped ==
  /\ pc \in [Deliveries -> {"new", "plan", "insert", "order", "book", "link", "void",
                            "reconcile", "answer", "lost", "done"}]
  /\ body \in [Deliveries -> Bodies \cup {NoRow}]
  /\ answer \in [Deliveries -> {"none", "refused", "recorded", "not_executed", "written",
                                "replayed", "error"}]
  /\ attempt \in [Deliveries -> 0..MaxCrashes]
  /\ events \subseteq Tries
  /\ crashes \in 0..MaxCrashes

LEMMA ControlStep ==
  ASSUME Inv, [Next]_vars
  PROVE  ControlTyped'
<1> USE DEF ControlTyped, Goto, Result
<1>0. ControlTyped
  BY DEF Inv, TypeOK
<1>1. ASSUME NEW d \in Deliveries, Received(d) PROVE ControlTyped'
  <2>1. PICK b \in Bodies : Receive(d, b)
    BY <1>1 DEF Received
  <2>2. Try(d) \in Tries
    BY <1>0 DEF Try, Tries
  <2> QED BY <1>0, <2>1, <2>2 DEF Receive
<1>2. ASSUME NEW d \in Deliveries, Reversal(d) PROVE ControlTyped'
  <2>1. CASE FindRefund(d)
    BY <1>0, <2>1 DEF FindRefund, AfterFound
  <2>2. CASE InsertRefund(d)
    BY <1>0, <2>2 DEF InsertRefund
  <2>3. CASE MarkOrder(d) \/ BookReversal(d) \/ LinkReversal(d) \/ VoidGrant(d) \/ Reconcile(d)
    BY <1>0, <2>3 DEF MarkOrder, BookReversal, LinkReversal, VoidGrant, Reconcile
  <2> QED BY <1>2, <2>1, <2>2, <2>3 DEF Reversal
<1>3. ASSUME NEW d \in Deliveries, Other(d) PROVE ControlTyped'
  <2>1. CASE CaptureWritesNothing(d) \/ CaptureCommit(d)
    BY <1>0, <2>1 DEF CaptureWritesNothing, CaptureCommit
  <2>2. CASE Answer(d)
    BY <1>0, <2>2 DEF Answer
  <2>3. CASE Crash(d)
    BY <1>0, <2>3, CrashAssumption DEF Crash
  <2>4. CASE Resend(d)
    <3>1. attempt[d] + 1 \in 0..MaxCrashes
      BY <1>0, <2>4, CrashAssumption DEF Resend, Inv, SenderInv
    <3> QED BY <1>0, <2>4, <3>1 DEF Resend
  <2> QED BY <1>3, <2>1, <2>2, <2>3, <2>4 DEF Other
<1>4. ASSUME NEW c \in Tries, Lifecycle(c) PROVE ControlTyped'
  BY <1>0, <1>4 DEF Lifecycle, EndGrant
<1>5. CASE UNCHANGED vars
  BY <1>0, <1>5 DEF vars
<1> QED BY <1>1, <1>2, <1>3, <1>4, <1>5, StepCases

\* Every step keeps the tables in their types.
TablesTyped ==
  /\ captures \in [Tries -> CaptureRow \cup {NoRow}]
  /\ \A c \in Tries : (captures[c] = NoRow) <=> (grants[c] = "absent")
  /\ grants \in [Tries -> {"absent", "active", "voided", "expired"}]
  /\ order \in {"created", "paid", "refunded"}
  /\ refunds \in [RowKeys -> RefundRow \cup {NoRow}]
  /\ entries \subseteq EntryRow
  /\ matched \subseteq RowKeys

LEMMA TablesStep ==
  ASSUME Inv, [Next]_vars
  PROVE  TablesTyped'
<1> USE DEF TablesTyped
<1>0. TablesTyped
  BY DEF Inv, TypeOK
<1>1. ASSUME NEW d \in Deliveries, CaptureCommit(d) PROVE TablesTyped'
  <2> DEFINE row == [key |-> IdempotencyHash(d), event |-> body[d].event]
  <2>1. body[d] \in Bodies
    BY <1>1 DEF CaptureCommit, Inv, SenderInv
  <2>2. row \in CaptureRow /\ Try(d) \in Tries
    BY <2>1, KeyType DEF Inv, CaptureRow
  <2>3. captures' = [captures EXCEPT ![Try(d)] = row]
    BY <1>1 DEF CaptureCommit
  <2>4. /\ grants' = [grants EXCEPT ![Try(d)] = "active"] /\ order' = "paid"
        /\ UNCHANGED <<refunds, entries, matched>>
    BY <1>1 DEF CaptureCommit
  <2> HIDE DEF row
  <2> QED BY <1>0, <2>2, <2>3, <2>4, RowAssumption
<1>2. ASSUME NEW d \in Deliveries, InsertRefund(d) PROVE TablesTyped'
  <2> DEFINE k == IdempotencyHash(d)
             row == [capture |-> body[d].capture, reversal |-> "none"]
  <2>1. body[d] \in Bodies /\ k \in RowKeys
    BY <1>2, KeyType DEF InsertRefund, Inv, SenderInv
  <2>2. row \in RefundRow
    BY <2>1, KeyType DEF RefundRow, Inv
  <2>3. refunds' \in {refunds, [refunds EXCEPT ![k] = row]}
    BY <1>2 DEF InsertRefund
  <2>4. UNCHANGED <<captures, grants, order, entries, matched>>
    BY <1>2 DEF InsertRefund
  <2> HIDE DEF k, row
  <2> QED BY <1>0, <2>1, <2>2, <2>3, <2>4
<1>3. ASSUME NEW d \in Deliveries, LinkReversal(d) PROVE TablesTyped'
  <2> DEFINE k == IdempotencyHash(d)
             row == [refunds[k] EXCEPT !.reversal = "linked"]
  <2>1. k \in RowKeys /\ refunds[k] # NoRow
    BY <1>3, KeyType DEF LinkReversal, Inv, SenderInv, ReversalInv, Past
  <2>2. row \in RefundRow
    BY <1>0, <2>1 DEF RefundRow
  <2>3. refunds' = [refunds EXCEPT ![k] = row] /\ UNCHANGED <<captures, grants, order, entries, matched>>
    BY <1>3 DEF LinkReversal
  <2> HIDE DEF k, row
  <2> QED BY <1>0, <2>1, <2>2, <2>3
<1>4. ASSUME NEW d \in Deliveries, BookReversal(d) PROVE TablesTyped'
  <2>1. IdempotencyHash(d) \in RowKeys /\ body[d].capture \in Tries /\ Try(d) \in Tries
    BY <1>4, KeyType DEF BookReversal, Inv, SenderInv
  <2>2. [refund |-> IdempotencyHash(d), source |-> body[d].capture, by |-> Try(d)] \in EntryRow
    BY <2>1 DEF EntryRow
  <2> QED BY <1>0, <1>4, <2>2 DEF BookReversal
<1>5. ASSUME \/ \E d \in Deliveries : VoidGrant(d)
             \/ \E c \in Tries : Lifecycle(c)
      PROVE  TablesTyped'
  BY <1>0, <1>5 DEF VoidGrant, Lifecycle, EndGrant, Voided
<1>6. ASSUME NEW d \in Deliveries, MarkOrder(d) \/ Reconcile(d) PROVE TablesTyped'
  <2>1. Reconcile(d) => IdempotencyHash(d) \in RowKeys
    BY KeyType DEF Reconcile, Inv, SenderInv
  <2> QED BY <1>0, <1>6, <2>1 DEF MarkOrder, Reconcile
<1>7. CASE UNCHANGED <<captures, grants, order, refunds, entries, matched>>
  BY <1>0, <1>7
<1>8. CASE Next
  <2>1. ASSUME NEW d \in Deliveries, Received(d) \/ Reversal(d) \/ Other(d) PROVE TablesTyped'
    <3>1. CASE Received(d) \/ FindRefund(d) \/ CaptureWritesNothing(d)
      BY <1>7, <3>1 DEF Received, Receive, FindRefund, CaptureWritesNothing
    <3>2. CASE Answer(d) \/ Resend(d) \/ Crash(d)
      BY <1>7, <3>2 DEF Answer, Resend, Crash
    <3> QED BY <2>1, <3>1, <3>2, <1>1, <1>2, <1>3, <1>4, <1>5, <1>6 DEF Reversal, Other
  <2> QED BY <1>5, <1>8, <2>1, StepCases
<1> QED BY <1>7, <1>8 DEF vars

\* Every step keeps every variable in its type.
LEMMA PaymentTypeStep ==
  ASSUME Inv, [Next]_vars
  PROVE  TypeOK'
BY ControlStep, TablesStep DEF ControlTyped, TablesTyped, TypeOK

-----------------------------------------------------------------------------
\* A capture has its delivery's event, which had none before.
LEMMA CapturesStep ==
  ASSUME Inv, [Next]_vars
  PROVE  CapturesNamed' /\ EventsDiffer'
<1> USE History
<1>1. ASSUME NEW d \in Deliveries, CaptureCommit(d) PROVE CapturesNamed' /\ EventsDiffer'
  <2> DEFINE row == [key |-> IdempotencyHash(d), event |-> body[d].event]
  <2>1. body[d] \in Bodies /\ UNCHANGED body
    BY <1>1 DEF CaptureCommit, Inv, SenderInv
  <2>2. Try(d) \in Tries /\ Try(d)[1] = d
    BY <2>1, KeyType DEF Inv, Try
  <2>3. captures' = [captures EXCEPT ![Try(d)] = row]
    BY <1>1 DEF CaptureCommit
  <2>4. captures'[Try(d)] = row /\ \A c \in Tries \ {Try(d)} : captures'[c] = captures[c]
    BY <2>2, <2>3 DEF Inv, TypeOK
  <2>5. row.event = body[d].event /\ \A c \in Captured : captures[c].event # row.event
    BY <1>1 DEF CaptureCommit, EventCaptured
  <2> HIDE DEF row
  <2>6. CapturesNamed'
    BY <2>1, <2>2, <2>4, <2>5 DEF CapturesNamed, Inv
  <2>7. EventsDiffer'
    BY <2>4, <2>5 DEF EventsDiffer, Captured, Inv
  <2> QED BY <2>6, <2>7
<1>2. CASE UNCHANGED captures
  <2>1. \A c \in Tries : c[1] \in Deliveries
    BY DEF Tries
  <2> QED BY <1>2, <2>1 DEF CapturesNamed, EventsDiffer, Captured, Kept, Inv
<1> QED BY <1>1, <1>2, StepCases
        DEF Received, Receive, Reversal, Other, FindRefund, InsertRefund, MarkOrder, BookReversal,
            LinkReversal, VoidGrant, Reconcile, CaptureWritesNothing, Answer, Resend, Crash,
            Lifecycle, EndGrant, vars

\* An entry has its delivery's message, which had none before.
LEMMA EntriesStep ==
  ASSUME Inv, [Next]_vars
  PROVE  EntriesNamed' /\ EntriesDiffer'
<1> USE History
<1>1. ASSUME NEW d \in Deliveries, BookReversal(d) PROVE EntriesNamed' /\ EntriesDiffer'
  <2> DEFINE k == IdempotencyHash(d)
             c == body[d].capture
             row == [refund |-> k, source |-> c, by |-> Try(d)]
  <2>1. body[d] \in Bodies /\ UNCHANGED body
    BY <1>1 DEF BookReversal, Inv, SenderInv
  <2>2. entries' = IF Booked(k, c) THEN entries ELSE entries \cup {row}
    BY <1>1 DEF BookReversal
  <2>3. /\ row.refund = k /\ row.source = c /\ row.by[1] = d
        /\ body[d].key # NoRow => k = body[d].key
    BY DEF Try, IdempotencyHash
  <2> HIDE DEF row, k
  <2>4. EntriesNamed'
    BY <2>1, <2>2, <2>3 DEF EntriesNamed, Inv
  <2>5. EntriesDiffer'
    BY <2>2, <2>3 DEF EntriesDiffer, Booked, Inv
  <2> QED BY <2>4, <2>5
<1>2. CASE UNCHANGED entries
  <2>1. \A x \in entries : x.by[1] \in Deliveries
    BY DEF Inv, TypeOK, EntryRow, Tries
  <2> QED BY <1>2, <2>1 DEF EntriesNamed, EntriesDiffer, Kept, Inv
<1> QED BY <1>1, <1>2, StepCases
        DEF Received, Receive, Reversal, Other, FindRefund, InsertRefund, MarkOrder,
            LinkReversal, VoidGrant, Reconcile, CaptureWritesNothing, CaptureCommit, Answer,
            Resend, Crash, Lifecycle, EndGrant, vars

\* A row is linked after its entry is booked.
LEMMA LinkedStep ==
  ASSUME Inv, [Next]_vars
  PROVE  LinkedHaveEntry'
<1> USE History
<1>0. \A k \in RowKeys : HasEntry(k) => HasEntry(k)'
  BY DEF HasEntry, Kept
<1>1. CASE UNCHANGED refunds
  BY <1>0, <1>1 DEF LinkedHaveEntry, Inv
<1>2. ASSUME NEW d \in Deliveries, InsertRefund(d) PROVE LinkedHaveEntry'
  <2> DEFINE h == IdempotencyHash(d)
             row == [capture |-> body[d].capture, reversal |-> "none"]
  <2>1. refunds' \in {refunds, [refunds EXCEPT ![h] = row]}
    BY <1>2 DEF InsertRefund
  <2>2. row.reversal # "linked"
    OBVIOUS
  <2> HIDE DEF h, row
  <2> QED BY <1>0, <1>1, <2>1, <2>2 DEF LinkedHaveEntry, Inv, TypeOK
<1>3. ASSUME NEW d \in Deliveries, LinkReversal(d) PROVE LinkedHaveEntry'
  <2>1. HasEntry(IdempotencyHash(d))
    BY <1>3 DEF LinkReversal, Inv, ReversalInv
  <2> DEFINE h == IdempotencyHash(d)
             row == [refunds[h] EXCEPT !.reversal = "linked"]
  <2>2. refunds' = [refunds EXCEPT ![h] = row]
    BY <1>3 DEF LinkReversal
  <2> HIDE DEF h, row
  <2> QED BY <1>0, <2>1, <2>2 DEF LinkedHaveEntry, Inv, TypeOK, h
<1> QED BY <1>1, <1>2, <1>3, StepCases
        DEF Received, Receive, Reversal, Other, FindRefund, MarkOrder, BookReversal,
            VoidGrant, Reconcile, CaptureWritesNothing, CaptureCommit, Answer, Resend, Crash,
            Lifecycle, EndGrant, vars

-----------------------------------------------------------------------------
\* What a delivery knows of itself is what the invariants say of it.
Untouched(d) ==
  /\ pc'[d] = pc[d] /\ body'[d] = body[d] /\ answer'[d] = answer[d] /\ attempt'[d] = attempt[d]

\* A finished reversal stays finished.
LEMMA CompleteStays ==
  ASSUME Inv, Kept, NEW d \in Deliveries, body[d] \in Bodies,
         attempt'[d] = attempt[d], Complete(d)
  PROVE  Complete(d)'
<1>1. IdempotencyHash(d) \in RowKeys /\ body[d].capture \in Tries
  BY KeyType DEF Inv
<1>2. body'[d] = body[d] /\ IdempotencyHash(d)' = IdempotencyHash(d)
  BY DEF Kept, IdempotencyHash, Try
<1> QED BY <1>1, <1>2 DEF Kept, Complete, HasEntry

\* A step leaves the other deliveries where they are.
LEMMA OthersUntouched ==
  ASSUME Inv, NEW d \in Deliveries, Received(d) \/ Reversal(d) \/ Other(d)
  PROVE  crashes' >= crashes /\ \A e \in Deliveries \ {d} : Untouched(e)
<1> USE DEF Untouched, Goto, Result
<1>0. /\ pc \in [Deliveries -> {"new", "plan", "insert", "order", "book", "link", "void",
                                "reconcile", "answer", "lost", "done"}]
      /\ body \in [Deliveries -> Bodies \cup {NoRow}]
      /\ answer \in [Deliveries -> {"none", "refused", "recorded", "not_executed", "written",
                                    "replayed", "error"}]
      /\ attempt \in [Deliveries -> 0..MaxCrashes] /\ crashes \in Nat
  BY CrashAssumption DEF Inv, TypeOK
<1>1. CASE Received(d)
  BY <1>0, <1>1 DEF Received, Receive
<1>2. CASE FindRefund(d) \/ InsertRefund(d)
  BY <1>0, <1>2 DEF FindRefund, InsertRefund
<1>3. CASE MarkOrder(d) \/ BookReversal(d) \/ LinkReversal(d) \/ VoidGrant(d) \/ Reconcile(d)
  BY <1>0, <1>3 DEF MarkOrder, BookReversal, LinkReversal, VoidGrant, Reconcile
<1>4. CASE CaptureWritesNothing(d) \/ CaptureCommit(d)
  BY <1>0, <1>4 DEF CaptureWritesNothing, CaptureCommit
<1>5. CASE Answer(d) \/ Resend(d) \/ Crash(d)
  BY <1>0, <1>5 DEF Answer, Resend, Crash
<1> QED BY <1>1, <1>2, <1>3, <1>4, <1>5 DEF Reversal, Other

\* Who does not step keeps what he relies on.
LEMMA UntouchedKeeps ==
  ASSUME Inv, Kept, NEW d \in Deliveries, Untouched(d), crashes' \in Nat, crashes' >= crashes
  PROVE  SenderInv(d)' /\ ReversalInv(d)'
<1>0. SenderInv(d) /\ ReversalInv(d) /\ attempt[d] \in Nat /\ crashes \in Nat
  BY CrashAssumption DEF Inv, TypeOK
<1>1. SenderInv(d)'
  BY <1>0 DEF Untouched, SenderInv, IsReversal, Kind
<1>2. CASE pc[d] = "new"
  BY <1>1, <1>2 DEF Untouched, ReversalInv, Past
<1>3. CASE body[d] \in Bodies
  <2>1. IdempotencyHash(d) \in RowKeys /\ body[d].capture \in Tries
    BY <1>3, KeyType DEF Inv
  <2>2. IdempotencyHash(d)' = IdempotencyHash(d) /\ IsReversal(d)' = IsReversal(d)
    BY DEF Untouched, IdempotencyHash, Try, IsReversal, Kind
  <2>3. Complete(d) => Complete(d)'
    BY <1>3, CompleteStays DEF Untouched
  <2>4. captures[body[d].capture] # NoRow => captures'[body'[d].capture] # NoRow
    BY <2>1 DEF Untouched, Kept
  <2>5. refunds[IdempotencyHash(d)] # NoRow =>
          /\ refunds'[IdempotencyHash(d)'] # NoRow
          /\ refunds[IdempotencyHash(d)].reversal = "linked" =>
               refunds'[IdempotencyHash(d)'].reversal = "linked"
    BY <2>1, <2>2 DEF Kept
  <2>6. /\ HasEntry(IdempotencyHash(d)) => HasEntry(IdempotencyHash(d))'
        /\ IdempotencyHash(d) \in matched => (IdempotencyHash(d) \in matched)'
    BY <2>2 DEF HasEntry, Kept
  <2> HIDE DEF Kept
  <2> QED BY <1>0, <1>1, <2>2, <2>3, <2>4, <2>5, <2>6 DEF Untouched, ReversalInv, Past
<1> QED BY <1>0, <1>1, <1>2, <1>3 DEF SenderInv

\* The delivery that steps gets what the next statement relies on.
LEMMA OwnStep ==
  ASSUME Inv, Kept, NEW d \in Deliveries, Received(d) \/ Reversal(d) \/ Other(d)
  PROVE  SenderInv(d)' /\ ReversalInv(d)'
<1> USE DEF Goto, Result
<1>0. /\ pc \in [Deliveries -> {"new", "plan", "insert", "order", "book", "link", "void",
                                "reconcile", "answer", "lost", "done"}]
      /\ body \in [Deliveries -> Bodies \cup {NoRow}]
      /\ answer \in [Deliveries -> {"none", "refused", "recorded", "not_executed", "written",
                                    "replayed", "error"}]
      /\ attempt \in [Deliveries -> 0..MaxCrashes] /\ crashes \in Nat
      /\ attempt[d] \in Nat /\ MaxCrashes \in Nat
      /\ SenderInv(d) /\ ReversalInv(d)
  BY CrashAssumption DEF Inv, TypeOK
<1>1. CASE Received(d)
  <2>1. PICK b \in Bodies : Receive(d, b)
    BY <1>1 DEF Received
  <2>2. /\ pc[d] = "new" /\ body'[d] = b /\ UNCHANGED <<attempt, captures, crashes>>
        /\ pc'[d] \in {"answer", "plan"}
        /\ pc'[d] = "plan" /\ map_stripe_like_event_type(b.type) \in {"refund", "chargeback"} =>
             b.capture \in Captured
        /\ pc'[d] = "answer" => answer'[d] \in {"refused", "error", "recorded"}
    BY <1>0, <2>1 DEF Receive
  <2>3. SenderInv(d)'
    BY <1>0, <2>2 DEF SenderInv, Past
  <2>4. ReversalInv(d)'
    BY <2>2 DEF ReversalInv, Past, IsReversal, Kind, Captured
  <2> QED BY <2>3, <2>4
<1>3. CASE Crash(d)
  BY <1>0, <1>3 DEF Crash, SenderInv, ReversalInv, Past
<1>4. CASE Resend(d)
  BY <1>0, <1>4 DEF Resend, SenderInv, ReversalInv, Past
<1>5. CASE CaptureWritesNothing(d) \/ CaptureCommit(d)
  <2>1. /\ pc[d] = "plan" /\ pc'[d] = "answer" /\ Kind(d) = "capture"
        /\ UNCHANGED <<body, attempt, crashes>>
    BY <1>0, <1>5 DEF CaptureWritesNothing, CaptureCommit
  <2> QED BY <1>0, <2>1 DEF SenderInv, ReversalInv, Past, IsReversal, Kind
<1>6. ASSUME Reversal(d) \/ Answer(d) PROVE SenderInv(d)' /\ ReversalInv(d)'
  <2>0. /\ body[d] \in Bodies /\ UNCHANGED <<body, attempt, crashes>>
        /\ IdempotencyHash(d)' = IdempotencyHash(d) /\ IsReversal(d)' = IsReversal(d)
    BY <1>0, <1>6 DEF Reversal, FindRefund, InsertRefund, MarkOrder, BookReversal, LinkReversal,
          VoidGrant, Reconcile, Answer, SenderInv, IdempotencyHash, Try, IsReversal, Kind
  <2>1. IdempotencyHash(d) \in RowKeys /\ body[d].capture \in Tries
    BY <2>0, KeyType DEF Inv
  <2>2. captures[body[d].capture] # NoRow => captures'[body'[d].capture] # NoRow
    BY <2>0, <2>1 DEF Kept
  <2>3. refunds[IdempotencyHash(d)] # NoRow =>
          /\ refunds'[IdempotencyHash(d)'] # NoRow
          /\ refunds[IdempotencyHash(d)].reversal = "linked" =>
               refunds'[IdempotencyHash(d)'].reversal = "linked"
    BY <2>0, <2>1 DEF Kept
  <2>4. Complete(d) => Complete(d)'
    BY <2>0, CompleteStays
  <2>12. /\ HasEntry(IdempotencyHash(d)) => HasEntry(IdempotencyHash(d))'
         /\ IdempotencyHash(d) \in matched => (IdempotencyHash(d) \in matched)'
    BY <2>0 DEF HasEntry, Kept
  <2> HIDE DEF Kept
  <2>5. CASE FindRefund(d)
    <3>1. /\ pc[d] = "plan" /\ IsReversal(d)
          /\ \/ pc'[d] = "answer" /\ answer'[d] = "not_executed"
             \/ pc'[d] = AfterFound(d) /\ refunds[IdempotencyHash(d)] # NoRow
             \/ pc'[d] = "insert"
      BY <1>0, <2>5 DEF FindRefund
    <3>2. pc'[d] = AfterFound(d) =>
            \/ pc'[d] = "void" /\ refunds[IdempotencyHash(d)].reversal = "linked"
            \/ pc'[d] = "book"
      BY DEF AfterFound
    <3> QED BY <1>0, <2>0, <2>2, <2>3, <3>1, <3>2 DEF SenderInv, ReversalInv, Past
  <2>6. CASE InsertRefund(d)
    <3>1. \/ /\ pc'[d] = "order"
             /\ refunds' = [refunds EXCEPT ![IdempotencyHash(d)] =
                              [capture |-> body[d].capture, reversal |-> "none"]]
          \/ pc'[d] = "answer" /\ answer'[d] = "error"
      BY <1>0, <2>6 DEF InsertRefund
    <3>2. pc[d] = "insert"
      BY <2>6 DEF InsertRefund
    <3>3. [capture |-> body[d].capture, reversal |-> "none"] \in RefundRow
      BY <2>1 DEF RefundRow
    <3>4. pc'[d] = "order" => refunds'[IdempotencyHash(d)] # NoRow
      BY <2>1, <3>1, <3>3, RowAssumption DEF Inv, TypeOK
    <3> QED BY <1>0, <2>0, <2>2, <3>1, <3>2, <3>4 DEF SenderInv, ReversalInv, Past
  <2>7. CASE MarkOrder(d)
    BY <1>0, <2>0, <2>2, <2>3, <2>7 DEF MarkOrder, SenderInv, ReversalInv, Past
  <2>8. CASE BookReversal(d)
    <3> DEFINE h == IdempotencyHash(d)
               row == [refund |-> h, source |-> body[d].capture, by |-> Try(d)]
    <3>0. /\ entries' = IF Booked(h, body[d].capture) THEN entries ELSE entries \cup {row}
          /\ row.refund = h
      BY <2>8 DEF BookReversal
    <3>3. \E x \in entries' : x.refund = h
      <4> HIDE DEF row, h
      <4> QED BY <3>0 DEF Booked
    <3>1. HasEntry(IdempotencyHash(d))'
      BY <2>0, <3>3 DEF HasEntry
    <3>2. pc[d] = "book" /\ pc'[d] = "link"
      BY <1>0, <2>8 DEF BookReversal
    <3> QED BY <1>0, <2>0, <2>2, <2>3, <3>1, <3>2 DEF SenderInv, ReversalInv, Past
  <2>9. CASE LinkReversal(d)
    <3>1. pc[d] = "link" /\ pc'[d] = "void"
      BY <1>0, <2>9 DEF LinkReversal
    <3>2. refunds[IdempotencyHash(d)] \in RefundRow
      BY <1>0, <2>1, <3>1 DEF ReversalInv, Past, Inv, TypeOK
    <3>3. refunds'[IdempotencyHash(d)] = [refunds[IdempotencyHash(d)] EXCEPT !.reversal = "linked"]
      BY <2>1, <2>9 DEF LinkReversal, Inv, TypeOK
    <3>4. refunds'[IdempotencyHash(d)].reversal = "linked"
      BY <3>2, <3>3 DEF RefundRow
    <3> QED BY <1>0, <2>0, <2>2, <2>3, <3>1, <3>4 DEF SenderInv, ReversalInv, Past
  <2>10. CASE VoidGrant(d)
    <3>1. pc[d] = "void" /\ pc'[d] = "reconcile"
      BY <1>0, <2>10 DEF VoidGrant
    <3>2. grants[body[d].capture] \in {"active", "voided", "expired"}
      BY <1>0, <2>1, <3>1 DEF SenderInv, ReversalInv, Past, Inv, TypeOK
    <3>3. grants'[body[d].capture] \in Ended
      BY <2>1, <2>10, <3>2 DEF VoidGrant, Voided, Ended, Inv, TypeOK
    <3>4. HasEntry(IdempotencyHash(d))
      BY <1>0, <2>1, <3>1 DEF ReversalInv, Past, Inv, LinkedHaveEntry
    <3>5. Complete(d)'
      BY <1>0, <2>0, <2>3, <2>12, <3>1, <3>3, <3>4 DEF Complete, ReversalInv, Past
    <3> QED BY <1>0, <2>0, <2>2, <3>1, <3>5 DEF SenderInv, ReversalInv, Past, Complete
  <2>11. CASE Reconcile(d) \/ Answer(d)
    <3>1. /\ pc[d] \in {"reconcile", "answer"} /\ pc'[d] \in {"answer", "done"}
          /\ answer' = answer
          /\ pc[d] = "reconcile" /\ answer[d] = "written" => IdempotencyHash(d) \in matched'
      BY <1>0, <2>11 DEF Reconcile, Answer
    <3> QED BY <1>0, <2>0, <2>4, <2>12, <3>1 DEF SenderInv, ReversalInv, Past
  <2> QED BY <1>6, <2>5, <2>6, <2>7, <2>8, <2>9, <2>10, <2>11 DEF Reversal
<1> QED BY <1>1, <1>3, <1>4, <1>5, <1>6 DEF Other

\* Every step keeps the invariant.
LEMMA PaymentStep ==
  ASSUME Inv, [Next]_vars
  PROVE  Inv'
<1>1. /\ TypeOK' /\ CapturesNamed' /\ EventsDiffer' /\ EntriesNamed' /\ EntriesDiffer'
      /\ LinkedHaveEntry' /\ Kept
  BY PaymentTypeStep, CapturesStep, EntriesStep, LinkedStep, History
<1>2. crashes' \in Nat
  BY <1>1, CrashAssumption DEF TypeOK
<1>3. ASSUME NEW d \in Deliveries, Received(d) \/ Reversal(d) \/ Other(d), NEW e \in Deliveries
      PROVE  SenderInv(e)' /\ ReversalInv(e)'
  <2>1. CASE e = d
    BY <1>1, <1>3, <2>1, OwnStep
  <2>2. CASE e # d
    <3>1. Untouched(e) /\ crashes' >= crashes
      BY <1>3, <2>2, OthersUntouched
    <3> QED BY <1>1, <1>2, <3>1, UntouchedKeeps
  <2> QED BY <2>1, <2>2
<1>4. ASSUME UNCHANGED vars \/ (\E c \in Tries : Lifecycle(c)), NEW e \in Deliveries
      PROVE  SenderInv(e)' /\ ReversalInv(e)'
  <2>1. Untouched(e) /\ crashes' = crashes
    BY <1>4 DEF Untouched, vars, Lifecycle, EndGrant
  <2>2. crashes' >= crashes
    BY <1>2, <2>1
  <2> QED BY <1>1, <1>2, <2>1, <2>2, UntouchedKeeps
<1>5. \A e \in Deliveries : SenderInv(e)' /\ ReversalInv(e)'
  BY <1>3, <1>4, StepCases
<1> QED BY <1>1, <1>5 DEF Inv

-----------------------------------------------------------------------------
\* No delivery, row or counter leaves its type, however often requests are
\* cut off and sent again.
THEOREM PaymentTypeCorrect == Spec => []TypeOK
<1>1. Inv => TypeOK
  BY DEF Inv
<1> QED BY PaymentInit, PaymentStep, <1>1, PTL DEF Spec

\* A capture message credits once: a delivery of a message that has a capture
\* finds its event in the unique index, with or without a key of its own.
THEOREM MessagesCaptureOnce == Spec => []CapturedOnce
<1>1. Inv => CapturedOnce
  <2>1. \A c \in Captured : c \in Tries /\ captures[c] # NoRow
    BY DEF Captured
  <2> QED BY <2>1 DEF Inv, CapturesNamed, EventsDiffer, CapturedOnce
<1> QED BY PaymentInit, PaymentStep, <1>1, PTL DEF Spec

\* A refund message with a key has one ledger entry, however many of its
\* deliveries run at once or were cut off between their statements.
THEOREM RefundMessagesBookOnce == Spec => []RefundBookedOnce
<1>1. Inv => RefundBookedOnce
  BY DEF Inv, EntriesNamed, EntriesDiffer, RefundBookedOnce
<1> QED BY PaymentInit, PaymentStep, <1>1, PTL DEF Spec

\* execute_payment_provider_reversal_plan answers written or replayed only when
\* the refund row refers to a ledger entry of it and the grant has ended.
THEOREM AnsweredRefundsHold == Spec => []AnsweredRefundHolds
<1>1. Inv => AnsweredRefundHolds
  BY DEF Inv, ReversalInv, Complete, HasEntry, AnsweredRefundHolds, Ended
<1> QED BY PaymentInit, PaymentStep, <1>1, PTL DEF Spec

\* A grant that was ended keeps the status it ended with: no capture, refund,
\* retry or administrator makes it active again.
THEOREM EndedGrantsStay == Spec => EndedStays
<1>1. Inv /\ [Next]_vars =>
        [\A c \in Tries : grants[c] \in {"voided", "expired"} => grants'[c] = grants[c]]_vars
  BY History DEF Kept, Ended
<1> QED BY PaymentInit, PaymentStep, <1>1, PTL DEF Spec, EndedStays
=============================================================================
