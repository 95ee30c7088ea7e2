----------------------- MODULE LedgerAdjustmentProofs -----------------------
(***************************************************************************)
(* Theorems about LedgerAdjustment for any number of calls, sources,       *)
(* bodies, faults and operator switches.                                   *)
(***************************************************************************)
EXTENDS LedgerAdjustment, TLAPS

Working == Places \ {"new", "done"}

\* A call that is under way has a body that was validated.
BodiesValid ==
  \A c \in Calls : /\ pc[c] # "new" => input[c] \in Inputs
                   /\ pc[c] \in Working => Valid(input[c])

\* Whoever is between its wallet lock and the end of its transaction holds it.
WalletHeld ==
  \A c \in Calls : pc[c] \in {"locked", "checked", "wallet", "rows"} => walletLock = c

\* The check of the legacy writer is still true when it inserts.
CheckHolds == \A c \in Calls : pc[c] = "checked" => WithinRemaining(input[c])

\* What a call has written by the time it gets there, and nothing before.
Progress ==
  \A c \in Calls :
    /\ answer[c] # "none" => pc[c] = "done"
    /\ pc[c] \in {"new", "entry", "locked", "checked", "planned", "wallet", "rows"} =>
         \A e \in entries : e.by # c
    /\ pc[c] = "audit" => \E e \in entries : e.key[2] = input[c]
    /\ plan[c] = "idempotent" => Written(runtime_writer_idempotency_key(input[c]))
    /\ pc[c] \in {"new", "entry", "locked", "checked"} => plan[c] = "none"
    /\ pc[c] \in {"planned", "wallet", "rows", "audit"} => plan[c] # "none"

\* The part that does not speak of what was written.
Inv == TypeOK /\ BodiesValid /\ WalletHeld /\ CheckHolds

\* The first state: nobody has begun.
LEMMA AdjustInit == Init => Inv /\ RepeatsAgree /\ AnswerMatchesLedger /\ Progress
<1> SUFFICES ASSUME Init PROVE Inv /\ RepeatsAgree /\ AnswerMatchesLedger /\ Progress
  OBVIOUS
<1>1. TypeOK
  BY BoundAssumption DEF Init, TypeOK, Places, Answers, NoSums
<1>2. BodiesValid /\ WalletHeld /\ CheckHolds
  BY DEF Init, BodiesValid, WalletHeld, CheckHolds, Working
<1>3. RepeatsAgree /\ AnswerMatchesLedger /\ Progress
  BY DEF Init, RepeatsAgree, AnswerMatchesLedger, Progress
<1> QED BY <1>1, <1>2, <1>3 DEF Inv

\* One more valid entry leaves the sums natural numbers.
LEMMA BookedType ==
  ASSUME TypeOK, NEW i \in Inputs, Valid(i), NEW s \in Sources
  PROVE  Booked(s, i) \in [credit : Nat, refunded : Nat, debited : Nat]
<1>1. sums[s] \in [credit : Nat, refunded : Nat, debited : Nat]
  BY DEF TypeOK
<1>2. i.op \in {"refund", "adjust"} /\ i.amount \in Int /\ (i.op = "refund" => i.amount > 0)
  BY InputAssumption DEF Valid
<1> QED BY <1>1, <1>2 DEF Booked

\* The rows a writer inserts have their types.
LEMMA WriteType ==
  ASSUME TypeOK, BodiesValid, NEW c \in Calls, pc[c] \in Working,
         NEW w \in {"legacy", "runtime"}, Write(c, <<w, input[c]>>)
  PROVE  /\ entries' \subseteq [key : {"legacy", "runtime"} \X Inputs, by : Calls]
         /\ sums' \in [Sources -> [credit : Nat, refunded : Nat, debited : Nat]]
<1>1. input[c] \in Inputs /\ Valid(input[c])
  BY DEF BodiesValid, Working
<1>2. \A s \in Sources : Booked(s, input[c]) \in [credit : Nat, refunded : Nat, debited : Nat]
  BY <1>1, BookedType
<1>3. [key |-> <<w, input[c]>>, by |-> c] \in [key : {"legacy", "runtime"} \X Inputs, by : Calls]
  BY <1>1
<1> QED BY <1>2, <1>3 DEF Write, TypeOK

\* Locks only pass between calls and nobody.
LEMMA EndTxType ==
  ASSUME TypeOK, NEW c \in Calls, EndTx(c)
  PROVE  /\ entryLock' \in [Sources -> Calls \cup {NoCall}]
         /\ walletLock' \in Calls \cup {NoCall}
BY DEF TypeOK, EndTx, FreeEntries, FreeWallet

\* Every step keeps every variable in its type.
LEMMA AdjustTypeStep ==
  ASSUME Inv, [Next]_vars
  PROVE  TypeOK'
<1> USE DEF Inv
<1>1. ASSUME NEW c \in Calls, NEW i \in Inputs, Begin(c, i) PROVE TypeOK'
  <2>1. i.source \in Sources \cup {NoSource}
    BY InputAssumption
  <2> QED BY <1>1, <2>1 DEF Begin, TakeEntry, Goto, Answer, TypeOK, Places, Answers
<1>2. ASSUME NEW c \in Calls, LockWallet(c) \/ WriterLockWallet(c) PROVE TypeOK'
  BY <1>2 DEF LockWallet, WriterLockWallet, TakeWallet, Goto, TypeOK, Places
<1>3. ASSUME NEW c \in Calls,
             Replay(c) \/ RefuseOverRemaining(c) \/ DeadlockAbort(c)
      PROVE TypeOK'
  BY <1>3, EndTxType 
     DEF Replay, RefuseOverRemaining, DeadlockAbort, FailureAnswer, Answer, TypeOK, Places, Answers
<1>4. ASSUME NEW c \in Calls, CheckLegacy(c) PROVE TypeOK'
  BY <1>4 DEF CheckLegacy, Goto, TypeOK, Places
<1>5. ASSUME NEW c \in Calls, CommitLegacy(c) PROVE TypeOK'
  <2>1. input[c] \in Inputs /\ pc[c] \in Working
    BY <1>5 DEF CommitLegacy, BodiesValid, Working, Places
  <2>2. Write(c, <<"legacy", input[c]>>)
    BY <1>5 DEF CommitLegacy, ledger_adjustment_execute_dedupe_key
  <2>3. [input |-> input[c], by |-> c] \in [input : Inputs, by : Calls]
    BY <2>1
  <2> QED BY <1>5, <2>1, <2>2, <2>3, WriteType, EndTxType
          DEF CommitLegacy, Answer, TypeOK, Places, Answers
<1>6. ASSUME NEW c \in Calls, PlanRuntime(c) PROVE TypeOK'
  <2>1. plan_consistent_ledger_write(input[c]) \in {"none", "apply", "idempotent"}
    BY DEF plan_consistent_ledger_write
  <2> HIDE DEF Inv
  <2>2. TypeOK
    BY DEF Inv
  <2> QED BY <1>6, <2>1, <2>2, EndTxType DEF PlanRuntime, Answer, Goto, TypeOK, Places, Answers
<1>7. ASSUME NEW c \in Calls, WriterLockRows(c) PROVE TypeOK'
  <2>1. input[c].source \in Sources \cup {NoSource}
    BY <1>7, InputAssumption DEF WriterLockRows, BodiesValid
  <2> QED BY <1>7, <2>1 DEF WriterLockRows, TakeEntry, Goto, TypeOK, Places
<1>8. ASSUME NEW c \in Calls, WriterCommit(c) PROVE TypeOK'
  <2>1. pc[c] \in Working
    BY <1>8 DEF WriterCommit, Working, Places
  <2>2. /\ entries' \subseteq [key : {"legacy", "runtime"} \X Inputs, by : Calls]
        /\ sums' \in [Sources -> [credit : Nat, refunded : Nat, debited : Nat]]
    <3>1. CASE Write(c, <<"runtime", input[c]>>)
      BY <3>1, <2>1, WriteType
    <3>2. CASE UNCHANGED <<entries, sums>>
      BY <3>2 DEF TypeOK
    <3> QED BY <1>8, <3>1, <3>2 DEF WriterCommit, runtime_writer_idempotency_key
  <2> QED BY <1>8, <2>2, EndTxType
          DEF WriterCommit, FailureAnswer, Answer, Goto, TypeOK, Places, Answers
<1>9. ASSUME NEW c \in Calls, WriteAudit(c) PROVE TypeOK'
  <2>1. [input |-> input[c], by |-> c] \in [input : Inputs, by : Calls]
    BY <1>9 DEF WriteAudit, BodiesValid
  <2> QED BY <1>9, <2>1 DEF WriteAudit, Answer, TypeOK, Places, Answers
<1>10. ASSUME NEW c \in Calls, Fail(c) PROVE TypeOK'
  BY <1>10, EndTxType, BoundAssumption DEF Fail, FailureAnswer, Answer, TypeOK, Places, Answers
<1>13. ASSUME NEW c \in Calls, LoseAck(c) PROVE TypeOK'
  <2>1. input[c] \in Inputs /\ pc[c] \in Working
    BY <1>13 DEF LoseAck, BodiesValid, Working, Places
  <2>2. /\ entries' \subseteq [key : {"legacy", "runtime"} \X Inputs, by : Calls]
        /\ sums' \in [Sources -> [credit : Nat, refunded : Nat, debited : Nat]]
    <3>1. ASSUME NEW w \in {"legacy", "runtime"}, Write(c, <<w, input[c]>>)
          PROVE  /\ entries' \subseteq [key : {"legacy", "runtime"} \X Inputs, by : Calls]
                 /\ sums' \in [Sources -> [credit : Nat, refunded : Nat, debited : Nat]]
      BY <3>1, <2>1, WriteType
    <3>2. CASE UNCHANGED <<entries, sums>>
      BY <3>2 DEF TypeOK
    <3> QED BY <1>13, <3>1, <3>2
            DEF LoseAck, ledger_adjustment_execute_dedupe_key, runtime_writer_idempotency_key
  <2>3. audits' \subseteq [input : Inputs, by : Calls]
    <3>1. [input |-> input[c], by |-> c] \in [input : Inputs, by : Calls]
      BY <2>1
    <3> QED BY <1>13, <3>1 DEF LoseAck, TypeOK
  <2>4. /\ pc' \in [Calls -> Places] /\ answer' \in [Calls -> Answers]
        /\ faults' \in 0..MaxFaults
    BY <1>13, BoundAssumption DEF LoseAck, FailureAnswer, Answer, TypeOK, Places, Answers
  <2> QED BY <1>13, <2>2, <2>3, <2>4, EndTxType DEF LoseAck, TypeOK
<1>11. CASE SwitchWriter
  BY <1>11, BoundAssumption DEF SwitchWriter, TypeOK
<1>12. CASE UNCHANGED vars
  BY <1>12 DEF vars, TypeOK
<1> QED BY <1>1, <1>2, <1>3, <1>4, <1>5, <1>6, <1>7, <1>8, <1>9, <1>10, <1>11, <1>12, <1>13
        DEF Next, Handler

\* Bodies stay validated, and locks and checks outlive the steps of others:
\* whatever changes the sums is done by the holder of the wallet lock.
LEMMA AdjustLockStep ==
  ASSUME Inv, [Next]_vars
  PROVE  (BodiesValid /\ WalletHeld /\ CheckHolds)'
<1> USE DEF Inv
<1>1. BodiesValid'
  <2> USE DEF BodiesValid, TypeOK, Working, Places
  <2>1. ASSUME NEW c \in Calls, NEW i \in Inputs, Begin(c, i) PROVE BodiesValid'
    BY <2>1 DEF Begin, Goto, Answer, Valid
  <2>2. ASSUME UNCHANGED input,
               \A c \in Calls : pc'[c] = pc[c] \/ (pc[c] \in Working /\ pc'[c] \in Places)
        PROVE  BodiesValid'
    BY <2>2 DEF Valid
  <2>3. ASSUME NEW c \in Calls,
               Fail(c) \/ LoseAck(c) \/ DeadlockAbort(c) \/ (Handler(c) /\ ~\E i \in Inputs : Begin(c, i))
        PROVE  BodiesValid'
    BY <2>2, <2>3
       DEF Handler, Waits, LockWallet, Replay, RefuseOverRemaining, CheckLegacy, CommitLegacy,
           PlanRuntime, WriterLockWallet, WriterLockRows, WriterCommit, WriteAudit,
           DeadlockAbort, Fail, LoseAck, Goto, Answer
  <2>4. CASE SwitchWriter \/ UNCHANGED vars
    BY <2>2, <2>4 DEF SwitchWriter, vars
  <2> QED BY <2>1, <2>3, <2>4 DEF Next
<1>2. WalletHeld'
  <2> USE DEF WalletHeld, TypeOK, EndTx, FreeWallet, TakeWallet, Goto, Answer
  <2>1. ASSUME NEW c \in Calls, NEW i \in Inputs, Begin(c, i) PROVE WalletHeld'
    BY <2>1 DEF Begin
  <2>2. ASSUME NEW c \in Calls, LockWallet(c) \/ WriterLockWallet(c) PROVE WalletHeld'
    BY <2>2, CallAssumption DEF LockWallet, WriterLockWallet
  <2>3. ASSUME NEW c \in Calls, CheckLegacy(c) \/ WriterLockRows(c) \/ WriteAudit(c)
        PROVE  WalletHeld'
    BY <2>3 DEF CheckLegacy, WriterLockRows, WriteAudit
  <2>4. ASSUME NEW c \in Calls, EndTx(c), pc' = [pc EXCEPT ![c] = pc'[c]],
               pc'[c] \in {"done", "planned", "audit"}
        PROVE  WalletHeld'
    BY <2>4
  <2>5. ASSUME NEW c \in Calls, Replay(c) \/ RefuseOverRemaining(c) \/ CommitLegacy(c)
                                 \/ DeadlockAbort(c) \/ Fail(c) \/ LoseAck(c)
        PROVE  WalletHeld'
    BY <2>4, <2>5 DEF Replay, RefuseOverRemaining, CommitLegacy, DeadlockAbort, Fail, LoseAck
  <2>6. ASSUME NEW c \in Calls, PlanRuntime(c) \/ WriterCommit(c) PROVE WalletHeld'
    BY <2>4, <2>6 DEF PlanRuntime, WriterCommit
  <2>7. CASE SwitchWriter \/ UNCHANGED vars
    BY <2>7 DEF SwitchWriter, vars
  <2> QED BY <2>1, <2>2, <2>3, <2>5, <2>6, <2>7 DEF Next, Handler
<1>3. CheckHolds'
  <2> USE DEF CheckHolds, TypeOK, Goto, Answer, WithinRemaining
  <2>1. ASSUME NEW c \in Calls, CommitLegacy(c) \/ WriterCommit(c) \/ LoseAck(c)
        PROVE  CheckHolds'
    BY <2>1 DEF CommitLegacy, WriterCommit, LoseAck, WalletHeld
  <2>2. ASSUME NEW c \in Calls, CheckLegacy(c) PROVE CheckHolds'
    BY <2>2 DEF CheckLegacy
  <2>3. ASSUME NEW c \in Calls, NEW i \in Inputs, Begin(c, i) PROVE CheckHolds'
    BY <2>3 DEF Begin
  <2>4. ASSUME NEW c \in Calls, LockWallet(c) \/ Replay(c) \/ RefuseOverRemaining(c)
               \/ PlanRuntime(c) \/ WriterLockWallet(c) \/ WriterLockRows(c) \/ WriteAudit(c)
               \/ DeadlockAbort(c) \/ Fail(c)
        PROVE  CheckHolds'
    BY <2>4 DEF LockWallet, Replay, RefuseOverRemaining, PlanRuntime, WriterLockWallet,
                WriterLockRows, WriteAudit, DeadlockAbort, Fail
  <2>5. CASE SwitchWriter \/ UNCHANGED vars
    BY <2>5 DEF SwitchWriter, vars
  <2> QED BY <2>1, <2>2, <2>3, <2>4, <2>5 DEF Next, Handler
<1> QED BY <1>1, <1>2, <1>3

\* The inductive invariant holds in every reachable state.
LEMMA AdjustInvariant == Spec => []Inv
<1>1. Inv /\ [Next]_vars => Inv'
  BY AdjustTypeStep, AdjustLockStep DEF Inv
<1> QED BY AdjustInit, <1>1, PTL DEF Spec

\* Bodies, plans, locks, ledger rows and sums keep their types; in particular
\* no sum of confirmed credits, refunds or debits becomes negative.
THEOREM AdjustTypeCorrect == Spec => []TypeOK
<1>1. Inv => TypeOK
  BY DEF Inv
<1> QED BY AdjustInvariant, <1>1, PTL

\* Only three steps write ledger rows.
LEMMA ChangedBy ==
  ASSUME [Next]_vars, entries' # entries
  PROVE  \E d \in Calls : CommitLegacy(d) \/ WriterCommit(d) \/ LoseAck(d)
BY DEF Next, Handler, vars, Begin, LockWallet, Replay, RefuseOverRemaining, CheckLegacy,
       PlanRuntime, WriterLockWallet, WriterLockRows, WriteAudit, DeadlockAbort, Fail,
       SwitchWriter

\* A refund that the legacy writer commits is within what its source has left,
\* for any number of concurrent refunds and adjustments of that source.
THEOREM LegacyRefundsWithin == Spec => LegacyRefundWithin
<1> DEFINE Within == \A c \in Calls :
             pc[c] = "checked" /\ entries' # entries /\ pc'[c] = "done" /\ input[c].op = "refund" =>
               sums'[input[c].source].credit <= Debit[input[c].source]
<1>1. Inv /\ [Next]_vars => [Within]_vars
  <2> SUFFICES ASSUME Inv, [Next]_vars, NEW c \in Calls, pc[c] = "checked", entries' # entries,
                      pc'[c] = "done", input[c].op = "refund"
               PROVE  sums'[input[c].source].credit <= Debit[input[c].source]
    OBVIOUS
  <2> DEFINE i == input[c]
             s == i.source
  <2>1. i \in Inputs /\ Valid(i) /\ i.amount <= Debit[s] - sums[s].credit
    BY DEF Inv, BodiesValid, CheckHolds, WithinRemaining, Working, Places
  <2>2. s \in Sources /\ i.amount \in Int /\ i.amount > 0
    BY <2>1, InputAssumption DEF Valid
  <2>3. sums'[s].credit = sums[s].credit + i.amount
    <3>1. PICK d \in Calls : CommitLegacy(d) \/ WriterCommit(d) \/ LoseAck(d)
      BY ChangedBy
    <3>2. d = c
      BY <3>1 DEF CommitLegacy, WriterCommit, LoseAck, Answer, Goto, Inv, TypeOK
    <3> QED BY <2>2, <3>1, <3>2 DEF CommitLegacy, WriterCommit, LoseAck, Write, Booked
  <2>4. sums[s].credit \in Int /\ Debit[s] \in Int
    BY <2>2, SourceAssumption DEF Inv, TypeOK
  <2> QED BY <2>1, <2>2, <2>3, <2>4
<1> QED BY AdjustInvariant, <1>1, PTL DEF Spec, LegacyRefundWithin

\* Ledger rows are never taken back.
LEMMA EntriesGrow == ASSUME [Next]_vars PROVE entries \subseteq entries'
BY DEF Next, Handler, vars, Begin, LockWallet, Replay, RefuseOverRemaining, CheckLegacy,
       CommitLegacy, PlanRuntime, WriterLockWallet, WriterLockRows, WriterCommit, WriteAudit,
       DeadlockAbort, Fail, LoseAck, SwitchWriter, Write

\* A write leaves a row of the call with its body.
LEMMA WriteLeaves ==
  ASSUME NEW c \in Calls, NEW w, Write(c, <<w, input[c]>>)
  PROVE  \E e \in entries' : e.key[2] = input[c] /\ e.by = c
<1> DEFINE row == [key |-> <<w, input[c]>>, by |-> c]
<1>1. row \in entries'
  BY DEF Write
<1>2. row.key = <<w, input[c]>> /\ row.by = c
  OBVIOUS
<1> QED BY <1>1, <1>2

\* How far a call has come says what it has written.
LEMMA ProgressStep ==
  ASSUME Inv, Progress, [Next]_vars
  PROVE  Progress'
<1> USE DEF Inv, TypeOK, Progress, Places, Written
<1> entries \subseteq entries'
  BY EntriesGrow
<1>1. ASSUME NEW c \in Calls, NEW i \in Inputs, Begin(c, i) PROVE Progress'
  BY <1>1 DEF Begin, Goto, Answer
<1>2. ASSUME NEW c \in Calls, LockWallet(c) \/ CheckLegacy(c) \/ WriterLockWallet(c)
                               \/ WriterLockRows(c)
      PROVE  Progress'
  BY <1>2 DEF LockWallet, CheckLegacy, WriterLockWallet, WriterLockRows, Goto
<1>3. ASSUME NEW c \in Calls, Replay(c) \/ RefuseOverRemaining(c) \/ DeadlockAbort(c) \/ Fail(c)
                               \/ WriteAudit(c)
      PROVE  Progress'
  BY <1>3 DEF Replay, RefuseOverRemaining, DeadlockAbort, Fail, WriteAudit, Answer
<1>4. ASSUME NEW c \in Calls, PlanRuntime(c) PROVE Progress'
  <2>1. plan_consistent_ledger_write(input[c]) = "idempotent" =>
          Written(runtime_writer_idempotency_key(input[c]))
    BY DEF plan_consistent_ledger_write
  <2> QED BY <1>4, <2>1 DEF PlanRuntime, Goto, Answer
<1>5. ASSUME NEW c \in Calls, CommitLegacy(c) \/ LoseAck(c) PROVE Progress'
  BY <1>5 DEF CommitLegacy, LoseAck, Answer, Write
<1>6. ASSUME NEW c \in Calls, WriterCommit(c) PROVE Progress'
  <2>1. pc'[c] = "audit" => \E e \in entries' : e.key[2] = input[c]
    <3>1. CASE Write(c, <<"runtime", input[c]>>)
      BY <3>1, WriteLeaves
    <3>2. CASE plan[c] # "apply"
      <4>1. pc[c] = "rows" /\ plan[c] = "idempotent"
        BY <1>6, <3>2 DEF WriterCommit
      <4>2. PICK e \in entries : e.key = <<"runtime", input[c]>>
        BY <4>1 DEF runtime_writer_idempotency_key
      <4> QED BY <4>2
    <3>3. CASE pc'[c] = "done"
      BY <3>3
    <3> QED BY <1>6, <3>1, <3>2, <3>3 DEF WriterCommit, Answer, runtime_writer_idempotency_key
  <2>2. \A e \in entries' \ entries : e.by = c
    BY <1>6 DEF WriterCommit, Write
  <2> QED BY <1>6, <2>1, <2>2 DEF WriterCommit, Goto, Answer
<1>7. CASE SwitchWriter \/ UNCHANGED vars
  BY <1>7 DEF SwitchWriter, vars
<1> QED BY <1>1, <1>2, <1>3, <1>4, <1>5, <1>6, <1>7 DEF Next, Handler

\* Until the first switch one writer books everything, only valid bodies are
\* booked, and whom the legacy writer refused sent a body that is not valid or
\* asks for more than its source has left.
Exhausted(i) == i.source \in Sources /\ ~WithinRemaining(i)

OneWriter ==
  toggles = 0 =>
    /\ \A e \in entries : e.key[1] = cutover /\ Valid(e.key[2])
    /\ \A c \in Calls : /\ pc[c] = "checked" => cutover = "legacy"
                        /\ pc[c] \in {"planned", "wallet", "rows"} => cutover = "runtime"
                        /\ answer[c] = "refused" /\ cutover = "legacy" =>
                             ~Valid(input[c]) \/ Exhausted(input[c])

\* Confirmed credits are only added to, so what is used up stays used up.
LEMMA ExhaustedStays ==
  ASSUME Inv, [Next]_vars, NEW i \in Inputs, Exhausted(i)
  PROVE  Exhausted(i)'
<1> DEFINE s == i.source
<1>1. s \in Sources /\ i.op = "refund" /\ i.amount \in Int /\ Debit[s] \in Int
  BY InputAssumption, SourceAssumption DEF Exhausted, WithinRemaining
<1>2. sums[s].credit \in Nat
  BY <1>1 DEF Inv, TypeOK
<1>3. sums'[s].credit \in Int /\ sums'[s].credit >= sums[s].credit
  <2>1. CASE UNCHANGED sums
    BY <2>1, <1>2
  <2>2. ASSUME NEW d \in Calls, pc[d] \in Working, NEW k, Write(d, k)
        PROVE  sums'[s].credit \in Int /\ sums'[s].credit >= sums[s].credit
    <3>1. input[d].amount \in Int
      BY <2>2, InputAssumption DEF Inv, BodiesValid, Working
    <3> QED BY <2>2, <3>1, <1>1, <1>2 DEF Write, Booked
  <2>3. UNCHANGED sums \/ \E d \in Calls : CommitLegacy(d) \/ WriterCommit(d) \/ LoseAck(d)
    BY DEF Next, Handler, vars, Begin, LockWallet, Replay, RefuseOverRemaining, CheckLegacy,
       PlanRuntime, WriterLockWallet, WriterLockRows, WriteAudit, DeadlockAbort, Fail,
       SwitchWriter
  <2>4. ASSUME NEW d \in Calls, CommitLegacy(d) \/ WriterCommit(d) \/ LoseAck(d)
        PROVE  UNCHANGED sums \/ (pc[d] \in Working /\ \E k : Write(d, k))
    BY <2>4 DEF CommitLegacy, WriterCommit, LoseAck, Working, Places
  <2> QED BY <2>1, <2>2, <2>3, <2>4
<1> QED BY <1>1, <1>2, <1>3 DEF Exhausted, WithinRemaining

\* A write under a fresh key of the selected writer, by a call whose body is
\* valid and, for the legacy writer, within what is left.
LEMMA OneWrite ==
  ASSUME Inv, OneWriter, RepeatsAgree, [Next]_vars, toggles = 0, UNCHANGED <<input, cutover>>,
         NEW d \in Calls, input[d] \in Inputs, Valid(input[d]),
         ~Written(<<cutover, input[d]>>), Write(d, <<cutover, input[d]>>),
         cutover = "legacy" => WithinRemaining(input[d]),
         \A c \in Calls : answer'[c] = "refused" => answer[c] = "refused"
  PROVE  /\ \A e, f \in entries' : e.key[2] = f.key[2] => e = f
         /\ \A e \in entries' : e.key[1] = cutover /\ Valid(e.key[2])
         /\ \A c \in Calls : answer'[c] = "refused" => ~AlreadyWritten(input[c])'
<1> DEFINE k == <<cutover, input[d]>>
           row == [key |-> k, by |-> d]
<1>1. entries' = entries \cup {row}
  BY DEF Write
<1>2. row.key = k /\ k[1] = cutover /\ k[2] = input[d]
  OBVIOUS
<1>3. \A e \in entries : e.key = <<e.key[1], e.key[2]>> /\ e.key[1] = cutover /\ Valid(e.key[2])
  BY DEF Inv, TypeOK, OneWriter
<1>4. \A e \in entries : e.key[2] # input[d]
  BY <1>3 DEF Written
<1>5. \A e, f \in entries : e.key[2] = f.key[2] => e = f
  BY DEF RepeatsAgree
<1> HIDE DEF row, k
<1>6. \A e, f \in entries' : e.key[2] = f.key[2] => e = f
  BY <1>1, <1>2, <1>4, <1>5
<1>7. \A e \in entries' : e.key[1] = cutover /\ Valid(e.key[2])
  BY <1>1, <1>2, <1>3
<1>8. ASSUME NEW c \in Calls, answer'[c] = "refused" PROVE ~AlreadyWritten(input[c])'
  <2>1. answer[c] = "refused" /\ ~AlreadyWritten(input[c])
    BY <1>8 DEF RepeatsAgree
  <2>2. SUFFICES ASSUME AlreadyWritten(input[c])' PROVE FALSE
    OBVIOUS
  <2>3. PICK e \in entries' : e.key = <<"legacy", input[c]>>
    BY <2>2 DEF AlreadyWritten, Written, ledger_adjustment_execute_dedupe_key
  <2>4. e.key[1] = "legacy" /\ e.key[2] = input[c]
    BY <2>3
  <2>5. e = row
    BY <1>1, <2>1, <2>3 DEF AlreadyWritten, Written, ledger_adjustment_execute_dedupe_key
  <2>6. cutover = "legacy" /\ input[c] = input[d]
    BY <1>2, <2>4, <2>5
  <2> QED BY <2>1, <2>6 DEF OneWriter, Exhausted
<1> QED BY <1>6, <1>7, <1>8

\* Every step keeps copies of one request in agreement.
LEMMA RepeatStep ==
  ASSUME Inv, Progress, OneWriter, RepeatsAgree, [Next]_vars
  PROVE  (OneWriter /\ RepeatsAgree)'
<1>1. CASE UNCHANGED vars
  BY <1>1 DEF vars, OneWriter, RepeatsAgree, Exhausted, WithinRemaining, Valid, AlreadyWritten, Written
<1>2. CASE SwitchWriter
  BY <1>2 DEF SwitchWriter, OneWriter, RepeatsAgree, Inv, TypeOK
<1>3. ASSUME NEW d \in Calls, Handler(d) \/ Fail(d) \/ LoseAck(d)
      PROVE  (OneWriter /\ RepeatsAgree)'
  <2>1. UNCHANGED <<toggles, cutover>>
    BY <1>3 DEF Handler, Begin, LockWallet, Replay, RefuseOverRemaining, CheckLegacy,
       CommitLegacy, PlanRuntime, WriterLockWallet, WriterLockRows, WriterCommit, WriteAudit,
       DeadlockAbort, Fail, LoseAck
  <2> SUFFICES ASSUME toggles = 0 PROVE (OneWriter /\ RepeatsAgree)'
    BY <2>1 DEF OneWriter, RepeatsAgree
  <2>2. \A c \in Calls : c # d => pc'[c] = pc[c] /\ answer'[c] = answer[c] /\ input'[c] = input[c]
    BY <1>3 DEF Handler, Begin, LockWallet, Replay, RefuseOverRemaining, CheckLegacy,
       CommitLegacy, PlanRuntime, WriterLockWallet, WriterLockRows, WriterCommit, WriteAudit,
       DeadlockAbort, Fail, LoseAck, Goto, Answer, Inv, TypeOK
  <2>3. /\ pc'[d] = "checked" => cutover = "legacy"
        /\ pc'[d] \in {"planned", "wallet", "rows"} => cutover = "runtime"
    BY <1>3 DEF Handler, Begin, LockWallet, Replay, RefuseOverRemaining, CheckLegacy,
       CommitLegacy, PlanRuntime, WriterLockWallet, WriterLockRows, WriterCommit, WriteAudit,
       DeadlockAbort, Fail, LoseAck, Goto, Answer, Inv, TypeOK, OneWriter
  <2>4. \A c \in Calls : answer[c] = "refused" /\ input'[c] = input[c] /\ cutover = "legacy" =>
                           (~Valid(input[c]) \/ Exhausted(input[c]))'
    <3> SUFFICES ASSUME NEW c \in Calls, answer[c] = "refused", input'[c] = input[c],
                        cutover = "legacy"
                 PROVE  ~Valid(input'[c]) \/ Exhausted(input[c])'
      BY DEF Valid
    <3>1. ~Valid(input[c]) \/ Exhausted(input[c])
      BY DEF OneWriter
    <3>2. input[c] \in Inputs
      BY DEF Progress, Inv, BodiesValid
    <3> QED BY <3>1, <3>2, ExhaustedStays DEF Exhausted, WithinRemaining
  <2>5. CASE answer'[d] = "refused" /\ answer[d] # "refused"
    <3>1. \/ \E i \in Inputs : Begin(d, i) /\ ~Valid(i)
          \/ RefuseOverRemaining(d) \/ PlanRuntime(d)
      <4>1. FailureAnswer(d) # "refused"
        BY DEF FailureAnswer
      <4> QED BY <1>3, <2>5, <4>1 DEF Handler, Begin, LockWallet, Replay, RefuseOverRemaining,
             CheckLegacy, CommitLegacy, WriterLockWallet, WriterLockRows, WriterCommit,
             WriteAudit, DeadlockAbort, Fail, LoseAck, Goto, Answer, Inv, TypeOK
    <3>2. UNCHANGED entries
      BY <3>1 DEF Begin, RefuseOverRemaining, PlanRuntime
    <3>3. (cutover = "legacy" => ~Valid(input'[d]) \/ Exhausted(input[d])') /\ ~AlreadyWritten(input[d])'
      <4>1. ASSUME NEW i \in Inputs, Begin(d, i), ~Valid(i)
            PROVE  ~Valid(input'[d]) /\ ~AlreadyWritten(input[d])'
        <5>1. input'[d] = i
          BY <4>1 DEF Begin, Inv, TypeOK
        <5>2. \A e \in entries : e.key[2] # i
          BY <4>1 DEF OneWriter
        <5> QED BY <3>2, <4>1, <5>1, <5>2 DEF AlreadyWritten, Written, ledger_adjustment_execute_dedupe_key
      <4>2. ASSUME RefuseOverRemaining(d) PROVE Exhausted(input[d])' /\ ~AlreadyWritten(input[d])'
        <5>1. UNCHANGED <<input, sums>> /\ ~AlreadyWritten(input[d]) /\ ~WithinRemaining(input[d])
          BY <4>2 DEF RefuseOverRemaining
        <5>2. input[d] \in Inputs /\ Valid(input[d])
          BY <4>2 DEF RefuseOverRemaining, Inv, BodiesValid, Working, Places
        <5>3. Exhausted(input[d])
          BY <5>1, <5>2, InputAssumption DEF Exhausted, WithinRemaining, Valid
        <5> QED BY <3>2, <5>1, <5>3 DEF Exhausted, WithinRemaining, AlreadyWritten, Written
      <4>3. ASSUME PlanRuntime(d) PROVE cutover = "runtime" /\ ~AlreadyWritten(input[d])'
        BY <3>2, <4>3 DEF PlanRuntime, AlreadyWritten, Written
      <4> QED BY <3>1, <4>1, <4>2, <4>3
    <3> QED BY <2>1, <2>2, <2>3, <2>4, <3>2, <3>3
            DEF OneWriter, RepeatsAgree, AlreadyWritten, Written, Valid
  <2>6. CASE ~(answer'[d] = "refused" /\ answer[d] # "refused")
    <3>1. \A c \in Calls : answer'[c] = "refused" => answer[c] = "refused"
      BY <2>2, <2>6
    <3>2. \A c \in Calls : answer[c] = "refused" => input'[c] = input[c]
      <4>1. answer[d] = "refused" => pc[d] = "done"
        BY DEF Progress
      <4> QED BY <1>3, <2>2, <4>1 DEF Handler, Begin, LockWallet, Replay, RefuseOverRemaining,
             CheckLegacy, CommitLegacy, PlanRuntime, WriterLockWallet, WriterLockRows,
             WriterCommit, WriteAudit, DeadlockAbort, Fail, LoseAck
    <3>3. CASE UNCHANGED entries
      BY <2>1, <2>2, <2>3, <2>4, <3>1, <3>2, <3>3
         DEF OneWriter, RepeatsAgree, AlreadyWritten, Written, Valid
    <3>4. CASE entries' # entries
      <4>1. PICK x \in Calls : CommitLegacy(x) \/ WriterCommit(x) \/ LoseAck(x)
        BY <3>4, ChangedBy
      <4>2. /\ pc[x] \in {"checked", "rows"} /\ UNCHANGED input
            /\ Write(x, <<cutover, input[x]>>) /\ ~Written(<<cutover, input[x]>>)
            /\ cutover = "legacy" => pc[x] = "checked"
        BY <3>4, <4>1 DEF CommitLegacy, WriterCommit, LoseAck, OneWriter, AlreadyWritten,
           ledger_adjustment_execute_dedupe_key, runtime_writer_idempotency_key
      <4>3. /\ input[x] \in Inputs /\ Valid(input[x])
            /\ cutover = "legacy" => WithinRemaining(input[x])
        BY <4>2 DEF Inv, BodiesValid, CheckHolds, Working, Places
      <4>4. /\ \A e, f \in entries' : e.key[2] = f.key[2] => e = f
            /\ \A e \in entries' : e.key[1] = cutover /\ Valid(e.key[2])
            /\ \A c \in Calls : answer'[c] = "refused" => ~AlreadyWritten(input[c])'
        BY <2>1, <3>1, <4>2, <4>3, OneWrite
      <4> QED BY <2>1, <2>2, <2>3, <2>4, <3>1, <3>2, <4>4 DEF OneWriter, RepeatsAgree, Valid
    <3> QED BY <3>3, <3>4
  <2> QED BY <2>5, <2>6
<1> QED BY <1>1, <1>2, <1>3 DEF Next

\* An answer is given when the ledger and the audit log agree with it, and
\* what was answered before stays true.
LEMMA AnswerStep ==
  ASSUME Inv, Progress, AnswerMatchesLedger, [Next]_vars
  PROVE  AnswerMatchesLedger'
<1> USE DEF Inv, TypeOK, Progress, AnswerMatchesLedger, Places, Answers
<1> entries \subseteq entries'
  BY EntriesGrow
<1>1. ASSUME NEW c \in Calls, NEW i \in Inputs, Begin(c, i) PROVE AnswerMatchesLedger'
  BY <1>1 DEF Begin, Goto, Answer
<1>2. ASSUME NEW c \in Calls, LockWallet(c) \/ CheckLegacy(c) \/ WriterLockWallet(c)
                               \/ WriterLockRows(c)
      PROVE  AnswerMatchesLedger'
  BY <1>2 DEF LockWallet, CheckLegacy, WriterLockWallet, WriterLockRows, Goto
<1>3. ASSUME NEW c \in Calls, Replay(c) \/ RefuseOverRemaining(c) \/ DeadlockAbort(c) \/ Fail(c)
      PROVE  AnswerMatchesLedger'
  BY <1>3 DEF Replay, AlreadyWritten, Written, RefuseOverRemaining, DeadlockAbort, Fail,
               FailureAnswer, Answer
<1>4. ASSUME NEW c \in Calls, PlanRuntime(c) PROVE AnswerMatchesLedger'
  BY <1>4 DEF PlanRuntime, Goto, Answer
<1>5. ASSUME NEW c \in Calls, CommitLegacy(c) PROVE AnswerMatchesLedger'
  <2>1. \E e \in entries' : e.key[2] = input[c] /\ e.by = c
    BY <1>5, WriteLeaves DEF CommitLegacy, ledger_adjustment_execute_dedupe_key
  <2>2. \A e \in entries' \ entries : e.by = c
    BY <1>5 DEF CommitLegacy, Write
  <2> QED BY <1>5, <2>1, <2>2 DEF CommitLegacy, Answer
<1>6. ASSUME NEW c \in Calls, WriterCommit(c) PROVE AnswerMatchesLedger'
  <2>1. \A e \in entries' \ entries : e.by = c
    BY <1>6 DEF WriterCommit, Write
  <2> QED BY <1>6, <2>1 DEF WriterCommit, FailureAnswer, Goto, Answer
<1>9. ASSUME NEW c \in Calls, LoseAck(c) PROVE AnswerMatchesLedger'
  <2>1. \A e \in entries' \ entries : e.by = c
    BY <1>9 DEF LoseAck, Write
  <2>2. \A a \in audits' \ audits : a.input = input[c]
    BY <1>9 DEF LoseAck
  <2>3. audits' # audits => \E e \in entries' : e.key[2] = input[c]
    BY <1>9, WriteLeaves DEF LoseAck, ledger_adjustment_execute_dedupe_key
  <2>4. answer' = [answer EXCEPT ![c] = FailureAnswer(c)] /\ FailureAnswer(c) \in {"not_committed", "error"}
    BY <1>9 DEF LoseAck, FailureAnswer, Answer
  <2>5. UNCHANGED input /\ audits \subseteq audits'
    BY <1>9 DEF LoseAck
  <2> QED BY <2>1, <2>2, <2>3, <2>4, <2>5
<1>7. ASSUME NEW c \in Calls, WriteAudit(c) PROVE AnswerMatchesLedger'
  BY <1>7 DEF WriteAudit, Answer
<1>8. CASE SwitchWriter \/ UNCHANGED vars
  BY <1>8 DEF SwitchWriter, vars
<1> QED BY <1>1, <1>2, <1>3, <1>4, <1>5, <1>6, <1>7, <1>8, <1>9 DEF Next, Handler

\* What every caller was told is what the ledger and the audit log hold, for
\* both writers, with crashes between their transactions and retries of them.
THEOREM AnswersMatchLedger == Spec => []AnswerMatchesLedger
<1> DEFINE Told == Progress /\ AnswerMatchesLedger
<1>1. Inv /\ Told /\ [Next]_vars => Told'
  BY ProgressStep, AnswerStep
<1>2. Init => Told
  BY AdjustInit
<1> QED BY AdjustInvariant, <1>1, <1>2, PTL DEF Spec

\* Copies of one request agree, for any number of copies, bodies, sources and
\* failures, as long as the operator leaves the writer as it is.
THEOREM RepeatedRequestsAgree == Spec => []RepeatsAgree
<1>1. Inv /\ Progress /\ [Next]_vars => Progress'
  BY ProgressStep
<1>2. Inv /\ Progress /\ OneWriter /\ RepeatsAgree /\ [Next]_vars => (OneWriter /\ RepeatsAgree)'
  BY RepeatStep
<1>3. Init => OneWriter
  BY DEF Init, OneWriter
<1> QED BY AdjustInit, AdjustInvariant, <1>1, <1>2, <1>3, PTL DEF Spec
=============================================================================
