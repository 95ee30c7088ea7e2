-------------------- MODULE SubscriptionSchedulerProofs --------------------
(***************************************************************************)
(* Theorems about SubscriptionScheduler for any number of subscriptions,   *)
(* plans, workers, administrators, requests and failures.                  *)
(***************************************************************************)
EXTENDS SubscriptionScheduler, TLAPS, FiniteSetTheorems, SequenceTheorems

\* A transaction holds the row lock of its subscription, and what it has read
\* of its event is what the table says.
LocksHeld ==
  \A a \in Actors : pc[a] = "locked" => /\ locked[SubOf(at[a])] = a
                                        /\ seen[a] = events[at[a]].status

Inv == TypeOK /\ LocksHeld /\ IsFiniteSet(DOMAIN events)

\* How a transaction may change the row of its event: it closes it, and only
\* an applied event has new effects.
After(r, q) ==
  /\ q \in EventRow
  /\ \/ /\ q.status \in {"applied", "refused", "replayed"}
        /\ q.grants = r.grants /\ q.entry = r.entry
        /\ q.order = r.order \/ q.status = "applied"
     \/ q.status = "applied" /\ q.grants = r.grants + 1 /\ q.entry = 1

\* The rows before and after a step of the holder of event k.
Rewrites(k) ==
  /\ Claimable(events[k].status) /\ After(events[k], events'[k])
  /\ \A j \in DOMAIN events : j # k => events'[j] = events[j]

\* What a step may insert.
OnlyInserts ==
  /\ DOMAIN events \subseteq DOMAIN events'
  /\ \A j \in DOMAIN events' \ DOMAIN events :
       j \in Keys /\ \E n \in Nat : events'[j] = Scheduled(n)

\* A subscription's key has its parts.
LEMMA KeyParts ==
  ASSUME NEW k \in Keys
  PROVE  /\ SubOf(k) \in Subs /\ TypeOf(k) \in Types /\ TargetOf(k) \in Plans \cup {NoPlan}
         /\ k[3] \in {"at", "now", "retry"} \X Nat
BY DEF Keys, SubOf, TypeOf, TargetOf

\* Events are inserted as scheduled rows, and none that is there is touched.
LEMMA InsertRows ==
  ASSUME TypeOK, NEW k \in Keys, NEW n \in Nat
  PROVE  /\ DOMAIN Insert(k, n) = DOMAIN events \cup {k}
         /\ \A j \in DOMAIN events : Insert(k, n)[j] = events[j]
         /\ k \notin DOMAIN events => Insert(k, n)[k] = Scheduled(n)
BY DEF Insert

\* Closing an event changes the status of its row only.
LEMMA ClosedRow ==
  ASSUME TypeOK, NEW k \in DOMAIN events, Claimable(events[k].status),
         NEW st \in {"applied", "refused", "replayed"}
  PROVE  /\ DOMAIN Closed(k, st) = DOMAIN events
         /\ \A j \in DOMAIN events : j # k => Closed(k, st)[j] = events[j]
         /\ Closed(k, st)[k] = [events[k] EXCEPT !.status = st]
         /\ Closed(k, st)[k] \in EventRow
         /\ Closed(k, st)[k].status = st /\ Closed(k, st)[k].grants = events[k].grants
         /\ Closed(k, st)[k].entry = events[k].entry /\ Closed(k, st)[k].order = events[k].order
         /\ Closed(k, st)[k].at = events[k].at
<1>1. events[k] \in EventRow
  BY DEF TypeOK
<1>2. /\ DOMAIN Closed(k, st) = DOMAIN events
      /\ \A j \in DOMAIN events : j # k => Closed(k, st)[j] = events[j]
      /\ Closed(k, st)[k] = [events[k] EXCEPT !.status = st]
  BY DEF Closed
<1> DEFINE r == events[k]
<1>3. \A q \in EventRow : /\ [q EXCEPT !.status = st] \in EventRow
                          /\ ([q EXCEPT !.status = st]).status = st
                          /\ ([q EXCEPT !.status = st]).grants = q.grants
                          /\ ([q EXCEPT !.status = st]).entry = q.entry
                          /\ ([q EXCEPT !.status = st]).order = q.order
                          /\ ([q EXCEPT !.status = st]).at = q.at
  BY DEF EventRow
<1> QED BY <1>1, <1>2, <1>3

\* What an open transaction knows: its event is there, in its type.
LEMMA AtEvent ==
  ASSUME Inv, NEW a \in Actors, pc[a] = "locked"
  PROVE  /\ at[a] \in DOMAIN events /\ at[a] \in Keys /\ events[at[a]] \in EventRow
         /\ SubOf(at[a]) \in Subs /\ TypeOf(at[a]) \in Types
         /\ TargetOf(at[a]) \in Plans \cup {NoPlan}
         /\ seen[a] = events[at[a]].status /\ locked[SubOf(at[a])] = a
         /\ subs[SubOf(at[a])].plan \in Plans /\ subs[SubOf(at[a])].end \in Nat
<1>1. at[a] \in DOMAIN events /\ at[a] \in Keys /\ events[at[a]] \in EventRow
  BY DEF Inv, TypeOK
<1>2. SubOf(at[a]) \in Subs /\ TypeOf(at[a]) \in Types /\ TargetOf(at[a]) \in Plans \cup {NoPlan}
  BY <1>1, KeyParts
<1> QED BY <1>1, <1>2 DEF Inv, TypeOK, LocksHeld

\* A row with new effects: a renewal's, a downgrade's.
Renewed(r, n, v) == [[[r EXCEPT !.grants = n] EXCEPT !.entry = v] EXCEPT !.order = 1]
Credited(r, n) == [[r EXCEPT !.grants = n] EXCEPT !.entry = 1]

\* They are rows and keep the status.
LEMMA Effects ==
  ASSUME NEW r \in EventRow, NEW n \in Nat, NEW v \in {0, 1}
  PROVE  /\ Renewed(r, n, v) \in EventRow /\ Renewed(r, n, v).status = r.status
         /\ Renewed(r, n, v).grants = n /\ Renewed(r, n, v).entry = v
         /\ Credited(r, n) \in EventRow /\ Credited(r, n).status = r.status
         /\ Credited(r, n).grants = n /\ Credited(r, n).entry = 1
BY DEF EventRow, Renewed, Credited

\* A renewal closes its event as applied, with at most one grant more.
LEMMA RenewRow ==
  ASSUME Inv, NEW a \in Actors, ApplyRenew(a)
  PROVE  Rewrites(at[a]) /\ DOMAIN events' = DOMAIN events
<1> DEFINE k == at[a]
           credit == IF Credit[subs[SubOf(k)].plan] > 0 THEN 1 ELSE 0
           c == Closed(k, "applied")
<1>1. pc[a] = "locked" /\ Claimable(seen[a])
  BY DEF ApplyRenew, Applying
<1>2. k \in DOMAIN events /\ events[k] \in EventRow /\ Claimable(events[k].status)
  BY <1>1, AtEvent
<1>3. TypeOK
  BY DEF Inv
<1>4. events' = [c EXCEPT ![k].grants = @ + credit,
                          ![k].entry = IF credit = 1 THEN 1 ELSE @, ![k].order = 1]
  BY DEF ApplyRenew
<1>5. /\ DOMAIN c = DOMAIN events /\ \A j \in DOMAIN events : j # k => c[j] = events[j]
      /\ c[k] \in EventRow /\ c[k].status = "applied"
      /\ c[k].grants = events[k].grants /\ c[k].entry = events[k].entry
  BY <1>2, <1>3, ClosedRow
<1>6. credit \in {0, 1}
  OBVIOUS
<1> HIDE DEF c, k, credit
<1> DEFINE e == IF credit = 1 THEN 1 ELSE c[k].entry
           n == c[k].grants + credit
<1>7. /\ DOMAIN events' = DOMAIN c /\ \A j \in DOMAIN c : j # k => events'[j] = c[j]
      /\ events'[k] = Renewed(c[k], n, e)
  BY <1>2, <1>4, <1>5 DEF Renewed
<1>8. c[k].grants \in Nat /\ n \in Nat /\ e \in {0, 1}
  BY <1>5, <1>6 DEF EventRow
<1> HIDE DEF e, n
<1>9. /\ Renewed(c[k], n, e) \in EventRow /\ Renewed(c[k], n, e).status = "applied"
      /\ Renewed(c[k], n, e).grants = n /\ Renewed(c[k], n, e).entry = e
  BY <1>5, <1>8, Effects
<1>10. /\ events'[k] \in EventRow /\ events'[k].status = "applied"
       /\ events'[k].grants = n /\ events'[k].entry = e
  BY <1>7, <1>9
<1>11. After(events[k], events'[k])
  BY <1>5, <1>6, <1>8, <1>10 DEF After, e, n
<1> QED BY <1>2, <1>5, <1>7, <1>11 DEF Rewrites, k

\* A proration closes its event as applied, with the credit of a downgrade or
\* the order of an upgrade.
LEMMA ProrateRow ==
  ASSUME Inv, NEW a \in Actors, ApplyProrate(a)
  PROVE  Rewrites(at[a]) /\ DOMAIN events' = DOMAIN events
<1> DEFINE k == at[a]
           c == Closed(k, "applied")
           Down(r) == Credited(r, r.grants + 1)
           Up(r) == [r EXCEPT !.order = 1]
<1>1. pc[a] = "locked" /\ Claimable(seen[a])
  BY DEF ApplyProrate, Applying
<1>2. k \in DOMAIN events /\ events[k] \in EventRow /\ Claimable(events[k].status)
  BY <1>1, AtEvent
<1>3. TypeOK
  BY DEF Inv
<1>4. \/ events' = c
      \/ events' = [c EXCEPT ![k].grants = @ + 1, ![k].entry = 1]
      \/ events' = [c EXCEPT ![k].order = 1]
  BY DEF ApplyProrate, negative_proration_credit, ensure_invoice_order_linkage
<1>5. /\ DOMAIN c = DOMAIN events /\ \A j \in DOMAIN events : j # k => c[j] = events[j]
      /\ c[k] \in EventRow /\ c[k].status = "applied"
      /\ c[k].grants = events[k].grants /\ c[k].entry = events[k].entry
      /\ c[k].order = events[k].order
  BY <1>2, <1>3, ClosedRow
<1> HIDE DEF c, k
<1>6. /\ DOMAIN events' = DOMAIN c /\ \A j \in DOMAIN c : j # k => events'[j] = c[j]
      /\ events'[k] \in {c[k], Down(c[k]), Up(c[k])}
  BY <1>2, <1>4, <1>5 DEF Credited
<1>7. /\ Down(c[k]) \in EventRow /\ Down(c[k]).status = "applied"
      /\ Down(c[k]).grants = c[k].grants + 1 /\ Down(c[k]).entry = 1
  <2>1. c[k].grants + 1 \in Nat
    BY <1>5 DEF EventRow
  <2> QED BY <1>5, <2>1, Effects
<1>9. /\ Up(c[k]) \in EventRow /\ Up(c[k]).status = "applied"
      /\ Up(c[k]).grants = c[k].grants /\ Up(c[k]).entry = c[k].entry
  BY <1>5 DEF EventRow
<1> HIDE DEF Down, Up
<1>8. After(events[k], events'[k])
  BY <1>5, <1>6, <1>7, <1>9 DEF After
<1> QED BY <1>2, <1>5, <1>6, <1>8 DEF Rewrites, k

\* The number of applied dunning events is a number.
LEMMA AppliedDunningType ==
  ASSUME Inv, NEW s, NEW k
  PROVE  /\ IsFiniteSet(AppliedDunning(s)) /\ Cardinality(AppliedDunning(s)) \in Nat
         /\ Cardinality(AppliedDunning(s) \ {k}) \in Nat
<1>1. IsFiniteSet(AppliedDunning(s)) /\ IsFiniteSet(AppliedDunning(s) \ {k})
  BY FS_Subset DEF Inv, AppliedDunning
<1> QED BY <1>1, FS_CardinalityType

\* The number of a retry: the applied ones but this one, and this one.
Attempt(k) ==
  Cardinality(AppliedDunning(SubOf(k)) \ {k}) + (IF TypeOf(k) = "dunning" THEN 1 ELSE 0)

\* A retry's key is a key.
LEMMA RetryKeyType ==
  ASSUME Inv, NEW k, SubOf(k) \in Subs
  PROVE  /\ Attempt(k) \in Nat
         /\ RetryKey(SubOf(k), Attempt(k) + 1) \in Keys
         /\ SubOf(RetryKey(SubOf(k), Attempt(k) + 1)) = SubOf(k)
         /\ TypeOf(RetryKey(SubOf(k), Attempt(k) + 1)) = "dunning"
<1>1. Cardinality(AppliedDunning(SubOf(k)) \ {k}) \in Nat
  BY AppliedDunningType
<1>2. Attempt(k) \in Nat /\ Attempt(k) + 1 \in Nat
  BY <1>1 DEF Attempt
<1>3. <<"retry", Attempt(k) + 1>> \in {"at", "now", "retry"} \X Nat
  BY <1>2
<1> QED BY <1>2, <1>3 DEF RetryKey, Key, Keys, Types, SubOf, TypeOf

\* A failed payment closes its event and may insert the next retry.
LEMMA FailureRow ==
  ASSUME Inv, NEW a \in Actors, ApplyFailure(a)
  PROVE  Rewrites(at[a]) /\ OnlyInserts /\ IsFiniteSet(DOMAIN events') /\ events'[at[a]].status = "applied"
<1> DEFINE k == at[a]
           s == SubOf(k)
           next == Insert(RetryKey(s, Attempt(k) + 1), now + RetryAfter)
<1>1. pc[a] = "locked" /\ Claimable(seen[a])
  BY DEF ApplyFailure, Applying
<1>2. k \in DOMAIN events /\ k \in Keys /\ events[k] \in EventRow /\ Claimable(events[k].status)
      /\ s \in Subs
  BY <1>1, AtEvent
<1>3. TypeOK /\ IsFiniteSet(DOMAIN events)
  BY DEF Inv
<1>4. CASE events' = Closed(k, "applied")
  <2>1. /\ DOMAIN events' = DOMAIN events
        /\ \A j \in DOMAIN events : j # k => events'[j] = events[j]
        /\ events'[k] \in EventRow /\ events'[k].status = "applied"
        /\ events'[k].grants = events[k].grants /\ events'[k].entry = events[k].entry
    BY <1>2, <1>3, <1>4, ClosedRow
  <2> QED BY <1>2, <1>3, <2>1 DEF Rewrites, After, OnlyInserts
<1>5. CASE events' = [next EXCEPT ![k].status = "applied"]
  <2>1. RetryKey(s, Attempt(k) + 1) \in Keys
    BY <1>2, RetryKeyType
  <2>2. now + RetryAfter \in Nat
    BY <1>3, NumberAssumption DEF TypeOK
  <2> DEFINE new == RetryKey(s, Attempt(k) + 1)
  <2>3. /\ DOMAIN next = DOMAIN events \cup {new}
        /\ \A j \in DOMAIN events : next[j] = events[j]
        /\ new \notin DOMAIN events => next[new] = Scheduled(now + RetryAfter)
    BY <1>3, <2>1, <2>2, InsertRows
  <2> HIDE DEF next, new
  <2>4. /\ DOMAIN events' = DOMAIN events \cup {new}
        /\ \A j \in DOMAIN events : j # k => events'[j] = events[j]
        /\ new \notin DOMAIN events => events'[new] = Scheduled(now + RetryAfter)
        /\ events'[k] = [events[k] EXCEPT !.status = "applied"]
    BY <1>2, <1>5, <2>3
  <2>5. After(events[k], events'[k]) /\ events'[k].status = "applied"
    BY <1>2, <2>4 DEF After, EventRow
  <2>6. IsFiniteSet(DOMAIN events')
    BY <1>3, <2>4, FS_AddElement
  <2>7. OnlyInserts
    BY <2>1, <2>2, <2>4 DEF OnlyInserts, new
  <2> QED BY <1>2, <2>4, <2>5, <2>6, <2>7 DEF Rewrites
<1> QED BY <1>2, <1>4, <1>5 DEF ApplyFailure, Attempt

\* The transactions that write.
Writing(a) == CloseEvent(a) \/ ApplyRenew(a) \/ ApplyFailure(a) \/ ApplyExpire(a) \/ ApplyProrate(a)

\* A transaction changes the row of its own event, which nobody has closed
\* before, and no other row that is there.
LEMMA WritingRow ==
  ASSUME Inv, NEW a \in Actors, Writing(a)
  PROVE  pc[a] = "locked" /\ Rewrites(at[a]) /\ OnlyInserts /\ IsFiniteSet(DOMAIN events')
<1>1. pc[a] = "locked" /\ Claimable(seen[a])
  BY DEF Writing, CloseEvent, ApplyRenew, ApplyFailure, ApplyExpire, ApplyProrate, Applying
<1>2. at[a] \in DOMAIN events /\ events[at[a]] \in EventRow /\ Claimable(events[at[a]].status)
  BY <1>1, AtEvent
<1>3. TypeOK /\ IsFiniteSet(DOMAIN events)
  BY DEF Inv
<1>4. CASE CloseEvent(a) \/ ApplyExpire(a)
  <2>1. PICK st \in {"applied", "refused", "replayed"} : events' = Closed(at[a], st)
    BY <1>4 DEF CloseEvent, ApplyExpire
  <2> DEFINE k == at[a]
             c == Closed(k, st)
  <2>2. /\ DOMAIN c = DOMAIN events
        /\ \A j \in DOMAIN events : j # k => c[j] = events[j]
        /\ c[k] \in EventRow /\ c[k].status = st
        /\ c[k].grants = events[k].grants /\ c[k].entry = events[k].entry
        /\ c[k].order = events[k].order
    BY <1>2, <1>3, ClosedRow
  <2>3. events' = c
    BY <2>1
  <2> HIDE DEF c
  <2>4. After(events[k], c[k])
    BY <2>2 DEF After
  <2> QED BY <1>1, <1>2, <1>3, <2>2, <2>3, <2>4 DEF Rewrites, OnlyInserts
<1>5. CASE ApplyRenew(a)
  BY <1>1, <1>3, <1>5, RenewRow DEF OnlyInserts
<1>6. CASE ApplyProrate(a)
  BY <1>1, <1>3, <1>6, ProrateRow DEF OnlyInserts
<1>7. CASE ApplyFailure(a)
  BY <1>1, <1>7, FailureRow
<1> QED BY <1>4, <1>5, <1>6, <1>7 DEF Writing

\* A plan request inserts the event it has in hand.
LEMMA InsertEventRow ==
  ASSUME Inv, NEW o \in Actors, InsertEvent(o)
  PROVE  /\ OnlyInserts /\ \A j \in DOMAIN events : events'[j] = events[j]
         /\ IsFiniteSet(DOMAIN events')
<1> DEFINE k == Head(todo[o])
           n == IF k[3][1] = "now" THEN now ELSE k[3][2]
<1>1. todo[o] \in Seq(Keys) /\ todo[o] # <<>>
  BY DEF Inv, TypeOK, InsertEvent
<1>2. k \in Keys
  BY <1>1
<1>3. n \in Nat
  BY <1>2, KeyParts, NumberAssumption DEF Inv, TypeOK
<1>4. events' = Insert(k, n) /\ TypeOK /\ IsFiniteSet(DOMAIN events)
  BY DEF InsertEvent, Inv
<1> HIDE DEF k, n
<1>5. /\ DOMAIN events' = DOMAIN events \cup {k}
      /\ \A j \in DOMAIN events : events'[j] = events[j]
      /\ k \notin DOMAIN events => events'[k] = Scheduled(n)
  BY <1>2, <1>3, <1>4, InsertRows
<1>6. IsFiniteSet(DOMAIN events')
  BY <1>4, <1>5, FS_AddElement
<1> QED BY <1>2, <1>3, <1>5, <1>6 DEF OnlyInserts

\* Every step, as far as the events are concerned.
LEMMA EventStep ==
  ASSUME Inv, [Next]_vars
  PROVE  /\ OnlyInserts /\ IsFiniteSet(DOMAIN events')
         /\ \A k \in DOMAIN events :
              \/ events'[k] = events[k]
              \/ Claimable(events[k].status) /\ After(events[k], events'[k])
<1>1. ASSUME NEW a \in Actors, Writing(a)
      PROVE  /\ OnlyInserts /\ IsFiniteSet(DOMAIN events')
             /\ \A k \in DOMAIN events :
                  \/ events'[k] = events[k]
                  \/ Claimable(events[k].status) /\ After(events[k], events'[k])
  BY <1>1, WritingRow DEF Rewrites
<1>2. ASSUME NEW o \in Operators, InsertEvent(o)
      PROVE  /\ OnlyInserts /\ IsFiniteSet(DOMAIN events')
             /\ \A k \in DOMAIN events : events'[k] = events[k]
  BY <1>2, InsertEventRow DEF Actors
<1>3. ASSUME UNCHANGED events
      PROVE  /\ OnlyInserts /\ IsFiniteSet(DOMAIN events')
             /\ \A k \in DOMAIN events : events'[k] = events[k]
  BY <1>3 DEF OnlyInserts, Inv
<1>4. \/ \E a \in Actors : Writing(a)
      \/ \E o \in Operators : InsertEvent(o)
      \/ UNCHANGED events
  BY DEF Next, Transaction, Writing, PlanRequest, ExecutePlan, OperatorRunDue, RunDue, ListDue, LockEvent, SkipEvent,
         FailRenew, Fail, Tick, vars
<1> QED BY <1>1, <1>2, <1>3, <1>4

\* The parts of the type invariant that speak of requests and locks.
RequestsTyped ==
  /\ pc \in [Actors -> {"idle", "plan", "run", "locked"}]
  /\ todo \in [Actors -> Seq(Keys)]
  /\ \A a \in Actors : (pc[a] = "plan") <=> (todo[a] # <<>>)
  /\ list \in [Actors -> SUBSET Keys]
  /\ \A a \in Actors : list[a] \subseteq DOMAIN events
  /\ at \in [Actors -> Keys \cup {NoEvent}]
  /\ \A a \in Actors : pc[a] = "locked" => at[a] \in list[a]
  /\ seen \in [Actors -> {"none", "scheduled", "applied", "refused", "replayed"}]
  /\ locked \in [Subs -> Actors \cup {NoActor}]

\* The end of a transaction leaves requests and locks in their types.
LEMMA EndTxTyped ==
  ASSUME Inv, [Next]_vars, NEW a \in Actors, pc[a] = "locked",
         NEW rest \in SUBSET list[a], EndTx(a, rest)
  PROVE  RequestsTyped'
<1>1. DOMAIN events \subseteq DOMAIN events'
  BY EventStep DEF OnlyInserts
<1>2. SubOf(at[a]) \in Subs
  BY AtEvent
<1> QED BY <1>1, <1>2 DEF Inv, TypeOK, RequestsTyped, EndTx

\* Plan requests make sequences of event types.
LEMMA PlannedTypes ==
  ASSUME NEW row, NEW action, NEW target
  PROVE  subscription_scheduler_planned_event_types(row, action, target) \in Seq(Types)
<1>1. /\ <<>> \in Seq(Types) /\ <<"renew">> \in Seq(Types) /\ <<"payment_failed">> \in Seq(Types)
      /\ <<"prorate">> \in Seq(Types) /\ <<"dunning", "expire">> \in Seq(Types)
  BY DEF Types
<1> QED BY <1>1 DEF subscription_scheduler_planned_event_types

\* Keys that are not those of retries.
Plannables == {k \in Keys : k[3][1] # "retry"}

\* The keys a plan request makes.
LEMMA PlannedKeys ==
  ASSUME Inv, NEW r \in Requests
  PROVE  LET row == subs[r.sub]
             types == subscription_scheduler_planned_event_types(row, r.action, r.target)
         IN [i \in 1..Len(types) |-> Key(r.sub, types[i], Tag(types[i], row.end), r.target)]
              \in Seq(Plannables)
<1> DEFINE row == subs[r.sub]
           types == subscription_scheduler_planned_event_types(row, r.action, r.target)
<1>1. r.sub \in Subs /\ r.target \in Plans \cup {NoPlan}
  BY RequestAssumption
<1>2. row.end \in Nat
  BY <1>1 DEF Inv, TypeOK
<1>3. types \in Seq(Types)
  BY PlannedTypes
<1> HIDE DEF types, row
<1>4. ASSUME NEW i \in 1..Len(types)
      PROVE  Key(r.sub, types[i], Tag(types[i], row.end), r.target) \in Plannables
  <2>1. types[i] \in Types
    BY <1>3
  <2>2. row.end + DunningAfter \in Nat /\ row.end + ExpireAfter \in Nat
    BY <1>2, NumberAssumption
  <2>3. Tag(types[i], row.end) \in {"at", "now"} \X Nat
    BY <1>2, <2>2 DEF Tag
  <2>4. Key(r.sub, types[i], Tag(types[i], row.end), r.target) \in Keys
    BY <1>1, <2>1, <2>3 DEF Key, Keys
  <2> QED BY <2>3, <2>4 DEF Plannables, Key
<1>5. Len(types) \in Nat
  BY <1>3
<1>6. [i \in 1..Len(types) |-> Key(r.sub, types[i], Tag(types[i], row.end), r.target)] \in Seq(Plannables)
  BY <1>4, <1>5
<1> QED BY <1>6 DEF types, row

\* Every step keeps requests and locks in their types.
LEMMA RequestsTypedStep ==
  ASSUME Inv, [Next]_vars
  PROVE  RequestsTyped'
<1>0. DOMAIN events \subseteq DOMAIN events' /\ DOMAIN events' \subseteq Keys
  BY EventStep DEF OnlyInserts, Inv, TypeOK
<1> USE DEF Inv, TypeOK, Actors
<1>1. ASSUME NEW o \in Operators, NEW r \in Requests, PlanRequest(o, r) PROVE RequestsTyped'
  <2> DEFINE types == subscription_scheduler_planned_event_types(subs[r.sub], r.action, r.target)
             new == [i \in 1..Len(types) |->
                       Key(r.sub, types[i], Tag(types[i], subs[r.sub].end), r.target)]
  <2> HIDE DEF Inv
  <2>1. new \in Seq(Keys)
    <3>1. new \in Seq(Plannables)
      BY PlannedKeys
    <3> HIDE DEF new
    <3> QED BY <3>1 DEF Plannables
  <2>2. types # <<>> /\ todo' = [todo EXCEPT ![o] = new] /\ pc' = [pc EXCEPT ![o] = "plan"]
        /\ UNCHANGED <<list, at, seen, locked>>
    BY <1>1 DEF PlanRequest
  <2>3. new # <<>>
    <3>1. types \in Seq(Types)
      BY PlannedTypes
    <3>2. Len(types) \in Nat /\ Len(types) # 0
      BY <2>2, <3>1
    <3> HIDE DEF types
    <3>3. 1 \in DOMAIN new
      BY <3>2
    <3> QED BY <3>3
  <2> HIDE DEF new
  <2> QED BY <1>0, <2>1, <2>2, <2>3 DEF RequestsTyped, Inv
<1>2. ASSUME NEW o \in Operators, InsertEvent(o) PROVE RequestsTyped'
  <2>1. todo[o] \in Seq(Keys) /\ todo[o] # <<>>
    BY <1>2 DEF InsertEvent
  <2>2. Tail(todo[o]) \in Seq(Keys) /\ (Tail(todo[o]) = <<>> <=> Len(todo[o]) = 1)
    <3>1. /\ Len(todo[o]) \in Nat /\ Tail(todo[o]) \in Seq(Keys)
          /\ Len(Tail(todo[o])) = Len(todo[o]) - 1
      BY <2>1, HeadTailProperties, LenProperties
    <3>2. Tail(todo[o]) = <<>> <=> Len(Tail(todo[o])) = 0
      BY <3>1, EmptySeq
    <3> QED BY <3>1, <3>2
  <2> QED BY <1>0, <1>2, <2>2 DEF InsertEvent, RequestsTyped
<1>2a. ASSUME NEW a \in Actors, NEW f, ListDue(a, f) PROVE RequestsTyped'
  <2>1. Due(f) \subseteq DOMAIN events
    BY DEF Due
  <2> QED BY <1>0, <1>2a, <2>1 DEF ListDue, RequestsTyped
<1>2b. ASSUME NEW o \in Operators, NEW f \in Filters, NEW m \in Modes, OperatorRunDue(o, f, m)
       PROVE  RequestsTyped'
  BY <1>2a, <1>2b DEF OperatorRunDue, Actors
<1>3. ASSUME NEW w \in Workers, RunDue(w) PROVE RequestsTyped'
  BY <1>3, <1>2a DEF RunDue, Actors
<1>4. ASSUME NEW o \in Operators, NEW k \in DOMAIN events, NEW m \in Modes, ExecutePlan(o, k, m)
      PROVE  RequestsTyped'
  BY <1>0, <1>4 DEF ExecutePlan, RequestsTyped
<1>5. ASSUME NEW a \in Actors, LockEvent(a) PROVE RequestsTyped'
  <2>1. PICK k \in list[a] : /\ locked' = [locked EXCEPT ![SubOf(k)] = a]
                             /\ at' = [at EXCEPT ![a] = k]
                             /\ seen' = [seen EXCEPT ![a] = events[k].status]
    BY <1>5 DEF LockEvent
  <2>2. k \in Keys /\ SubOf(k) \in Subs /\ events[k] \in EventRow
    BY <2>1, KeyParts
  <2>3. events[k].status \in {"scheduled", "applied", "refused", "replayed"}
    BY <2>2 DEF EventRow
  <2>4. pc[a] = "run" /\ pc' = [pc EXCEPT ![a] = "locked"] /\ UNCHANGED <<events, todo, list>>
    BY <1>5 DEF LockEvent
  <2> QED BY <2>1, <2>2, <2>3, <2>4 DEF RequestsTyped
<1>6. ASSUME NEW a \in Actors, SkipEvent(a) \/ FailRenew(a) \/ Writing(a) PROVE RequestsTyped'
  <2> HIDE DEF Inv, TypeOK, Actors
  <2>1. pc[a] = "locked" /\ \E rest \in SUBSET list[a] : EndTx(a, rest)
    BY <1>6 DEF SkipEvent, FailRenew, Writing, CloseEvent, ApplyRenew, ApplyFailure, ApplyExpire,
                ApplyProrate, Applying, Rest
  <2> QED BY <2>1, EndTxTyped
<1>7. ASSUME NEW a \in Actors, Fail(a) PROVE RequestsTyped'
  <2>1. CASE pc[a] = "locked"
    <3> HIDE DEF Inv, TypeOK, Actors
    <3>1. {} \in SUBSET list[a] /\ EndTx(a, {})
      BY <1>7, <2>1 DEF Fail
    <3> QED BY <2>1, <3>1, EndTxTyped
  <2>2. CASE pc[a] # "locked"
    <3>1. <<>> \in Seq(Keys)
      BY EmptySeq
    <3> QED BY <1>0, <1>7, <2>2, <3>1 DEF Fail, RequestsTyped
  <2> QED BY <2>1, <2>2
<1>8. CASE Tick \/ UNCHANGED vars
  BY <1>8 DEF Tick, vars, actorVars, RequestsTyped
<1> QED BY <1>1, <1>2, <1>3, <1>4, <1>5, <1>6, <1>7, <1>8, <1>2b DEF Next, Transaction, Writing

SubRow == [status : Statuses, end : Nat, plan : Plans]

\* Every step keeps the subscriptions in their type.
LEMMA SubsTypedStep ==
  ASSUME Inv, [Next]_vars
  PROVE  subs' \in [Subs -> SubRow]
<1>0. subs \in [Subs -> SubRow]
  BY DEF Inv, TypeOK, SubRow
<1>1. ASSUME NEW a \in Actors, ApplyRenew(a) PROVE subs' \in [Subs -> SubRow]
  <2> DEFINE s == SubOf(at[a])
  <2>1. s \in Subs /\ subs[s].end + Period \in Nat
    BY <1>1, AtEvent, NumberAssumption DEF ApplyRenew, Applying
  <2>2. [[subs[s] EXCEPT !.status = "renewed"] EXCEPT !.end = subs[s].end + Period] \in SubRow
    BY <1>0, <2>1 DEF Statuses, SubRow
  <2>3. \/ subs' = subs
        \/ subs' = [subs EXCEPT ![s] =
             [[subs[s] EXCEPT !.status = "renewed"] EXCEPT !.end = subs[s].end + Period]]
    BY <1>0, <1>1, <2>1 DEF ApplyRenew, SubRow
  <2> HIDE DEF s
  <2> QED BY <1>0, <2>1, <2>2, <2>3
<1>2. ASSUME NEW a \in Actors, ApplyFailure(a) \/ ApplyExpire(a) PROVE subs' \in [Subs -> SubRow]
  <2> DEFINE s == SubOf(at[a])
  <2>1. s \in Subs
    BY <1>2, AtEvent DEF ApplyFailure, ApplyExpire, Applying
  <2>2. PICK st \in {"expired", "payment_failed"} : subs' = [subs EXCEPT ![s].status = st]
    BY <1>2 DEF ApplyFailure, ApplyExpire
  <2>3. [subs[s] EXCEPT !.status = st] \in SubRow
    BY <1>0, <2>1, <2>2 DEF Statuses, SubRow
  <2> HIDE DEF s
  <2> QED BY <1>0, <2>1, <2>2, <2>3
<1>3. ASSUME NEW a \in Actors, ApplyProrate(a) PROVE subs' \in [Subs -> SubRow]
  <2> DEFINE s == SubOf(at[a])
             p == TargetOf(at[a])
             st == IF subs[s].status \in {"created", "trialing"} THEN subs[s].status ELSE "active"
  <2>1. s \in Subs /\ p \in Plans \cup {NoPlan}
    BY <1>3, AtEvent DEF ApplyProrate, Applying
  <2>2. \/ subs' = subs
        \/ p \in Plans /\ subs' = [subs EXCEPT ![s] =
                                     [[subs[s] EXCEPT !.plan = p] EXCEPT !.status = st]]
    BY <1>0, <1>3, <2>1 DEF ApplyProrate, SubRow
  <2>3. st \in Statuses
    BY <1>0, <2>1 DEF Statuses, SubRow
  <2>4. p \in Plans => [[subs[s] EXCEPT !.plan = p] EXCEPT !.status = st] \in SubRow
    <3> HIDE DEF st
    <3> QED BY <1>0, <2>1, <2>3 DEF SubRow
  <2> HIDE DEF s, p, st
  <2> QED BY <1>0, <2>1, <2>2, <2>4
<1>4. CASE UNCHANGED subs
  BY <1>0, <1>4
<1> QED BY <1>1, <1>2, <1>3, <1>4
    DEF Next, Transaction, PlanRequest, InsertEvent, ExecutePlan, OperatorRunDue, RunDue, ListDue, LockEvent, SkipEvent,
        CloseEvent, FailRenew, Fail, Tick, vars

\* Clock, modes and counters stay in their types.
LEMMA CountersTypedStep ==
  ASSUME Inv, [Next]_vars
  PROVE  /\ now' \in 0..MaxTime /\ mode' \in [Actors -> {"apply", "refuse", "replay"}]
         /\ requests' \in 0..MaxRequests /\ faults' \in 0..MaxFaults
<1> USE DEF Inv, TypeOK
<1>1. ASSUME NEW o \in Operators, NEW r \in Requests, PlanRequest(o, r)
      PROVE  requests' \in 0..MaxRequests /\ UNCHANGED <<now, mode, faults>>
  BY <1>1, NumberAssumption DEF PlanRequest
<1>2. ASSUME NEW o \in Operators, NEW m \in Modes,
             \/ \E k \in DOMAIN events : ExecutePlan(o, k, m)
             \/ \E f \in Filters : OperatorRunDue(o, f, m)
      PROVE  /\ requests' \in 0..MaxRequests /\ UNCHANGED <<now, faults>>
             /\ mode' \in [Actors -> {"apply", "refuse", "replay"}]
  <2>1. o \in Actors /\ m \in {"apply", "refuse", "replay"}
    BY RequestAssumption DEF Actors
  <2>2. requests < MaxRequests /\ requests' = requests + 1 /\ UNCHANGED <<now, faults>>
    BY <1>2 DEF ExecutePlan, OperatorRunDue, ListDue
  <2>3. mode' = [mode EXCEPT ![o] = m]
    BY <1>2 DEF ExecutePlan, OperatorRunDue, ListDue
  <2>4. requests' \in 0..MaxRequests
    BY <2>2, NumberAssumption
  <2>5. mode' \in [Actors -> {"apply", "refuse", "replay"}]
    BY <2>1, <2>3
  <2> QED BY <2>2, <2>4, <2>5
<1>3. ASSUME NEW a \in Actors, Fail(a)
      PROVE  faults' \in 0..MaxFaults /\ UNCHANGED <<now, mode, requests>>
  BY <1>3, NumberAssumption DEF Fail
<1>4. ASSUME Tick PROVE now' \in 0..MaxTime /\ UNCHANGED <<mode, requests, faults>>
  BY <1>4, NumberAssumption DEF Tick, actorVars
<1>5. ASSUME NEW a \in Actors, Transaction(a) PROVE UNCHANGED <<now, mode, requests, faults>>
  <2> HIDE DEF Inv, TypeOK
  <2>1. CASE LockEvent(a) \/ SkipEvent(a) \/ CloseEvent(a) \/ FailRenew(a)
    BY <2>1 DEF LockEvent, SkipEvent, CloseEvent, FailRenew
  <2>2. CASE ApplyRenew(a) \/ ApplyFailure(a)
    BY <2>2 DEF ApplyRenew, ApplyFailure
  <2>3. CASE ApplyExpire(a) \/ ApplyProrate(a)
    BY <2>3 DEF ApplyExpire, ApplyProrate
  <2> QED BY <1>5, <2>1, <2>2, <2>3 DEF Transaction
<1>6. ASSUME NEW o, InsertEvent(o) \/ RunDue(o) PROVE UNCHANGED <<now, mode, requests, faults>>
  BY <1>6 DEF InsertEvent, RunDue, ListDue
<1>7. ASSUME UNCHANGED vars PROVE UNCHANGED <<now, mode, requests, faults>>
  BY <1>7 DEF vars
<1> QED BY <1>1, <1>2, <1>3, <1>4, <1>5, <1>6, <1>7 DEF Next

\* Every step keeps every variable in its type.
LEMMA SchedulerTypeStep ==
  ASSUME Inv, [Next]_vars
  PROVE  TypeOK'
<1>1. DOMAIN events' \subseteq Keys
  BY EventStep DEF OnlyInserts, Inv, TypeOK
<1>2. \A k \in DOMAIN events' : events'[k] \in EventRow
  <2>1. \A n \in Nat : Scheduled(n) \in EventRow
    BY DEF Scheduled, EventRow
  <2> QED BY <2>1, EventStep DEF OnlyInserts, After, Inv, TypeOK
<1> QED BY <1>1, <1>2, RequestsTypedStep, SubsTypedStep, CountersTypedStep
        DEF TypeOK, RequestsTyped, SubRow

\* Only one transaction at a time works on a subscription, so that what it has
\* read of its event stays true until it commits.
LEMMA LocksHeldStep ==
  ASSUME Inv, [Next]_vars
  PROVE  LocksHeld'
<1>1. ASSUME NEW a \in Actors, LockEvent(a) PROVE LocksHeld'
  <2>1. PICK k \in list[a] : /\ locked[SubOf(k)] = NoActor
                             /\ locked' = [locked EXCEPT ![SubOf(k)] = a]
                             /\ at' = [at EXCEPT ![a] = k]
                             /\ seen' = [seen EXCEPT ![a] = events[k].status]
    BY <1>1 DEF LockEvent, LockFree
  <2>2. pc' = [pc EXCEPT ![a] = "locked"] /\ UNCHANGED events
    BY <1>1 DEF LockEvent
  <2>3. SubOf(k) \in Subs
    BY <2>1, KeyParts DEF Inv, TypeOK
  <2>4. \A b \in Actors : b # a /\ pc[b] = "locked" => SubOf(at[b]) # SubOf(k)
    BY <2>1, ActorAssumption DEF Inv, LocksHeld
  <2> QED BY <2>1, <2>2, <2>3, <2>4 DEF Inv, TypeOK, LocksHeld
<1>2. ASSUME NEW a \in Actors, pc[a] = "locked", NEW rest, EndTx(a, rest),
             \A k \in DOMAIN events : k # at[a] => events'[k] = events[k]
      PROVE  LocksHeld'
  <2>1. ASSUME NEW b \in Actors, pc'[b] = "locked"
        PROVE  locked'[SubOf(at'[b])] = b /\ seen'[b] = events'[at'[b]].status
    <3>1. b # a /\ pc[b] = "locked" /\ at'[b] = at[b] /\ seen'[b] = seen[b]
      BY <1>2, <2>1 DEF EndTx, Inv, TypeOK
    <3>2. SubOf(at[b]) # SubOf(at[a])
      BY <1>2, <3>1 DEF Inv, LocksHeld
    <3>3. at[b] \in DOMAIN events /\ SubOf(at[b]) \in Subs /\ locked[SubOf(at[b])] = b
          /\ seen[b] = events[at[b]].status
      BY <3>1, AtEvent
    <3>4. locked'[SubOf(at[b])] = b
      BY <1>2, <3>2, <3>3 DEF EndTx, Inv, TypeOK
    <3>5. events'[at[b]] = events[at[b]]
      BY <1>2, <3>2, <3>3
    <3> QED BY <3>1, <3>3, <3>4, <3>5
  <2> QED BY <2>1 DEF LocksHeld
<1>3. ASSUME NEW a \in Actors, Writing(a) PROVE LocksHeld'
  <2>1. pc[a] = "locked" /\ \A k \in DOMAIN events : k # at[a] => events'[k] = events[k]
    BY <1>3, WritingRow DEF Rewrites
  <2>2. \E rest : EndTx(a, rest)
    BY <1>3 DEF Writing, CloseEvent, ApplyRenew, ApplyFailure, ApplyExpire, ApplyProrate
  <2> QED BY <1>2, <2>1, <2>2
<1>4. ASSUME NEW a \in Actors, SkipEvent(a) \/ FailRenew(a) \/ (Fail(a) /\ pc[a] = "locked")
      PROVE  LocksHeld'
  <2>1. pc[a] = "locked" /\ UNCHANGED events
    BY <1>4 DEF SkipEvent, FailRenew, Applying, Fail
  <2>2. \E rest : EndTx(a, rest)
    BY <1>4 DEF SkipEvent, FailRenew, Fail
  <2> QED BY <1>2, <2>1, <2>2
<1>5. ASSUME UNCHANGED <<at, seen, locked>>,
             \A b \in Actors : pc'[b] = "locked" => pc[b] = "locked",
             \A k \in DOMAIN events : events'[k] = events[k]
      PROVE  LocksHeld'
  BY <1>5, AtEvent DEF LocksHeld
<1>6. ASSUME NEW a \in Actors, Fail(a), pc[a] # "locked" PROVE LocksHeld'
  BY <1>5, <1>6 DEF Fail, Inv, TypeOK
<1>7. ASSUME NEW o \in Operators, InsertEvent(o) PROVE LocksHeld'
  <2>1. \A k \in DOMAIN events : events'[k] = events[k]
    BY <1>7, InsertEventRow DEF Actors
  <2>2. UNCHANGED <<at, seen, locked>>
    BY <1>7 DEF InsertEvent
  <2>3. \A b \in Actors : pc'[b] = "locked" => pc[b] = "locked"
    BY <1>7 DEF InsertEvent, Inv, TypeOK
  <2> QED BY <1>5, <2>1, <2>2, <2>3
<1>8. ASSUME NEW o \in Operators, NEW r \in Requests, PlanRequest(o, r) PROVE LocksHeld'
  BY <1>5, <1>8 DEF PlanRequest, Inv, TypeOK
<1>9. ASSUME NEW w \in Workers, RunDue(w) PROVE LocksHeld'
  BY <1>5, <1>9 DEF RunDue, ListDue, Inv, TypeOK
<1>9a. ASSUME NEW o \in Operators, NEW f \in Filters, NEW m \in Modes, OperatorRunDue(o, f, m)
       PROVE  LocksHeld'
  BY <1>5, <1>9a DEF OperatorRunDue, ListDue, Inv, TypeOK
<1>10. ASSUME NEW o \in Operators, NEW k \in DOMAIN events, NEW m \in Modes, ExecutePlan(o, k, m)
       PROVE  LocksHeld'
  BY <1>5, <1>10 DEF ExecutePlan, Inv, TypeOK
<1>11. CASE Tick \/ UNCHANGED vars
  BY <1>5, <1>11 DEF Tick, vars, actorVars
<1> QED BY <1>1, <1>3, <1>4, <1>6, <1>7, <1>8, <1>9, <1>10, <1>11, <1>9a
        DEF Next, Transaction, Writing

\* The first state.
LEMMA SchedulerInit == Init => Inv
<1> SUFFICES ASSUME Init PROVE Inv
  OBVIOUS
<1>1. DOMAIN events = {} /\ IsFiniteSet(DOMAIN events)
  BY FS_EmptySet DEF Init
<1>2. <<>> \in Seq(Keys)
  BY EmptySeq
<1>3. subs \in [Subs -> [status : Statuses, end : Nat, plan : Plans]]
  BY StartAssumption DEF Init, Plannable, Statuses
<1>4. TypeOK
  BY <1>1, <1>2, <1>3, NumberAssumption DEF Init, TypeOK
<1>5. LocksHeld
  BY DEF Init, LocksHeld
<1> QED BY <1>1, <1>4, <1>5 DEF Inv

\* The inductive invariant holds in every reachable state.
LEMMA SchedulerInvariant == Spec => []Inv
<1>1. Inv /\ [Next]_vars => Inv'
  BY SchedulerTypeStep, LocksHeldStep, EventStep DEF Inv
<1> QED BY SchedulerInit, <1>1, PTL DEF Spec

\* Subscriptions, events, requests and locks keep their types.
THEOREM SchedulerTypeCorrect == Spec => []TypeOK
<1>1. Inv => TypeOK
  BY DEF Inv
<1> QED BY SchedulerInvariant, <1>1, PTL

\* An event gives credit once, however many workers and administrators execute,
\* refuse or replay it at the same time and wherever transactions fail.
THEOREM CreditGivenOnce == Spec => []CreditOnce
<1>1. Inv /\ CreditOnce /\ [Next]_vars => CreditOnce'
  <2> SUFFICES ASSUME Inv, CreditOnce, [Next]_vars, NEW k \in DOMAIN events'
               PROVE  /\ events'[k].grants <= 1 /\ events'[k].entry = events'[k].grants
                      /\ events'[k].grants = 1 \/ events'[k].order = 1 =>
                           events'[k].status = "applied"
    BY DEF CreditOnce
  <2>1. CASE k \notin DOMAIN events
    <3>1. PICK n \in Nat : events'[k] = Scheduled(n)
      BY <2>1, EventStep DEF OnlyInserts
    <3> QED BY <3>1 DEF Scheduled
  <2>2. CASE k \in DOMAIN events /\ events'[k] = events[k]
    BY <2>2 DEF CreditOnce
  <2>3. CASE k \in DOMAIN events /\ Claimable(events[k].status) /\ After(events[k], events'[k])
    <3>1. events[k] \in EventRow /\ events'[k] \in EventRow
      BY <2>3 DEF Inv, TypeOK, After
    <3>2. events[k].grants = 0 /\ events[k].entry = 0 /\ events[k].order = 0
      BY <2>3, <3>1 DEF CreditOnce, Claimable, EventRow
    <3> QED BY <2>3, <3>2 DEF After
  <2> QED BY <2>1, <2>2, <2>3, EventStep
<1>2. Init => CreditOnce
  BY DEF Init, CreditOnce
<1> QED BY SchedulerInvariant, <1>1, <1>2, PTL DEF Spec

\* An applied or refused event is final, with all that it has written.
THEOREM ClosedEventsStay == Spec => ClosedStays
<1> DEFINE Kept == \A k \in DOMAIN events :
             events[k].status \in {"applied", "refused"} => events'[k] = events[k]
<1>1. Inv /\ [Next]_vars => [Kept]_vars
  BY EventStep DEF Claimable
<1> QED BY SchedulerInvariant, <1>1, PTL DEF Spec, ClosedStays

-----------------------------------------------------------------------------
(* The chain of retries *)

\* A plan request never has the key of a retry in hand.
PlannedOnly == \A a \in Actors : todo[a] \in Seq(Plannables)

\* The retry of number m is inserted when m - 1 dunning events are applied, and
\* once it is applied itself there are m.
RetryNumbers ==
  \A s \in Subs, m \in Nat : RetryKey(s, m) \in DOMAIN events =>
    /\ m <= Cardinality(AppliedDunning(s)) + 1
    /\ events[RetryKey(s, m)].status = "applied" => m <= Cardinality(AppliedDunning(s))

\* The inductive invariant behind RetryPending and AttemptsBounded.
RetryInv == PlannedOnly /\ RetryNumbers /\ RetryPending /\ AttemptsBounded

LEMMA PlannedOnlyStep ==
  ASSUME Inv, PlannedOnly, [Next]_vars
  PROVE  PlannedOnly'
<1> USE DEF PlannedOnly
<1>0. <<>> \in Seq(Plannables) /\ todo \in [Actors -> Seq(Keys)]
  BY DEF Inv, TypeOK
<1>1. ASSUME NEW o \in Operators, NEW r \in Requests, PlanRequest(o, r) PROVE PlannedOnly'
  <2> DEFINE types == subscription_scheduler_planned_event_types(subs[r.sub], r.action, r.target)
             new == [i \in 1..Len(types) |->
                       Key(r.sub, types[i], Tag(types[i], subs[r.sub].end), r.target)]
  <2>1. new \in Seq(Plannables)
    BY PlannedKeys
  <2>2. todo' = [todo EXCEPT ![o] = new]
    BY <1>1 DEF PlanRequest
  <2> HIDE DEF new
  <2> QED BY <1>0, <2>1, <2>2
<1>2. ASSUME NEW o \in Operators, InsertEvent(o) PROVE PlannedOnly'
  <2>1. todo[o] \in Seq(Plannables) /\ todo[o] # <<>> /\ todo' = [todo EXCEPT ![o] = Tail(@)]
    BY <1>2 DEF InsertEvent, Inv, TypeOK, Actors
  <2>2. Tail(todo[o]) \in Seq(Plannables)
    BY <2>1, HeadTailProperties
  <2> QED BY <1>0, <2>1, <2>2
<1>3. ASSUME NEW a \in Actors, Fail(a) PROVE PlannedOnly'
  BY <1>0, <1>3 DEF Fail, EndTx
<1>4. CASE UNCHANGED todo
  BY <1>4
<1> QED BY <1>1, <1>2, <1>3, <1>4
    DEF Next, Transaction, EndTx, OperatorRunDue, RunDue, ListDue, ExecutePlan, LockEvent, SkipEvent, CloseEvent, ApplyRenew,
        FailRenew, ApplyFailure, ApplyExpire, ApplyProrate, Tick, actorVars, vars

\* A step that is no failed payment applies no dunning event, inserts no retry
\* and puts no subscription into payment_failed.
LEMMA OtherStep ==
  ASSUME Inv, PlannedOnly, [Next]_vars, ~ \E a \in Actors : ApplyFailure(a)
  PROVE  /\ \A k \in DOMAIN events' : TypeOf(k) = "dunning" /\ events'[k].status = "applied" =>
              k \in DOMAIN events /\ events[k].status = "applied"
         /\ \A k \in DOMAIN events' \ DOMAIN events : k \in Plannables
         /\ \A s \in Subs : subs'[s].status = "payment_failed" => subs[s].status = "payment_failed"
<1> DEFINE NoneApplied == \A k \in DOMAIN events' :
             TypeOf(k) = "dunning" /\ events'[k].status = "applied" =>
               k \in DOMAIN events /\ events[k].status = "applied"
           NoRetry == \A k \in DOMAIN events' \ DOMAIN events : k \in Plannables
           NoneFailed == \A s \in Subs :
             subs'[s].status = "payment_failed" => subs[s].status = "payment_failed"
<1>0. subs \in [Subs -> SubRow]
  BY DEF Inv, TypeOK, SubRow
<1>1. ASSUME NEW a \in Actors, ApplyRenew(a) \/ ApplyProrate(a) \/ ApplyExpire(a)
      PROVE  NoneApplied /\ NoRetry
  <2>1. pc[a] = "locked" /\ TypeOf(at[a]) # "dunning" /\ Claimable(seen[a])
    BY <1>1 DEF ApplyRenew, ApplyProrate, ApplyExpire, Applying
  <2>2. at[a] \in DOMAIN events /\ events[at[a]] \in EventRow /\ Claimable(events[at[a]].status)
    BY <2>1, AtEvent
  <2>3. DOMAIN events' = DOMAIN events
    <3>1. CASE ApplyExpire(a)
      BY <2>2, <3>1, ClosedRow DEF ApplyExpire, Inv
    <3> QED BY <1>1, <3>1, RenewRow, ProrateRow
  <2>4. \A j \in DOMAIN events : j # at[a] => events'[j] = events[j]
    BY <1>1, WritingRow DEF Writing, Rewrites
  <2> QED BY <2>1, <2>3, <2>4
<1>2. ASSUME NEW a \in Actors, CloseEvent(a) PROVE NoneApplied /\ NoRetry
  <2>1. PICK st \in {"refused", "replayed"} : events' = Closed(at[a], st)
    BY <1>2 DEF CloseEvent
  <2>2. pc[a] = "locked" /\ Claimable(seen[a])
    BY <1>2 DEF CloseEvent
  <2>3. at[a] \in DOMAIN events /\ Claimable(events[at[a]].status)
    BY <2>2, AtEvent
  <2> DEFINE c == Closed(at[a], st)
  <2>4. /\ DOMAIN c = DOMAIN events
        /\ \A j \in DOMAIN events : j # at[a] => c[j] = events[j]
        /\ c[at[a]].status = st
    <3>1. st \in {"applied", "refused", "replayed"} /\ TypeOK
      BY DEF Inv
    <3> QED BY <2>3, <3>1, ClosedRow
  <2>5. events' = c
    BY <2>1
  <2> HIDE DEF c
  <2> QED BY <2>1, <2>4, <2>5
<1>3. ASSUME NEW o \in Operators, InsertEvent(o) PROVE NoneApplied /\ NoRetry
  <2> DEFINE k == Head(todo[o])
             n == IF k[3][1] = "now" THEN now ELSE k[3][2]
  <2>1. todo[o] \in Seq(Plannables) /\ todo[o] # <<>>
    BY <1>3 DEF PlannedOnly, InsertEvent, Inv, TypeOK, Actors
  <2>2. k \in Plannables /\ k \in Keys
    BY <2>1 DEF Plannables
  <2>3. n \in Nat
    BY <2>2, KeyParts, NumberAssumption DEF Inv, TypeOK
  <2>4. events' = Insert(k, n)
    BY <1>3 DEF InsertEvent
  <2> HIDE DEF k, n
  <2>5. /\ DOMAIN events' = DOMAIN events \cup {k}
        /\ \A j \in DOMAIN events : events'[j] = events[j]
        /\ k \notin DOMAIN events => events'[k] = Scheduled(n)
    BY <2>2, <2>3, <2>4, InsertRows DEF Inv
  <2> QED BY <2>2, <2>5 DEF Scheduled
<1>4. ASSUME UNCHANGED events PROVE NoneApplied /\ NoRetry
  BY <1>4
<1>5. NoneApplied /\ NoRetry
  <2>1. \/ \E a \in Actors : CloseEvent(a) \/ ApplyRenew(a) \/ ApplyExpire(a) \/ ApplyProrate(a)
        \/ \E o \in Operators : InsertEvent(o)
        \/ UNCHANGED events
    BY DEF Next, Transaction, PlanRequest, ExecutePlan, OperatorRunDue, RunDue, ListDue, LockEvent, SkipEvent,
           FailRenew, Fail, Tick, vars
  <2> HIDE DEF NoneApplied, NoRetry
  <2> QED BY <1>1, <1>2, <1>3, <1>4, <2>1
<1>6. ASSUME NEW a \in Actors, ApplyRenew(a) PROVE NoneFailed
  BY <1>0, <1>6 DEF ApplyRenew, SubRow
<1>7. ASSUME NEW a \in Actors, ApplyExpire(a) PROVE NoneFailed
  BY <1>0, <1>7 DEF ApplyExpire, SubRow
<1>8. ASSUME NEW a \in Actors, ApplyProrate(a) PROVE NoneFailed
  BY <1>0, <1>8 DEF ApplyProrate, SubRow
<1>9. NoneFailed
  <2>1. \/ \E a \in Actors : ApplyRenew(a) \/ ApplyExpire(a) \/ ApplyProrate(a)
        \/ UNCHANGED subs
    BY DEF Next, Transaction, PlanRequest, InsertEvent, ExecutePlan, OperatorRunDue, RunDue, ListDue, LockEvent, SkipEvent,
           CloseEvent, FailRenew, Fail, Tick, vars
  <2> QED BY <1>6, <1>7, <1>8, <2>1
<1> QED BY <1>5, <1>9

\* Such a step leaves the applied dunning events as they are.
LEMMA OtherStepCount ==
  ASSUME Inv, PlannedOnly, [Next]_vars, ~ \E a \in Actors : ApplyFailure(a), NEW s
  PROVE  AppliedDunning(s)' = AppliedDunning(s)
<1>1. \A k \in DOMAIN events : events[k].status = "applied" => events'[k] = events[k]
  BY EventStep DEF Claimable
<1>2. DOMAIN events \subseteq DOMAIN events'
  BY EventStep DEF OnlyInserts
<1> QED BY <1>1, <1>2, OtherStep DEF AppliedDunning

\* A failed payment counts its event and ends the subscription, or it inserts
\* the retry with the next number.
LEMMA FailureStep ==
  ASSUME Inv, NEW a \in Actors, ApplyFailure(a), NEW k, k = at[a], NEW s, s = SubOf(k)
  PROVE  /\ s \in Subs /\ k \in DOMAIN events /\ Attempt(k) \in Nat
         /\ events[k].status # "applied" /\ events'[k].status = "applied"
         /\ TypeOf(k) = "dunning" => Attempt(k) = Cardinality(AppliedDunning(s)) + 1
         /\ TypeOf(k) # "dunning" => Attempt(k) = Cardinality(AppliedDunning(s))
         /\ Attempt(k) = Cardinality(AppliedDunning(s)')
         /\ \A q \in Subs \ {s} : AppliedDunning(q)' = AppliedDunning(q) /\ subs'[q] = subs[q]
         /\ \/ /\ Attempt(k) >= MaxAttempts /\ subs'[s].status = "expired"
               /\ DOMAIN events' = DOMAIN events
            \/ /\ ~(Attempt(k) >= MaxAttempts)
               /\ DOMAIN events' = DOMAIN events \cup {RetryKey(s, Attempt(k) + 1)}
<1> DEFINE new == RetryKey(s, Attempt(k) + 1)
           D == AppliedDunning(s)
<1>1. pc[a] = "locked" /\ Claimable(seen[a])
  BY DEF ApplyFailure, Applying
<1>2. k \in DOMAIN events /\ Claimable(events[k].status) /\ s \in Subs
  BY <1>1, AtEvent
<1>3. /\ Rewrites(k) /\ OnlyInserts /\ events'[k].status = "applied"
  BY FailureRow
<1>4. events[k].status # "applied" /\ k \notin D
  BY <1>2 DEF Claimable, AppliedDunning
<1>5. Attempt(k) \in Nat
  BY <1>2, RetryKeyType
<1>6. IsFiniteSet(D) /\ Cardinality(D) \in Nat /\ D \ {k} = D
  BY <1>4, AppliedDunningType
<1>7. \A q : AppliedDunning(q)' =
               IF q = s /\ TypeOf(k) = "dunning" THEN AppliedDunning(q) \cup {k} ELSE AppliedDunning(q)
  <2>1. \A j \in DOMAIN events' \ DOMAIN events : events'[j].status # "applied"
    BY <1>3 DEF OnlyInserts, Scheduled
  <2>2. \A j \in DOMAIN events : j # k => events'[j] = events[j]
    BY <1>3 DEF Rewrites
  <2>3. DOMAIN events \subseteq DOMAIN events'
    BY <1>3 DEF OnlyInserts
  <2> QED BY <1>2, <1>3, <1>4, <2>1, <2>2, <2>3 DEF AppliedDunning
<1>8. TypeOf(k) = "dunning" => Cardinality(D \cup {k}) = Cardinality(D) + 1
  BY <1>4, <1>6, FS_AddElement
<1>9. /\ TypeOf(k) = "dunning" => Attempt(k) = Cardinality(D) + 1
      /\ TypeOf(k) # "dunning" => Attempt(k) = Cardinality(D)
  BY <1>6 DEF Attempt
<1>10. Attempt(k) = Cardinality(D')
  <2>1. D' = IF TypeOf(k) = "dunning" THEN D \cup {k} ELSE D
    BY <1>7
  <2> QED BY <1>8, <1>9, <2>1
<1>11. \A q \in Subs \ {s} : subs'[q] = subs[q]
  BY <1>2 DEF ApplyFailure, Inv, TypeOK
<1>12. \/ /\ Attempt(k) >= MaxAttempts /\ subs' = [subs EXCEPT ![s].status = "expired"]
          /\ events' = Closed(k, "applied")
       \/ /\ ~(Attempt(k) >= MaxAttempts)
          /\ events' = [Insert(new, now + RetryAfter) EXCEPT ![k].status = "applied"]
  BY <1>2 DEF ApplyFailure, Attempt, AttemptsUsedUp
<1>13. subs' = [subs EXCEPT ![s].status = "expired"] => subs'[s].status = "expired"
  BY <1>2 DEF Inv, TypeOK
<1>14. DOMAIN Closed(k, "applied") = DOMAIN events
  BY <1>2, ClosedRow DEF Inv
<1>15. DOMAIN [Insert(new, now + RetryAfter) EXCEPT ![k].status = "applied"] = DOMAIN events \cup {new}
  BY DEF Insert
<1> HIDE DEF D, new
<1>16. \/ /\ Attempt(k) >= MaxAttempts /\ subs'[s].status = "expired"
          /\ DOMAIN events' = DOMAIN events
       \/ /\ ~(Attempt(k) >= MaxAttempts)
          /\ DOMAIN events' = DOMAIN events \cup {new}
  BY <1>12, <1>13, <1>14, <1>15
<1> QED BY <1>2, <1>3, <1>4, <1>5, <1>7, <1>9, <1>10, <1>11, <1>16 DEF D, new

\* The keys of retries differ by subscription and number, and are not planned.
LEMMA RetryKeys ==
  ASSUME NEW s, NEW q, NEW m, NEW n
  PROVE  /\ RetryKey(s, m) = RetryKey(q, n) => s = q /\ m = n
         /\ RetryKey(s, m) \notin Plannables
         /\ SubOf(RetryKey(s, m)) = s /\ TypeOf(RetryKey(s, m)) = "dunning"
BY DEF RetryKey, Key, Plannables, SubOf, TypeOf

\* The numbers of the retries follow the number of applied dunning events.
LEMMA RetryNumbersStep ==
  ASSUME Inv, RetryInv, [Next]_vars
  PROVE  RetryNumbers'
<1> USE DEF RetryInv
<1> SUFFICES ASSUME NEW q \in Subs, NEW m \in Nat, RetryKey(q, m) \in DOMAIN events'
             PROVE  /\ m <= Cardinality(AppliedDunning(q)') + 1
                    /\ events'[RetryKey(q, m)].status = "applied" =>
                         m <= Cardinality(AppliedDunning(q)')
  BY DEF RetryNumbers, RetryKey, Key
<1> DEFINE j == RetryKey(q, m)
<1>1. SubOf(j) = q /\ TypeOf(j) = "dunning" /\ j \notin Plannables
  BY RetryKeys
<1>2. j \in DOMAIN events =>
        /\ m <= Cardinality(AppliedDunning(q)) + 1
        /\ events[j].status = "applied" => m <= Cardinality(AppliedDunning(q))
  BY DEF RetryNumbers
<1>3. Cardinality(AppliedDunning(q)) \in Nat
  BY AppliedDunningType
<1>4. CASE ~ \E a \in Actors : ApplyFailure(a)
  <2>1. AppliedDunning(q)' = AppliedDunning(q)
    BY <1>4, OtherStepCount
  <2>2. j \in DOMAIN events /\ (events'[j].status = "applied" => events[j].status = "applied")
    BY <1>1, <1>4, OtherStep
  <2> QED BY <1>2, <2>1, <2>2
<1>5. ASSUME NEW a \in Actors, ApplyFailure(a)
      PROVE  /\ m <= Cardinality(AppliedDunning(q)') + 1
             /\ events'[j].status = "applied" => m <= Cardinality(AppliedDunning(q)')
  <2>0. PICK k, s : k = at[a] /\ s = SubOf(k)
    OBVIOUS
  <2>1. /\ k \in DOMAIN events /\ Attempt(k) \in Nat
        /\ TypeOf(k) = "dunning" => Attempt(k) = Cardinality(AppliedDunning(s)) + 1
        /\ TypeOf(k) # "dunning" => Attempt(k) = Cardinality(AppliedDunning(s))
        /\ Attempt(k) = Cardinality(AppliedDunning(s)')
        /\ q # s => AppliedDunning(q)' = AppliedDunning(q)
        /\ DOMAIN events' \subseteq DOMAIN events \cup {RetryKey(s, Attempt(k) + 1)}
    BY <1>5, <2>0, FailureStep
  <2>2. OnlyInserts /\ \A i \in DOMAIN events : i # k => events'[i] = events[i]
    BY <1>5, <2>0, FailureRow DEF Rewrites
  <2>3. CASE j \notin DOMAIN events
    <3>1. q = s /\ m = Attempt(k) + 1
      BY <2>1, <2>3, RetryKeys
    <3>2. events'[j].status # "applied"
      BY <2>2, <2>3 DEF OnlyInserts, Scheduled
    <3> QED BY <2>1, <3>1, <3>2
  <2>4. CASE j \in DOMAIN events /\ j # k
    BY <1>2, <1>3, <2>1, <2>2, <2>4
  <2>5. CASE j = k
    BY <1>1, <1>2, <1>3, <2>0, <2>1, <2>5
  <2> QED BY <2>3, <2>4, <2>5
<1> QED BY <1>4, <1>5

\* The next retry is always a new event or one that nobody has applied: its
\* number is greater than that of the applied dunning events.
LEMMA RetryPendingStep ==
  ASSUME Inv, RetryInv, [Next]_vars
  PROVE  RetryPending'
<1>0. RetryNumbers' /\ RetryPending /\ PlannedOnly
  BY RetryNumbersStep DEF RetryInv
<1> SUFFICES ASSUME NEW q \in Subs, subs'[q].status = "payment_failed"
             PROVE  \E i \in DOMAIN events' : /\ SubOf(i) = q /\ TypeOf(i) = "dunning"
                                              /\ events'[i].status # "applied"
  BY DEF RetryPending
<1>1. DOMAIN events \subseteq DOMAIN events'
  BY EventStep DEF OnlyInserts
<1>2. CASE ~ \E a \in Actors : ApplyFailure(a)
  <2>1. subs[q].status = "payment_failed"
    BY <1>0, <1>2, OtherStep
  <2>2. PICK i \in DOMAIN events : SubOf(i) = q /\ TypeOf(i) = "dunning" /\ events[i].status # "applied"
    BY <1>0, <2>1 DEF RetryPending
  <2> QED BY <1>0, <1>1, <1>2, <2>2, OtherStep
<1>3. ASSUME NEW a \in Actors, ApplyFailure(a)
      PROVE  \E i \in DOMAIN events' : /\ SubOf(i) = q /\ TypeOf(i) = "dunning"
                                       /\ events'[i].status # "applied"
  <2>0. PICK k, s : k = at[a] /\ s = SubOf(k)
    OBVIOUS
  <2>1. /\ k \in DOMAIN events /\ Attempt(k) \in Nat
        /\ Attempt(k) = Cardinality(AppliedDunning(s)')
        /\ q # s => subs'[q] = subs[q]
        /\ q = s => RetryKey(s, Attempt(k) + 1) \in DOMAIN events'
    <3>1. /\ k \in DOMAIN events /\ Attempt(k) \in Nat
          /\ Attempt(k) = Cardinality(AppliedDunning(s)')
          /\ \A i \in Subs \ {s} : subs'[i] = subs[i]
          /\ \/ subs'[s].status = "expired"
             \/ DOMAIN events' = DOMAIN events \cup {RetryKey(s, Attempt(k) + 1)}
      BY <1>3, <2>0, FailureStep
    <3> QED BY <3>1
  <2>2. \A i \in DOMAIN events : i # k => events'[i] = events[i]
    BY <1>3, <2>0, FailureRow DEF Rewrites
  <2>3. CASE q = s
    <3> DEFINE j == RetryKey(s, Attempt(k) + 1)
    <3>1. j \in DOMAIN events' /\ SubOf(j) = q /\ TypeOf(j) = "dunning"
      BY <2>1, <2>3, RetryKeys
    <3>2. events'[j].status # "applied"
      <4>1. PICK m \in Nat : m = Attempt(k) + 1
        BY <2>1
      <4>2. ~(m <= Cardinality(AppliedDunning(s)'))
        BY <2>1, <4>1
      <4>3. events'[RetryKey(s, m)].status = "applied" => m <= Cardinality(AppliedDunning(s)')
        BY <1>0, <2>3, <3>1, <4>1 DEF RetryNumbers, RetryKey, Key
      <4> QED BY <4>1, <4>2, <4>3
    <3> QED BY <3>1, <3>2
  <2>4. CASE q # s
    <3>1. PICK i \in DOMAIN events : SubOf(i) = q /\ TypeOf(i) = "dunning" /\ events[i].status # "applied"
      BY <1>0, <2>1, <2>4 DEF RetryPending
    <3> QED BY <1>1, <2>0, <2>2, <2>4, <3>1
  <2> QED BY <2>3, <2>4
<1> QED BY <1>2, <1>3

\* The attempt that fills the count ends the subscription in the same
\* transaction.
LEMMA AttemptsBoundedStep ==
  ASSUME Inv, RetryInv, [Next]_vars
  PROVE  AttemptsBounded'
<1>0. AttemptsBounded /\ PlannedOnly
  BY DEF RetryInv
<1> SUFFICES ASSUME NEW q \in Subs, Cardinality(AppliedDunning(q)') >= MaxAttempts
             PROVE  subs'[q].status # "payment_failed"
  BY DEF AttemptsBounded
<1>1. CASE ~ \E a \in Actors : ApplyFailure(a)
  BY <1>0, <1>1, OtherStep, OtherStepCount DEF AttemptsBounded
<1>2. ASSUME NEW a \in Actors, ApplyFailure(a) PROVE subs'[q].status # "payment_failed"
  <2>0. PICK k, s : k = at[a] /\ s = SubOf(k)
    OBVIOUS
  <2>1. CASE q = s
    BY <1>2, <2>0, <2>1, FailureStep
  <2>2. CASE q # s
    <3>1. \A i \in Subs \ {s} : AppliedDunning(i)' = AppliedDunning(i) /\ subs'[i] = subs[i]
      BY <1>2, <2>0, FailureStep
    <3> QED BY <1>0, <2>2, <3>1 DEF AttemptsBounded
  <2> QED BY <2>1, <2>2
<1> QED BY <1>1, <1>2

LEMMA RetryInit == Init => RetryInv
<1> SUFFICES ASSUME Init PROVE RetryInv
  OBVIOUS
<1>1. DOMAIN events = {} /\ \A s \in Subs : subs[s].status # "payment_failed"
  BY StartAssumption DEF Init
<1>2. PlannedOnly
  BY DEF Init, PlannedOnly
<1> QED BY <1>1, <1>2 DEF RetryInv, RetryNumbers, RetryPending, AttemptsBounded

\* RetryInv holds in every reachable state.
LEMMA RetryInvariant == Spec => []RetryInv
<1>1. Inv /\ RetryInv /\ [Next]_vars => RetryInv'
  <2> SUFFICES ASSUME Inv, RetryInv, [Next]_vars PROVE RetryInv'
    OBVIOUS
  <2>1. PlannedOnly'
    BY PlannedOnlyStep DEF RetryInv
  <2> QED BY <2>1, RetryNumbersStep, RetryPendingStep, AttemptsBoundedStep DEF RetryInv
<1> QED BY RetryInit, SchedulerInvariant, <1>1, PTL DEF Spec

\* The chain of retries never breaks: a subscription whose payment failed always
\* has a dunning event that is not applied, whatever planned events, refusals,
\* replays and failed transactions come in between.
THEOREM RetriesPending == Spec => []RetryPending
<1>1. RetryInv => RetryPending
  BY DEF RetryInv
<1> QED BY RetryInvariant, <1>1, PTL

\* No subscription waits for a payment after its last attempt.
THEOREM AttemptsAreBounded == Spec => []AttemptsBounded
<1>1. RetryInv => AttemptsBounded
  BY DEF RetryInv
<1> QED BY RetryInvariant, <1>1, PTL
=============================================================================
