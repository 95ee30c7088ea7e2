---------------------------- MODULE ChargeProofs ----------------------------
(***************************************************************************)
(* What becomes of a request's money: the theorems that rest on ChargeInv. *)
(***************************************************************************)
EXTENDS GatewayRequestProofs, WellFoundedInduction

PaidInv(r) == paid[r] /\ pc[r] \in {"acquire", "start", "call", "stream"} => reserve[r] = "pending"

RequestInv(r) == PaidInv(r) /\ ClosingInv(r) /\ MoneyInv(r)

\* What RequestInv(r) reads of the state.
View(r) == <<pc[r], plan[r], outcome[r], paid[r], cost[r], body[r], claimed[r],
             reserve[r], settle[r], refund[r]>>

LEMMA ChargeInit == ASSUME Init PROVE ChargeInv
BY DEF Init, LedgerInit, ChargeInv, PaidCallIsReserved, ClosingInv, MoneyInv, ClosingSteps

\* A step of one request does not touch what belongs to another.
LEMMA OthersUntouched ==
  ASSUME TypeOK, NEW q \in Requests, NEW r \in Requests, r # q, Step(q)
  PROVE  View(r)' = View(r)
<1> USE DEF TypeOK, LedgerTypeOK, ControlTypeOK, HandlerTypeOK, StreamTypeOK
<1>1. /\ reserve'[r] = reserve[r]
      /\ settle'[r] = settle[r]
      /\ refund'[r] = refund[r]
  BY DEF Step, Progress, Reserve, ReturnReserve, Settle, RefundSettled, InsertReserve, ReleaseReserve,
         InsertSettle, InsertRefund, ledgerVars, Arrive, RefuseEarly, Gate, PreAuthorize, AcquireSlot,
         AcquireWindows, NextRoute, AcquireLease, StartAttempt, Respond, OpenStream, AttemptFails,
         ReleaseLease, FinishAttempt, FinishLog, ReleaseSlot, ForwardEvent, StreamEnds, DropBody,
         Disconnect
<1>2. /\ pc'[r] = pc[r]
      /\ plan'[r] = plan[r]
      /\ outcome'[r] = outcome[r]
  BY DEF Step, Progress, Goto, Proceed, Close, Abort, Advance, handlerVars, Arrive, RefuseEarly, Gate,
         PreAuthorize, Reserve, AcquireSlot, AcquireWindows, NextRoute, AcquireLease, StartAttempt,
         Respond, OpenStream, AttemptFails, ReleaseLease, FinishAttempt, FinishLog, ReturnReserve,
         Settle, ReleaseSlot, ForwardEvent, StreamEnds, DropBody, Disconnect, RefundSettled
<1>3. /\ paid'[r] = paid[r]
      /\ cost'[r] = cost[r]
      /\ body'[r] = body[r]
      /\ claimed'[r] = claimed[r]
  BY DEF Step, Progress, handlerVars, streamVars, Arrive, RefuseEarly, Gate,
         PreAuthorize, Reserve, AcquireSlot, AcquireWindows, NextRoute, AcquireLease, StartAttempt,
         Respond, OpenStream, AttemptFails, ReleaseLease, FinishAttempt, FinishLog, ReturnReserve,
         Settle, ReleaseSlot, ForwardEvent, StreamEnds, DropBody, Disconnect, RefundSettled
<1> QED BY <1>1, <1>2, <1>3 DEF View

LEMMA ViewDetermines ==
  ASSUME NEW r \in Requests, RequestInv(r), View(r)' = View(r)
  PROVE  RequestInv(r)'
BY DEF RequestInv, PaidInv, ClosingInv, MoneyInv, View

\* A step of a request keeps its own part of the invariant.
LEMMA OwnStep ==
  ASSUME TypeOK, NEW r \in Requests, RequestInv(r), Step(r)
  PROVE  RequestInv(r)'
<1> USE DEF TypeOK, LedgerTypeOK, ControlTypeOK, HandlerTypeOK, StreamTypeOK,
            RequestInv, PaidInv, ClosingInv, MoneyInv, ClosingSteps, Goto, Proceed, Close
<1>1. CASE Arrive(r) \/ RefuseEarly(r) \/ Gate(r) \/ NextRoute(r)
  BY <1>1 DEF Arrive, RefuseEarly, Gate, NextRoute, handlerVars, streamVars, ledgerVars
<1>2. CASE PreAuthorize(r)
  BY <1>2 DEF PreAuthorize, Allowed, Abort, handlerVars, streamVars, ledgerVars
<1>3. CASE Reserve(r)
  BY <1>3 DEF Reserve, InsertReserve, ReserveIdempotent, Abort, handlerVars, streamVars, ledgerVars
<1>4. CASE AcquireSlot(r) \/ AcquireWindows(r)
  BY <1>4 DEF AcquireSlot, AcquireWindows, Abort, handlerVars, streamVars, ledgerVars
<1>5. CASE AcquireLease(r)
  BY <1>5 DEF AcquireLease, Abort, handlerVars, streamVars, ledgerVars
<1>6. CASE StartAttempt(r) \/ AttemptFails(r)
  BY <1>6 DEF StartAttempt, AttemptFails, handlerVars, streamVars, ledgerVars
<1>7. CASE Respond(r)
  BY <1>7 DEF Respond, handlerVars, streamVars, ledgerVars
<1>8. CASE OpenStream(r) \/ ForwardEvent(r)
  BY <1>8 DEF OpenStream, ForwardEvent, handlerVars, streamVars, ledgerVars
<1>9. CASE StreamEnds(r)
  BY <1>9 DEF StreamEnds, handlerVars, streamVars, ledgerVars
<1>10. CASE DropBody(r)
  BY <1>10 DEF DropBody, handlerVars, streamVars, ledgerVars
<1>11. CASE ReleaseLease(r)
  BY <1>11 DEF ReleaseLease, After, Advance, handlerVars, streamVars, ledgerVars
<1>12. CASE FinishAttempt(r)
  BY <1>12 DEF FinishAttempt, After, Advance, handlerVars, streamVars, ledgerVars
<1>13. CASE FinishLog(r)
  BY <1>13 DEF FinishLog, Plans, After, Advance, handlerVars, streamVars, ledgerVars
<1>14. CASE ReleaseSlot(r)
  BY <1>14 DEF ReleaseSlot, After, Advance, handlerVars, streamVars, ledgerVars
<1>15. CASE ReturnReserve(r)
  BY <1>15 DEF ReturnReserve, ReleaseReserve, Reversed, After, Advance, handlerVars, streamVars, ledgerVars
<1>16. CASE Settle(r)
  BY <1>16 DEF Settle, InsertSettle, Reversed, After, Advance, handlerVars, streamVars, ledgerVars
<1>17. CASE Disconnect(r)
  BY <1>17 DEF Disconnect, handlerVars, streamVars, ledgerVars
<1>18. CASE RefundSettled(r)
  BY <1>18 DEF RefundSettled, InsertRefund, handlerVars, streamVars, ledgerVars
<1> QED
  BY <1>1, <1>2, <1>3, <1>4, <1>5, <1>6, <1>7, <1>8, <1>9, <1>10, <1>11, <1>12, <1>13, <1>14, <1>15, <1>16, <1>17, <1>18 DEF Step, Progress

\* ChargeInv is inductive together with TypeOK.
LEMMA ChargeStep ==
  ASSUME TypeOK, ChargeInv, [Next]_vars
  PROVE  ChargeInv'
<1> USE DEF RequestInv, PaidInv
<1>1. \A r \in Requests : RequestInv(r)
  BY DEF ChargeInv, PaidCallIsReserved
<1> SUFFICES ASSUME NEW r \in Requests PROVE RequestInv(r)'
  BY DEF ChargeInv, PaidCallIsReserved
<1>2. ASSUME NEW q \in Requests, Step(q) PROVE RequestInv(r)'
  <2>1. CASE q = r
    BY <1>1, <1>2, <2>1, OwnStep
  <2>2. CASE q # r
    BY <1>1, <1>2, <2>2, OthersUntouched, ViewDetermines
  <2> QED BY <2>1, <2>2
<1>3. CASE Crash
  <2>1. /\ pc'[r] \in {pc[r], "dead"}
        /\ pc'[r] = pc[r] => pc[r] \in {"idle", "done", "dead"}
        /\ body'[r] \in {"none", "closed"}
    BY <1>3 DEF Crash, TypeOK, ControlTypeOK
  <2>2. View(r)' = <<pc'[r], plan[r], outcome[r], paid[r], cost[r], body'[r], claimed[r],
                     reserve[r], settle[r], refund[r]>>
    BY <1>3 DEF Crash, View, ledgerVars
  <2> QED BY <1>1, <2>1, <2>2 DEF View, ClosingInv, MoneyInv, ClosingSteps
<1>4. CASE UNCHANGED <<handlerVars, ledgerVars>>
  BY <1>1, <1>4, ViewDetermines DEF View, handlerVars, streamVars, ledgerVars
<1> QED BY <1>2, <1>3, <1>4 DEF Next, ToggleOptIn, vars

\* ChargeInv holds in every reachable state.
THEOREM ChargeInvariant == Spec => []ChargeInv
<1>1. TypeOK /\ ChargeInv /\ [Next]_vars => ChargeInv'
  BY ChargeStep
<1> QED BY ChargeInit, TypeCorrect, <1>1, PTL DEF Spec

\* For any number of requests and any interleaving of their calls, failures,
\* disconnects and crashes: the gateway charges only answered requests, at the
\* rated cost, and never keeps the reserve frozen next to the charge.
THEOREM ChargeSafe == Spec => []ChargedOnlyForSuccess
<1>1. ChargeInv => ChargedOnlyForSuccess
  BY DEF ChargeInv, MoneyInv, ChargedOnlyForSuccess
<1> QED BY ChargeInvariant, <1>1, PTL

\* No provider is called for a paid request without a pending reserve.
THEOREM PaidCallsReserved == Spec => []PaidCallIsReserved
<1>1. ChargeInv => PaidCallIsReserved
  BY DEF ChargeInv
<1> QED BY ChargeInvariant, <1>1, PTL

-----------------------------------------------------------------------------
(* Refinement *)

Money == [r \in Requests |-> MoneyOf(r)]

\* A ledger in which only one request's rows changed.
LEMMA MoneyMoves ==
  ASSUME NEW r \in Requests, NEW to,
         MoneyOf(r)' = to,
         \A q \in Requests \ {r} : reserve'[q] = reserve[q] /\ settle'[q] = settle[q] /\ refund'[q] = refund[q]
  PROVE  Money' = [Money EXCEPT ![r] = to]
<1>1. \A q \in Requests \ {r} : MoneyOf(q)' = MoneyOf(q)
  BY DEF MoneyOf
<1> QED BY <1>1 DEF Money

\* Every step of the gateway is a step of the contract or leaves its variables
\* unchanged.
LEMMA ContractStep ==
  ASSUME TypeOK, ChargeInv, [Next]_vars
  PROVE  [Contract!ContractNext]_(Contract!contractVars)
<1> USE DEF TypeOK, LedgerTypeOK
<1>1. \A r \in Requests : ClosingInv(r) /\ MoneyInv(r)
  BY DEF ChargeInv
<1>2. CASE UNCHANGED ledgerVars
  BY <1>2 DEF Contract!contractVars, MoneyOf, ledgerVars
<1>3. ASSUME NEW r \in Requests, Reserve(r), ~UNCHANGED ledgerVars
      PROVE  Contract!Hold(r)
  <2>1. InsertReserve(r) /\ pc[r] \in {"gate_reserve", "reserve"}
    BY <1>3 DEF Reserve
  <2>2. reserve[r] = "none" /\ settle[r] = 0 /\ refund[r] = 0
    BY <1>1, <2>1 DEF InsertReserve, ReserveApplies, MoneyInv
  <2>3. MoneyOf(r) = "free" /\ MoneyOf(r)' = "held"
    BY <2>1, <2>2 DEF InsertReserve, MoneyOf
  <2>4. Money' = [Money EXCEPT ![r] = "held"]
    BY <2>1, <2>3, MoneyMoves DEF InsertReserve
  <2> QED BY <2>1, <2>3, <2>4 DEF Contract!Hold, Contract!Move, Money, InsertReserve
<1>4. ASSUME NEW r \in Requests, ReturnReserve(r), ~UNCHANGED ledgerVars
      PROVE  Contract!Return(r)
  <2>1. ReleaseReserve(r) /\ pc[r] = "release_reserve"
    BY <1>4 DEF ReturnReserve
  <2>2. reserve[r] = "pending"
    BY <1>4, <2>1 DEF ReleaseReserve, Reversed, ledgerVars
  <2>3. settle[r] = 0 /\ refund[r] = 0
    BY <1>1, <2>1 DEF MoneyInv
  <2>4. MoneyOf(r) = "held" /\ MoneyOf(r)' = "returned"
    BY <2>1, <2>2, <2>3 DEF ReleaseReserve, Reversed, MoneyOf
  <2>5. Money' = [Money EXCEPT ![r] = "returned"]
    BY <2>1, <2>4, MoneyMoves DEF ReleaseReserve
  <2> QED BY <2>1, <2>4, <2>5 DEF Contract!Return, Contract!Move, Money, ReleaseReserve
<1>5. ASSUME NEW r \in Requests, Settle(r), ~UNCHANGED ledgerVars
      PROVE  Contract!Charge(r)
  <2>1. InsertSettle(r, cost[r]) /\ cost[r] > 0 /\ pc[r] = "settle"
    BY <1>5 DEF Settle
  <2>2. settle[r] = 0 /\ refund[r] = 0 /\ reserve[r] \in {"none", "pending"}
    BY <1>1, <2>1 DEF ClosingInv, MoneyInv, ReserveStatus
  <2>3. MoneyOf(r) \in {"free", "held"} /\ MoneyOf(r)' = "charged"
    BY <2>1, <2>2 DEF InsertSettle, MoneyOf, HandlerTypeOK
  <2>4. Money' = [Money EXCEPT ![r] = "charged"]
    BY <2>1, <2>3, MoneyMoves DEF InsertSettle
  <2>5. settle' = [settle EXCEPT ![r] = cost[r]] /\ cost[r] \in Costs \ {0}
    BY <1>1, <2>1, <2>2 DEF InsertSettle, MoneyInv, HandlerTypeOK
  <2> QED BY <2>3, <2>4, <2>5 DEF Contract!Charge, Contract!Move, Money
<1>6. ASSUME NEW r \in Requests, RefundSettled(r), ~UNCHANGED ledgerVars
      PROVE  Contract!Refund(r)
  <2>1. InsertRefund(r)
    BY <1>6 DEF RefundSettled
  <2>2. settle[r] > 0 /\ refund[r] = 0
    BY <1>1, <1>6, <2>1 DEF InsertRefund, MoneyInv, ledgerVars
  <2>3. MoneyOf(r) = "charged" /\ MoneyOf(r)' = "refunded"
    BY <2>1, <2>2 DEF InsertRefund, MoneyOf
  <2>4. Money' = [Money EXCEPT ![r] = "refunded"]
    BY <2>1, <2>3, MoneyMoves DEF InsertRefund
  <2> QED BY <2>1, <2>3, <2>4 DEF Contract!Refund, Contract!Move, Money, InsertRefund
<1> QED
  BY <1>2, <1>3, <1>4, <1>5, <1>6
     DEF Contract!ContractNext, Next, Step, Progress, vars, Arrive, RefuseEarly, Gate, PreAuthorize,
         AcquireSlot, AcquireWindows, NextRoute, AcquireLease, StartAttempt, Respond, OpenStream,
         AttemptFails, ReleaseLease, FinishAttempt, FinishLog, ReleaseSlot, ForwardEvent, StreamEnds,
         DropBody, Disconnect, ToggleOptIn, Crash

\* The gateway implements ChargeContract: the money of a request is held at most
\* once, a hold ends as one charge or one return, and a charge is refunded at
\* most once, as a whole.
THEOREM GatewayImplementsContract == Spec => ImplementsContract
<1>1. Init => Contract!ContractInit
  BY DEF Init, LedgerInit, Contract!ContractInit, MoneyOf
<1>2. TypeOK /\ ChargeInv /\ [Next]_vars => [Contract!ContractNext]_(Contract!contractVars)
  BY ContractStep
<1> QED
  BY <1>1, <1>2, TypeCorrect, ChargeInvariant, PTL DEF Spec, ImplementsContract, Contract!ContractSpec

-----------------------------------------------------------------------------
(* What a request that ended by itself leaves behind *)

\* Faults and drops are never forgotten.
LEMMA EnvGrows ==
  ASSUME TypeOK, [Next]_vars
  PROVE  (faults' = 0 => faults = 0) /\ (drops' = 0 => drops = 0)
<1> USE GatewayAssumption DEF TypeOK, EnvTypeOK
<1>1. CASE (NoFault \/ Fault) /\ UNCHANGED drops
  BY <1>1 DEF NoFault, Fault
<1>2. CASE UNCHANGED faults /\ (UNCHANGED drops \/ drops' = drops + 1)
  BY <1>2
<1> QED
  BY <1>1, <1>2
     DEF Next, Step, Progress, vars, envVars, Arrive, RefuseEarly, Gate, ReadOptIn, PreAuthorize, Reserve,
         AcquireSlot, AcquireWindows, NextRoute, AcquireLease, StartAttempt, Respond, OpenStream,
         AttemptFails, ReleaseLease, FinishAttempt, FinishLog, ReturnReserve, Settle, ReleaseSlot,
         ForwardEvent, StreamEnds, DropBody, Disconnect, RefundSettled, ToggleOptIn, Crash

\* The calls from which the row of the current attempt is still to be closed.
AttemptOpen(r) ==
  \/ pc[r] \in {"call", "stream", "finish_attempt"}
  \/ pc[r] = "release_pk" /\ plan[r] # "abort"
  \/ pc[r] = "finish_log" /\ plan[r] \in {"completed", "ended"}
  \/ pc[r] = "release_reserve" /\ plan[r] = "ended"
  \/ pc[r] = "settle" /\ plan[r] = "completed"

\* The calls that come after finish_log.
LogWritten(r) ==
  \/ pc[r] \in {"settle", "release_vk"}
  \/ pc[r] = "release_reserve" /\ plan[r] # "ended"
  \/ pc[r] = "finish_attempt" /\ plan[r] \in {"completed", "ended"}

\* The calls that come after the settle or the return of the reserve.
MoneyClosed(r) ==
  \/ pc[r] = "release_vk"
  \/ pc[r] = "finish_attempt" /\ plan[r] \in {"completed", "ended"}
  \/ pc[r] = "finish_log" /\ plan[r] = "ended"

FinalStatus == {"succeeded", "failed", "partial", "cancelled"}

\* Only the attempt on the current route can be unfinished.
AttemptRows(r) ==
  \A k \in ProviderKeys : attempts[r][k] = "started" => k = route[r] /\ AttemptOpen(r)

\* What each closing sequence has done by the time a call of it comes.
DoneInv(r) ==
  /\ pc[r] = "idle" => reserve[r] = "none"
  /\ pc[r] = "release_vk" => plan[r] # "fallback"
  /\ pc[r] = "release_pk" => plan[r] \in {"abort", "fail", "fallback", "ended"}
  /\ plan[r] # "none" => outcome[r] \in FinalStatus
  /\ LogWritten(r) => log[r] = outcome[r]
  /\ MoneyClosed(r) /\ reserve[r] = "pending" => plan[r] \in {"success", "completed"} /\ cost[r] = 0
  /\ pc[r] = "done" => /\ log[r] \in FinalStatus
                       /\ reserve[r] = "pending" => log[r] = "succeeded" /\ cost[r] = 0
  /\ pc[r] # "dead" => AttemptRows(r)

\* It holds as long as no database call failed.
DoneInvs == faults = 0 => \A r \in Requests : DoneInv(r)

LEMMA DoneInit == ASSUME Init PROVE DoneInvs
BY DEF Init, LedgerInit, DoneInvs, DoneInv, LogWritten, MoneyClosed, AttemptRows

\* A step of one request leaves the log and the attempts of another alone.
LEMMA RowsUntouched ==
  ASSUME TypeOK, NEW q \in Requests, NEW r \in Requests, r # q, Step(q)
  PROVE  log'[r] = log[r] /\ attempts'[r] = attempts[r] /\ route'[r] = route[r]
<1> USE DEF TypeOK, HandlerTypeOK, RowTypeOK
<1>1. log'[r] = log[r] /\ attempts'[r] = attempts[r]
  BY DEF Step, Progress, rowVars, Arrive, RefuseEarly, Gate,
         PreAuthorize, Reserve, AcquireSlot, AcquireWindows, NextRoute, AcquireLease, StartAttempt,
         Respond, OpenStream, AttemptFails, ReleaseLease, FinishAttempt, FinishLog, ReturnReserve,
         Settle, ReleaseSlot, ForwardEvent, StreamEnds, DropBody, Disconnect, RefundSettled
<1>2. route'[r] = route[r]
  BY DEF Step, Progress, handlerVars, Arrive, RefuseEarly, Gate,
         PreAuthorize, Reserve, AcquireSlot, AcquireWindows, NextRoute, AcquireLease, StartAttempt,
         Respond, OpenStream, AttemptFails, ReleaseLease, FinishAttempt, FinishLog, ReturnReserve,
         Settle, ReleaseSlot, ForwardEvent, StreamEnds, DropBody, Disconnect, RefundSettled
<1> QED BY <1>1, <1>2

LEMMA DoneViewDetermines ==
  ASSUME NEW r \in Requests, DoneInv(r), View(r)' = View(r),
         log'[r] = log[r], attempts'[r] = attempts[r], route'[r] = route[r]
  PROVE  DoneInv(r)'
BY DEF DoneInv, LogWritten, MoneyClosed, AttemptRows, AttemptOpen, View

\* A step of a request keeps its own part of the invariant.
LEMMA DoneOwnStep ==
  ASSUME TypeOK, NEW r \in Requests, RequestInv(r), DoneInv(r), Step(r), faults = 0, faults' = 0
  PROVE  DoneInv(r)'
<1> USE DEF TypeOK, LedgerTypeOK, ControlTypeOK, HandlerTypeOK, RowTypeOK,
            RequestInv, ClosingInv, DoneInv, LogWritten, MoneyClosed, AttemptRows, AttemptOpen,
            FinalStatus, ClosingSteps, Goto, Proceed, Close
<1>0. ~Fault
  BY DEF Fault
<1>1. CASE Arrive(r) \/ RefuseEarly(r) \/ Gate(r) \/ NextRoute(r)
  BY <1>0, <1>1 DEF Arrive, RefuseEarly, Gate, NextRoute, rowVars, ledgerVars
<1>2. CASE PreAuthorize(r)
  BY <1>2 DEF PreAuthorize, Allowed, Abort, rowVars, ledgerVars
<1>3. CASE Reserve(r)
  BY <1>3 DEF Reserve, InsertReserve, Abort, rowVars, ledgerVars
<1>4. CASE AcquireSlot(r) \/ AcquireWindows(r)
  BY <1>4 DEF AcquireSlot, AcquireWindows, Abort, rowVars, ledgerVars
<1>5. CASE AcquireLease(r)
  BY <1>5 DEF AcquireLease, Abort, rowVars, ledgerVars
<1>6. CASE StartAttempt(r)
  BY <1>0, <1>6 DEF StartAttempt, rowVars, ledgerVars
<1>7. CASE Respond(r) \/ AttemptFails(r)
  BY <1>7 DEF Respond, AttemptFails, rowVars, ledgerVars
<1>8. CASE OpenStream(r) \/ ForwardEvent(r)
  BY <1>8 DEF OpenStream, ForwardEvent, rowVars, ledgerVars
<1>9. CASE StreamEnds(r)
  BY <1>9 DEF StreamEnds, rowVars, ledgerVars
<1>10. CASE DropBody(r)
  BY <1>10 DEF DropBody, rowVars, ledgerVars
<1>11. CASE ReleaseLease(r)
  BY <1>11 DEF ReleaseLease, After, Advance, rowVars, ledgerVars
<1>12. CASE FinishAttempt(r)
  <2>1. /\ pc[r] = "finish_attempt" /\ outcome[r] \in FinalStatus
        /\ UNCHANGED <<plan, outcome, route, cost, log, reserve>>
    BY <1>12 DEF FinishAttempt, Advance, ledgerVars
  <2>2. pc'[r] = IF plan[r] = "fallback" THEN "next"
                 ELSE IF plan[r] \in {"completed", "ended"} THEN "release_vk" ELSE "finish_log"
    BY <1>12, <2>1 DEF FinishAttempt, After, Advance
  <2>3. \A k \in ProviderKeys : attempts'[r][k] # "started"
    <3>1. PICK st \in FinalStatus : attempts' = [attempts EXCEPT ![r][route[r]] = st]
      BY <1>0, <1>12, <2>1 DEF FinishAttempt
    <3>2. \A k \in ProviderKeys : attempts'[r][k] = IF k = route[r] THEN st ELSE attempts[r][k]
      BY <3>1
    <3> QED BY <2>1, <3>2
  <2> QED BY <2>1, <2>2, <2>3
<1>13. CASE FinishLog(r)
  <2>1. /\ pc[r] = "finish_log" /\ outcome[r] \in FinalStatus /\ plan[r] # "fallback"
        /\ log'[r] = outcome[r]
        /\ UNCHANGED <<plan, outcome, route, cost, attempts, reserve>>
    BY <1>0, <1>13 DEF FinishLog, Advance, ledgerVars
  <2>2. pc'[r] = IF plan[r] \in {"abort", "fail"} THEN "release_reserve"
                 ELSE IF plan[r] = "ended" THEN "finish_attempt" ELSE "settle"
    BY <1>13, <2>1 DEF FinishLog, After, Advance
  <2>3. plan[r] \in {"abort", "fail", "success", "completed", "ended"}
    BY <2>1 DEF Plans
  <2> QED BY <2>1, <2>2, <2>3
<1>14. CASE ReleaseSlot(r)
  BY <1>14 DEF ReleaseSlot, After, Advance, rowVars, ledgerVars
<1>15. CASE ReturnReserve(r)
  BY <1>0, <1>15 DEF ReturnReserve, ReleaseReserve, Reversed, After, Advance, rowVars, ledgerVars
<1>16. CASE Settle(r)
  BY <1>0, <1>16 DEF Settle, InsertSettle, Reversed, After, Advance, rowVars, ledgerVars
<1>17. CASE Disconnect(r)
  BY <1>17 DEF Disconnect, rowVars, ledgerVars
<1>18. CASE RefundSettled(r)
  BY <1>18 DEF RefundSettled, InsertRefund, handlerVars, rowVars, ledgerVars
<1> QED
  BY <1>1, <1>2, <1>3, <1>4, <1>5, <1>6, <1>7, <1>8, <1>9, <1>10, <1>11, <1>12, <1>13, <1>14, <1>15, <1>16, <1>17, <1>18 DEF Step, Progress

\* DoneInvs is inductive together with TypeOK and ChargeInv.
LEMMA DoneStep ==
  ASSUME TypeOK, ChargeInv, DoneInvs, [Next]_vars
  PROVE  DoneInvs'
<1> SUFFICES ASSUME faults' = 0, NEW r \in Requests PROVE DoneInv(r)'
  BY DEF DoneInvs
<1>1. faults = 0 /\ DoneInv(r) /\ RequestInv(r)
  BY EnvGrows DEF DoneInvs, RequestInv, PaidInv, ChargeInv, PaidCallIsReserved
<1>2. ASSUME NEW q \in Requests, Step(q) PROVE DoneInv(r)'
  <2>1. CASE q = r
    BY <1>1, <1>2, <2>1, DoneOwnStep
  <2>2. CASE q # r
    BY <1>1, <1>2, <2>2, OthersUntouched, RowsUntouched, DoneViewDetermines
  <2> QED BY <2>1, <2>2
<1>3. CASE Crash
  <2>1. /\ pc'[r] \in {pc[r], "dead"}
        /\ pc'[r] = pc[r] => pc[r] \in {"idle", "done", "dead"}
    BY <1>3 DEF Crash, TypeOK, ControlTypeOK
  <2>2. UNCHANGED <<plan, outcome, cost, route, log, attempts, reserve>>
    BY <1>3 DEF Crash, rowVars, ledgerVars
  <2> QED BY <1>1, <2>1, <2>2 DEF DoneInv, LogWritten, MoneyClosed, AttemptRows, AttemptOpen
<1>4. CASE UNCHANGED <<handlerVars, rowVars, ledgerVars>>
  BY <1>1, <1>4, DoneViewDetermines DEF View, handlerVars, streamVars, rowVars, ledgerVars
<1> QED BY <1>2, <1>3, <1>4 DEF Next, ToggleOptIn, vars

\* Without a failed call the rows follow the closing sequences.
LEMMA DoneInvariant == Spec => []DoneInvs
<1>1. TypeOK /\ ChargeInv /\ DoneInvs /\ [Next]_vars => DoneInvs'
  BY DoneStep
<1> QED BY DoneInit, TypeCorrect, ChargeInvariant, <1>1, PTL DEF Spec

\* Every return path gives the frozen money back: refusal, failed attempts, a
\* stream that breaks off, a charge.  Only a success that costs nothing keeps it.
THEOREM ReservesComeBack == Spec => []ReserveReturned
<1>1. DoneInvs => ReserveReturned
  BY DEF DoneInvs, DoneInv, ReserveReturned
<1> QED BY DoneInvariant, <1>1, PTL

\* Every return path closes the request log and the row of its last attempt,
\* and the loop leaves no attempt open when it moves on.
THEOREM DoneRequestsLogged == Spec => []DoneIsLogged
<1>1. DoneInvs => DoneIsLogged
  BY DEF DoneInvs, DoneInv, DoneIsLogged, FinalStatus, AttemptRows, AttemptOpen
<1> QED BY DoneInvariant, <1>1, PTL

-----------------------------------------------------------------------------
(* Sums: what SumFunctionOnSet computes, by the least counterexample *)

\* Every set of natural numbers has a least one.
LEMMA LeastNatural ==
  ASSUME NEW T \in SUBSET Nat, T # {}
  PROVE  \E n \in T : \A m \in T : n <= m
<1>1. PICK n \in T : \A m \in T : ~ (<<m, n>> \in OpToRel(<, Nat))
  BY NatLessThanWellFounded, WFMin
<1>2. \A m \in T : ~(m < n)
  BY <1>1 DEF OpToRel
<1> QED BY <1>2

\* The element that the library's folds take next from a set.
Pick(s) == CHOOSE x \in s : TRUE

\* It is in the set, and the rest is smaller.
LEMMA PickRest ==
  ASSUME NEW S, IsFiniteSet(S), NEW s \in SUBSET S
  PROVE  /\ Cardinality(s) \in Nat
         /\ s # {} => /\ Pick(s) \in s
                      /\ s \ {Pick(s)} \in SUBSET S
                      /\ Cardinality(s \ {Pick(s)}) = Cardinality(s) - 1
<1>1. IsFiniteSet(s) /\ Cardinality(s) \in Nat
  BY FS_Subset, FS_CardinalityType
<1>2. s # {} => Pick(s) \in s
  BY DEF Pick
<1> QED BY <1>1, <1>2, FS_RemoveElement

\* Induction over the subsets of a finite set in the order of the folds.
LEMMA FoldInduction ==
  ASSUME NEW S, IsFiniteSet(S), NEW T,
         {} \in T,
         \A s \in SUBSET S : s # {} /\ s \ {Pick(s)} \in T => s \in T
  PROVE  \A s \in SUBSET S : s \in T
<1> DEFINE Bad == {n \in Nat : \E s \in SUBSET S : s \notin T /\ Cardinality(s) = n}
<1> SUFFICES ASSUME NEW s \in SUBSET S, s \notin T PROVE FALSE
  OBVIOUS
<1>1. Cardinality(s) \in Bad
  BY PickRest
<1>2. PICK n \in Bad : \A m \in Bad : n <= m
  BY <1>1, LeastNatural
<1>3. PICK u \in SUBSET S : u \notin T /\ Cardinality(u) = n
  OBVIOUS
<1>4. u # {} /\ u \ {Pick(u)} \in SUBSET S /\ u \ {Pick(u)} \notin T
      /\ Cardinality(u \ {Pick(u)}) = n - 1 /\ Cardinality(u \ {Pick(u)}) \in Nat
  <2>1. u # {}
    BY <1>3
  <2>2. u \ {Pick(u)} \in SUBSET S /\ u \ {Pick(u)} \notin T
    BY <1>3, <2>1
  <2>3. Cardinality(u \ {Pick(u)}) = n - 1
    BY <1>3, <2>1, PickRest
  <2>4. Cardinality(u \ {Pick(u)}) \in Nat
    BY <2>2, PickRest
  <2> QED BY <2>1, <2>2, <2>3, <2>4
<1>5. n - 1 \in Bad
  BY <1>4
<1> QED BY <1>2, <1>5

\* g gives the partial sums of f over the sets of C.
PartialSums(g, f, C) ==
  g = [s \in C |-> IF s = {} THEN 0 ELSE f[Pick(s)] + g[s \ {Pick(s)}]]

\* The subsets of S with at most n elements.
Upto(S, n) == {s \in SUBSET S : Cardinality(s) <= n}

LEMMA PartialSumsExist ==
  ASSUME NEW S, IsFiniteSet(S), NEW f
  PROVE  \E g : PartialSums(g, f, SUBSET S)
<1> DEFINE Bad == {n \in Nat : ~ \E g : PartialSums(g, f, Upto(S, n))}
<1>1. Bad = {}
  <2> SUFFICES ASSUME Bad # {} PROVE FALSE
    OBVIOUS
  <2>1. PICK n \in Bad : \A m \in Bad : n <= m
    BY LeastNatural
  <2>2. CASE n = 0
    <3>1. Upto(S, 0) = {{}}
      <4>1. ASSUME NEW s \in SUBSET S, Cardinality(s) <= 0 PROVE s = {}
        <5>1. IsFiniteSet(s) /\ Cardinality(s) \in Nat
          BY FS_Subset, FS_CardinalityType
        <5> QED BY <4>1, <5>1, FS_EmptySet
      <4> QED BY <4>1, FS_EmptySet DEF Upto
    <3>2. PartialSums([s \in {{}} |-> 0], f, {{}})
      BY DEF PartialSums
    <3> QED BY <2>1, <2>2, <3>1, <3>2
  <2>3. CASE n # 0
    <3>1. n - 1 \in Nat /\ n - 1 \notin Bad
      BY <2>1, <2>3
    <3>2. PICK g : PartialSums(g, f, Upto(S, n - 1))
      BY <3>1
    <3> DEFINE C == Upto(S, n - 1)
               D == Upto(S, n)
               h == [s \in D |-> IF s \in C THEN g[s] ELSE f[Pick(s)] + g[s \ {Pick(s)}]]
    <3>3. \A s \in D : s # {} => s \ {Pick(s)} \in C
      <4>1. \A s \in SUBSET S : Cardinality(s) \in Nat /\ n \in Nat
        BY PickRest
      <4> QED BY <4>1, PickRest DEF Upto
    <3>4. C \subseteq D /\ {} \in C
      <4>1. \A s \in SUBSET S : Cardinality(s) <= n - 1 => Cardinality(s) <= n
        <5>1. \A s \in SUBSET S : Cardinality(s) \in Nat
          BY PickRest
        <5> QED BY <3>1, <5>1
      <4>2. Cardinality({}) = 0
        BY FS_EmptySet
      <4> QED BY <3>1, <4>1, <4>2 DEF Upto
    <3>5. \A s \in C : g[s] = IF s = {} THEN 0 ELSE f[Pick(s)] + g[s \ {Pick(s)}]
      BY <3>2 DEF PartialSums
    <3> HIDE DEF C, D
    <3>6. \A s \in D : h[s] = IF s = {} THEN 0 ELSE f[Pick(s)] + h[s \ {Pick(s)}]
      BY <3>3, <3>4, <3>5
    <3>7. h = [s \in D |-> h[s]]
      OBVIOUS
    <3> HIDE DEF h
    <3>8. PartialSums(h, f, D)
      BY <3>6, <3>7 DEF PartialSums
    <3> QED BY <2>1, <3>8 DEF D
  <2> QED BY <2>2, <2>3
<1>2. Cardinality(S) \in Nat /\ \A s \in SUBSET S : Cardinality(s) <= Cardinality(S)
  BY FS_Subset, FS_CardinalityType
<1>3. Upto(S, Cardinality(S)) = SUBSET S
  BY <1>2 DEF Upto
<1>4. Cardinality(S) \notin Bad
  BY <1>1
<1>5. PICK g : PartialSums(g, f, Upto(S, Cardinality(S)))
  BY <1>2, <1>4
<1> QED BY <1>3, <1>5

\* The library's sum is the last partial sum.
LEMMA SumIsPartialSum ==
  ASSUME NEW S, IsFiniteSet(S), NEW f
  PROVE  \E g : PartialSums(g, f, SUBSET S) /\ SumFunctionOnSet(f, S) = g[S]
<1> DEFINE Sums(g) == [s \in SUBSET S |-> IF s = {} THEN 0 ELSE f[Pick(s)] + g[s \ {Pick(s)}]]
           iter == CHOOSE g : g = Sums(g)
<1>1. PICK g : PartialSums(g, f, SUBSET S)
  BY PartialSumsExist
<1>2. g = Sums(g)
  BY <1>1 DEF PartialSums
<1>3. iter = Sums(iter)
  BY <1>2
<1>4. SumFunctionOnSet(f, S) = iter[S]
  BY DEF SumFunctionOnSet, FoldFunctionOnSet, MapThenFoldSet, Pick
<1> HIDE DEF iter
<1>5. PartialSums(iter, f, SUBSET S)
  BY <1>3 DEF PartialSums
<1> QED BY <1>4, <1>5

\* A sum of integers is an integer.
LEMMA SumType ==
  ASSUME NEW S, IsFiniteSet(S), NEW f, \A x \in S : f[x] \in Int
  PROVE  SumFunctionOnSet(f, S) \in Int
<1>1. PICK g : PartialSums(g, f, SUBSET S) /\ SumFunctionOnSet(f, S) = g[S]
  BY SumIsPartialSum
<1> DEFINE T == {s \in SUBSET S : g[s] \in Int}
<1>2. \A s \in SUBSET S : g[s] = IF s = {} THEN 0 ELSE f[Pick(s)] + g[s \ {Pick(s)}]
  BY <1>1 DEF PartialSums
<1>3. {} \in T
  <2>1. {} \in SUBSET S
    OBVIOUS
  <2>2. g[{}] = 0
    BY <1>2, <2>1
  <2> QED BY <2>1, <2>2
<1>4. ASSUME NEW s \in SUBSET S, s # {}, s \ {Pick(s)} \in T PROVE s \in T
  <2>1. Pick(s) \in S
    BY <1>4, PickRest
  <2>2. g[s] = f[Pick(s)] + g[s \ {Pick(s)}]
    BY <1>2, <1>4
  <2> QED BY <1>4, <2>1, <2>2
<1> HIDE DEF T
<1>5. S \in T
  BY <1>3, <1>4, FoldInduction
<1> QED BY <1>1, <1>5 DEF T

\* Sums over nothing and over one element.
LEMMA SumSmall ==
  ASSUME NEW f, NEW x, f[x] \in Int
  PROVE  SumFunctionOnSet(f, {}) = 0 /\ SumFunctionOnSet(f, {x}) = f[x]
<1>1. SumFunctionOnSet(f, {}) = 0
  <2>1. PICK g : PartialSums(g, f, SUBSET {}) /\ SumFunctionOnSet(f, {}) = g[{}]
    BY SumIsPartialSum, FS_EmptySet
  <2> QED BY <2>1 DEF PartialSums
<1>2. SumFunctionOnSet(f, {x}) = f[x]
  <2>1. PICK g : PartialSums(g, f, SUBSET {x}) /\ SumFunctionOnSet(f, {x}) = g[{x}]
    BY SumIsPartialSum, FS_Singleton
  <2>2. \A s \in SUBSET {x} : g[s] = IF s = {} THEN 0 ELSE f[Pick(s)] + g[s \ {Pick(s)}]
    BY <2>1 DEF PartialSums
  <2>3. Pick({x}) = x
    BY DEF Pick
  <2>4. g[{}] = 0 /\ g[{x}] = f[x] + g[{}]
    BY <2>2, <2>3
  <2> QED BY <2>1, <2>4
<1> QED BY <1>1, <1>2

\* When one summand changes, the sum changes by as much.
LEMMA SumChange ==
  ASSUME NEW S, IsFiniteSet(S), NEW f, NEW g, NEW x,
         \A y \in S : f[y] \in Int /\ g[y] \in Int /\ (y # x => f[y] = g[y])
  PROVE  SumFunctionOnSet(g, S) = SumFunctionOnSet(f, S) + (IF x \in S THEN g[x] - f[x] ELSE 0)
<1>1. PICK F : PartialSums(F, f, SUBSET S) /\ SumFunctionOnSet(f, S) = F[S]
  BY SumIsPartialSum
<1>2. PICK G : PartialSums(G, g, SUBSET S) /\ SumFunctionOnSet(g, S) = G[S]
  BY SumIsPartialSum
<1> DEFINE T == {s \in SUBSET S : /\ F[s] \in Int
                                  /\ G[s] = F[s] + (IF x \in s THEN g[x] - f[x] ELSE 0)}
<1>3. \A s \in SUBSET S : F[s] = IF s = {} THEN 0 ELSE f[Pick(s)] + F[s \ {Pick(s)}]
  BY <1>1 DEF PartialSums
<1>4. \A s \in SUBSET S : G[s] = IF s = {} THEN 0 ELSE g[Pick(s)] + G[s \ {Pick(s)}]
  BY <1>2 DEF PartialSums
<1>5. {} \in T
  <2>1. {} \in SUBSET S
    OBVIOUS
  <2>2. F[{}] = 0 /\ G[{}] = 0
    BY <1>3, <1>4, <2>1
  <2> QED BY <2>1, <2>2
<1>6. ASSUME NEW s \in SUBSET S, s # {}, s \ {Pick(s)} \in T PROVE s \in T
  <2>1. PICK y \in S : y = Pick(s) /\ y \in s
    BY <1>6, PickRest
  <2>2. F[s] = f[y] + F[s \ {y}] /\ G[s] = g[y] + G[s \ {y}]
    BY <1>3, <1>4, <1>6, <2>1
  <2>3. F[s \ {y}] \in Int /\ G[s \ {y}] = F[s \ {y}] + (IF x \in s \ {y} THEN g[x] - f[x] ELSE 0)
    BY <1>6, <2>1
  <2>4. CASE y = x
    BY <2>1, <2>2, <2>3, <2>4
  <2>5. CASE y # x
    BY <2>1, <2>2, <2>3, <2>5
  <2> QED BY <2>4, <2>5
<1> HIDE DEF T
<1>7. S \in T
  BY <1>5, <1>6, FoldInduction
<1> QED BY <1>1, <1>2, <1>7 DEF T

-----------------------------------------------------------------------------
(* Wallets *)

\* What it takes for a wallet to stay solvent: every key pays in advance and
\* keeps doing so, no wallet is shared by projects, no response costs more than
\* was frozen for it, and no wallet starts below its floor.
Prepaid ==
  /\ OptedIn = VirtualKeys /\ MaxToggles = 0
  /\ \A p, q \in Projects : WalletOf[p] = WalletOf[q] /\ WalletOf[p] # NoWallet => p = q
  /\ \A c \in Costs : c <= ReserveAmount
  /\ \A w \in Wallets : Credit[w] >= 0

\* The calls between a success and its settle.
Owing(r) ==
  \/ pc[r] = "settle"
  \/ pc[r] \in {"finish_attempt", "finish_log"} /\ plan[r] = "success"
  \/ pc[r] = "finish_log" /\ plan[r] = "completed"

\* A request that calls a provider pays, and one that owes has its reserve.
PayInv(r) ==
  /\ pc[r] \in {"reserve", "acquire", "start", "call", "stream"} => paid[r]
  /\ Owing(r) => reserve[r] = "pending"

\* No project's balance is below zero.
Covers == \A p \in Projects : WalletOf[p] # NoWallet => Available(p) >= 0

\* The inductive invariant behind WalletSolvent.
WalletInv ==
  /\ Prepaid
  /\ \A k \in VirtualKeys : optIn[k]
  /\ faults = 0 => Covers /\ \A r \in Requests : PayInv(r)

\* The requests whose reserve freezes the wallet.
Holding(w) == {r \in Requests : reserve[r] = "pending" /\ WalletFor(r) = w}

LEMMA HoldingFinite ==
  ASSUME NEW w
  PROVE  IsFiniteSet(Holding(w)) /\ Cardinality(Holding(w)) \in Nat /\ Frozen(w) \in Nat
<1>1. IsFiniteSet(Holding(w)) /\ Cardinality(Holding(w)) \in Nat
  BY LedgerAssumption, FS_Subset, FS_CardinalityType DEF Holding
<1>2. Frozen(w) = ReserveAmount * Cardinality(Holding(w))
  BY DEF Frozen, Holding
<1> QED BY <1>1, <1>2, LedgerAssumption

LEMMA Distributes == \A a, n \in Nat : a * (n + 1) = a * n + a /\ a * n \in Nat
OBVIOUS

\* A new reserve freezes its amount.
LEMMA FrozenMore ==
  ASSUME LedgerTypeOK, NEW r \in Requests, reserve[r] # "pending",
         reserve' = [reserve EXCEPT ![r] = "pending"], NEW w
  PROVE  Frozen(w)' = Frozen(w) + (IF WalletFor(r) = w THEN ReserveAmount ELSE 0)
<1>1. Frozen(w) = ReserveAmount * Cardinality(Holding(w)) /\ Frozen(w) \in Nat
  BY HoldingFinite DEF Frozen, Holding
<1>2. Frozen(w)' = ReserveAmount * Cardinality(Holding(w)')
  BY DEF Frozen, Holding, WalletFor
<1>3. CASE WalletFor(r) = w
  <2>1. Holding(w)' = Holding(w) \cup {r} /\ r \notin Holding(w)
    BY <1>3 DEF Holding, LedgerTypeOK, WalletFor
  <2>2. Cardinality(Holding(w)') = Cardinality(Holding(w)) + 1
    BY <2>1, HoldingFinite, FS_AddElement
  <2> QED BY <1>1, <1>2, <1>3, <2>2, HoldingFinite, Distributes, LedgerAssumption
<1>4. CASE WalletFor(r) # w
  <2>1. Holding(w)' = Holding(w)
    BY <1>4 DEF Holding, LedgerTypeOK, WalletFor
  <2> QED BY <1>1, <1>2, <1>4, <2>1
<1> QED BY <1>3, <1>4

\* A reserve that is reversed frees its amount.
LEMMA FrozenLess ==
  ASSUME LedgerTypeOK, NEW r \in Requests, reserve[r] = "pending",
         reserve' = [reserve EXCEPT ![r] = "reversed"], NEW w
  PROVE  Frozen(w)' = Frozen(w) - (IF WalletFor(r) = w THEN ReserveAmount ELSE 0)
<1>1. Frozen(w) = ReserveAmount * Cardinality(Holding(w)) /\ Frozen(w) \in Nat
  BY HoldingFinite DEF Frozen, Holding
<1>2. Frozen(w)' = ReserveAmount * Cardinality(Holding(w)')
  BY DEF Frozen, Holding, WalletFor
<1>3. CASE WalletFor(r) = w
  <2>1. Holding(w)' = Holding(w) \ {r} /\ r \in Holding(w)
    BY <1>3 DEF Holding, LedgerTypeOK, WalletFor
  <2>2. Cardinality(Holding(w)') = Cardinality(Holding(w)) - 1
    BY <2>1, HoldingFinite, FS_RemoveElement
  <2>3. Cardinality(Holding(w)') \in Nat
    BY <2>1, HoldingFinite, FS_Subset, FS_CardinalityType
  <2>4. Cardinality(Holding(w)) = Cardinality(Holding(w)') + 1
    BY <2>2, <2>3, HoldingFinite
  <2>5. ReserveAmount * (Cardinality(Holding(w)') + 1) =
          ReserveAmount * Cardinality(Holding(w)') + ReserveAmount
    BY <2>3, Distributes, LedgerAssumption
  <2>6. Frozen(w) = Frozen(w)' + ReserveAmount /\ Frozen(w)' \in Nat
    BY <1>1, <1>2, <2>3, <2>4, <2>5, Distributes, LedgerAssumption
  <2> QED BY <1>3, <2>6, LedgerAssumption
<1>4. CASE WalletFor(r) # w
  <2>1. Holding(w)' = Holding(w)
    BY <1>4 DEF Holding, LedgerTypeOK, WalletFor
  <2> QED BY <1>1, <1>2, <1>4, <2>1
<1> QED BY <1>3, <1>4

\* What a project has spent is a number, and changes with the rows of a request.
LEMMA NetSpendChange ==
  ASSUME LedgerTypeOK, LedgerTypeOK', NEW r \in Requests, NEW p,
         \A q \in Requests \ {r} : settle'[q] = settle[q] /\ refund'[q] = refund[q]
  PROVE  /\ NetSpend(p) \in Int
         /\ NetSpend(p)' = NetSpend(p) + (IF ProjectOf[r] = p
                                          THEN (settle'[r] - refund'[r]) - (settle[r] - refund[r])
                                          ELSE 0)
<1> DEFINE S == {q \in Requests : ProjectOf[q] = p}
           f == [q \in Requests |-> settle[q] - refund[q]]
           g == [q \in Requests |-> settle'[q] - refund'[q]]
<1>1. IsFiniteSet(S)
  BY LedgerAssumption, FS_Subset
<1>2. \A q \in S : f[q] \in Int /\ g[q] \in Int /\ (q # r => f[q] = g[q])
  BY DEF LedgerTypeOK
<1>3. NetSpend(p) = SumFunctionOnSet(f, S) /\ NetSpend(p)' = SumFunctionOnSet(g, S)
  BY DEF NetSpend
<1>4. f[r] = settle[r] - refund[r] /\ g[r] = settle'[r] - refund'[r] /\ (r \in S <=> ProjectOf[r] = p)
  OBVIOUS
<1> HIDE DEF S, f, g
<1>5. SumFunctionOnSet(f, S) \in Int
  BY <1>1, <1>2, SumType
<1>6. SumFunctionOnSet(g, S) = SumFunctionOnSet(f, S) + (IF r \in S THEN g[r] - f[r] ELSE 0)
  BY <1>1, <1>2, SumChange
<1> QED BY <1>3, <1>4, <1>5, <1>6

\* The balance of a project is made of numbers.
LEMMA AvailableType ==
  ASSUME LedgerTypeOK, NEW p \in Projects, WalletOf[p] # NoWallet
  PROVE  Credit[WalletOf[p]] \in Int /\ Frozen(WalletOf[p]) \in Nat /\ NetSpend(p) \in Int
<1>1. Credit[WalletOf[p]] \in Int
  BY LedgerAssumption
<1>2. Frozen(WalletOf[p]) \in Nat
  BY HoldingFinite
<1> DEFINE S == {q \in Requests : ProjectOf[q] = p}
           f == [q \in Requests |-> settle[q] - refund[q]]
<1>3. IsFiniteSet(S) /\ (\A q \in S : f[q] \in Int) /\ NetSpend(p) = SumFunctionOnSet(f, S)
  BY LedgerAssumption, FS_Subset DEF NetSpend, LedgerTypeOK
<1> HIDE DEF S, f
<1> QED BY <1>1, <1>2, <1>3, SumType

\* A reserve is inserted only when the balance covers it, and it is the balance
\* of the only project that selects the wallet.
LEMMA CoversReserve ==
  ASSUME LedgerTypeOK, LedgerTypeOK', Prepaid, Covers, NEW r \in Requests, InsertReserve(r)
  PROVE  Covers'
<1> SUFFICES ASSUME NEW p \in Projects, WalletOf[p] # NoWallet PROVE Available(p)' >= 0
  BY DEF Covers
<1>1. Available(p) >= 0 /\ Available(ProjectOf[r]) >= ReserveAmount
  BY DEF Covers, InsertReserve, ReserveApplies
<1>2. NetSpend(p)' = NetSpend(p)
  BY DEF NetSpend, InsertReserve
<1>3. Frozen(WalletOf[p])' = Frozen(WalletOf[p]) + (IF WalletFor(r) = WalletOf[p] THEN ReserveAmount ELSE 0)
  BY FrozenMore DEF InsertReserve, ReserveApplies
<1>4. WalletFor(r) = WalletOf[p] => ProjectOf[r] = p
  BY LedgerAssumption DEF Prepaid, WalletFor
<1>5. /\ Available(p) = Credit[WalletOf[p]] - Frozen(WalletOf[p]) - NetSpend(p)
      /\ Available(p)' = Credit[WalletOf[p]] - Frozen(WalletOf[p])' - NetSpend(p)'
  BY DEF Available
<1> QED BY <1>1, <1>2, <1>3, <1>4, <1>5, AvailableType, LedgerAssumption

\* A release frees the reserve or does nothing.
LEMMA CoversRelease ==
  ASSUME LedgerTypeOK, LedgerTypeOK', Covers, NEW r \in Requests, ReleaseReserve(r)
  PROVE  Covers'
<1> SUFFICES ASSUME NEW p \in Projects, WalletOf[p] # NoWallet PROVE Available(p)' >= 0
  BY DEF Covers
<1>1. Available(p) >= 0
  BY DEF Covers
<1>2. NetSpend(p)' = NetSpend(p)
  BY DEF NetSpend, ReleaseReserve
<1>3. Frozen(WalletOf[p])' <= Frozen(WalletOf[p]) /\ Frozen(WalletOf[p])' \in Int
  <2>1. CASE reserve[r] = "pending"
    <3>1. Frozen(WalletOf[p])' = Frozen(WalletOf[p]) - (IF WalletFor(r) = WalletOf[p] THEN ReserveAmount ELSE 0)
      BY <2>1, FrozenLess DEF ReleaseReserve, Reversed
    <3> QED BY <3>1, AvailableType, LedgerAssumption
  <2>2. CASE reserve[r] # "pending"
    <3>1. reserve' = reserve
      BY <2>2 DEF ReleaseReserve, Reversed, LedgerTypeOK
    <3>2. Frozen(WalletOf[p])' = Frozen(WalletOf[p])
      BY <3>1 DEF Frozen, WalletFor
    <3> QED BY <3>2, AvailableType
  <2> QED BY <2>1, <2>2
<1>4. /\ Available(p) = Credit[WalletOf[p]] - Frozen(WalletOf[p]) - NetSpend(p)
      /\ Available(p)' = Credit[WalletOf[p]] - Frozen(WalletOf[p])' - NetSpend(p)'
  BY DEF Available
<1> QED BY <1>1, <1>2, <1>3, <1>4, AvailableType

\* A settle frees what was frozen for the request and debits no more than that.
LEMMA CoversSettle ==
  ASSUME LedgerTypeOK, LedgerTypeOK', Prepaid, Covers, NEW r \in Requests,
         NEW c \in Nat, c <= ReserveAmount,
         reserve[r] = "pending", settle[r] = 0, InsertSettle(r, c)
  PROVE  Covers'
<1> SUFFICES ASSUME NEW p \in Projects, WalletOf[p] # NoWallet PROVE Available(p)' >= 0
  BY DEF Covers
<1>1. Available(p) >= 0
  BY DEF Covers
<1>2. settle' = [settle EXCEPT ![r] = c] /\ refund' = refund
  BY DEF InsertSettle
<1>3. NetSpend(p)' = NetSpend(p) + (IF ProjectOf[r] = p THEN c ELSE 0)
  <2>1. \A q \in Requests \ {r} : settle'[q] = settle[q] /\ refund'[q] = refund[q]
    BY <1>2 DEF LedgerTypeOK
  <2>2. NetSpend(p)' = NetSpend(p) + (IF ProjectOf[r] = p
                                      THEN (settle'[r] - refund'[r]) - (settle[r] - refund[r])
                                      ELSE 0)
    BY <2>1, NetSpendChange
  <2>3. (settle'[r] - refund'[r]) - (settle[r] - refund[r]) = c
    BY <1>2 DEF LedgerTypeOK
  <2> QED BY <2>2, <2>3
<1>4. Frozen(WalletOf[p])' = Frozen(WalletOf[p]) - (IF WalletFor(r) = WalletOf[p] THEN ReserveAmount ELSE 0)
  BY FrozenLess DEF InsertSettle, Reversed
<1>5. ProjectOf[r] = p => WalletFor(r) = WalletOf[p]
  BY DEF WalletFor
<1>6. /\ Available(p) = Credit[WalletOf[p]] - Frozen(WalletOf[p]) - NetSpend(p)
      /\ Available(p)' = Credit[WalletOf[p]] - Frozen(WalletOf[p])' - NetSpend(p)'
  BY DEF Available
<1> QED BY <1>1, <1>3, <1>4, <1>5, <1>6, AvailableType, LedgerAssumption

\* A refund gives back what was settled.
LEMMA CoversRefund ==
  ASSUME LedgerTypeOK, LedgerTypeOK', Covers, NEW r \in Requests,
         refund[r] \in {0, settle[r]}, InsertRefund(r)
  PROVE  Covers'
<1> SUFFICES ASSUME NEW p \in Projects, WalletOf[p] # NoWallet PROVE Available(p)' >= 0
  BY DEF Covers
<1>1. Available(p) >= 0
  BY DEF Covers
<1>2. refund' = [refund EXCEPT ![r] = settle[r]] /\ settle' = settle /\ reserve' = reserve
  BY DEF InsertRefund
<1>3. NetSpend(p)' <= NetSpend(p) /\ NetSpend(p)' \in Int
  <2>1. \A q \in Requests \ {r} : settle'[q] = settle[q] /\ refund'[q] = refund[q]
    BY <1>2 DEF LedgerTypeOK
  <2>2. NetSpend(p)' = NetSpend(p) + (IF ProjectOf[r] = p
                                      THEN (settle'[r] - refund'[r]) - (settle[r] - refund[r])
                                      ELSE 0)
    BY <2>1, NetSpendChange
  <2>3. /\ (settle'[r] - refund'[r]) - (settle[r] - refund[r]) \in Int
        /\ (settle'[r] - refund'[r]) - (settle[r] - refund[r]) <= 0
    BY <1>2 DEF LedgerTypeOK
  <2> QED BY <2>2, <2>3, AvailableType
<1>4. Frozen(WalletOf[p])' = Frozen(WalletOf[p])
  BY <1>2 DEF Frozen, WalletFor
<1>5. /\ Available(p) = Credit[WalletOf[p]] - Frozen(WalletOf[p]) - NetSpend(p)
      /\ Available(p)' = Credit[WalletOf[p]] - Frozen(WalletOf[p])' - NetSpend(p)'
  BY DEF Available
<1> QED BY <1>1, <1>3, <1>4, <1>5, AvailableType

\* A step of a request keeps PayInv for it.
LEMMA PayOwnStep ==
  ASSUME TypeOK, NEW r \in Requests, RequestInv(r), DoneInv(r), PayInv(r), optIn[KeyOf[r]],
         Step(r), faults = 0, faults' = 0
  PROVE  PayInv(r)'
<1> USE DEF TypeOK, LedgerTypeOK, ControlTypeOK, HandlerTypeOK, PayInv, Owing, Goto, Proceed, Close
<1>0. ~Fault
  BY DEF Fault
<1>1. CASE Arrive(r) \/ RefuseEarly(r) \/ Gate(r) \/ NextRoute(r)
  BY <1>0, <1>1 DEF Arrive, RefuseEarly, Gate, NextRoute, ledgerVars
<1>2. CASE PreAuthorize(r)
  <2>1. paid' = [paid EXCEPT ![r] = TRUE]
    BY <1>0, <1>2 DEF PreAuthorize, ReadOptIn
  <2>2. \/ pc'[r] \in {"gate_reserve", "slot", "reserve", "acquire"}
        \/ pc'[r] = "finish_log" /\ plan'[r] = "abort"
    <3>1. PICK b \in BOOLEAN : Proceed(r, Allowed(r, b)) \/ Abort(r)
      BY <1>2 DEF PreAuthorize
    <3>2. Allowed(r, b) \in {"gate_reserve", "slot", "reserve", "acquire"}
      BY DEF Allowed
    <3> QED BY <3>1, <3>2 DEF Abort
  <2>3. paid'[r]
    BY <2>1
  <2> QED BY <2>2, <2>3
<1>3. CASE Reserve(r)
  BY <1>3 DEF Reserve, InsertReserve, Abort, ledgerVars
<1>4. CASE AcquireSlot(r) \/ AcquireWindows(r)
  BY <1>4 DEF AcquireSlot, AcquireWindows, Abort, ledgerVars
<1>5. CASE AcquireLease(r)
  BY <1>5 DEF AcquireLease, Abort, ledgerVars
<1>6. CASE StartAttempt(r) \/ AttemptFails(r)
  BY <1>6 DEF StartAttempt, AttemptFails, ledgerVars
<1>7. CASE Respond(r)
  BY <1>7 DEF Respond, RequestInv, PaidInv, ledgerVars
<1>8. CASE OpenStream(r) \/ ForwardEvent(r)
  BY <1>8 DEF OpenStream, ForwardEvent, ledgerVars
<1>9. CASE StreamEnds(r)
  BY <1>9 DEF StreamEnds, RequestInv, PaidInv, ledgerVars
<1>10. CASE DropBody(r)
  BY <1>10 DEF DropBody, ledgerVars
<1>11. CASE ReleaseLease(r)
  BY <1>11 DEF ReleaseLease, DoneInv, After, Advance, ledgerVars
<1>12. CASE FinishAttempt(r)
  BY <1>12 DEF FinishAttempt, After, Advance, ledgerVars
<1>13. CASE FinishLog(r)
  BY <1>13 DEF FinishLog, RequestInv, ClosingInv, ClosingSteps, Plans, After, Advance, ledgerVars
<1>14. CASE ReleaseSlot(r)
  BY <1>14 DEF ReleaseSlot, After, Advance, ledgerVars
<1>15. CASE ReturnReserve(r)
  BY <1>15 DEF ReturnReserve, RequestInv, ClosingInv, After, Advance
<1>16. CASE Settle(r)
  BY <1>16 DEF Settle, RequestInv, ClosingInv, After, Advance
<1>17. CASE Disconnect(r)
  BY <1>17 DEF Disconnect, ledgerVars
<1>18. CASE RefundSettled(r)
  BY <1>18 DEF RefundSettled, InsertRefund, handlerVars
<1> QED
  BY <1>1, <1>2, <1>3, <1>4, <1>5, <1>6, <1>7, <1>8, <1>9, <1>10, <1>11, <1>12, <1>13, <1>14, <1>15, <1>16, <1>17, <1>18 DEF Step, Progress

\* PayInv is inductive as long as every key pays and no call fails.
LEMMA PayStep ==
  ASSUME TypeOK, ChargeInv, DoneInvs, WalletInv, [Next]_vars, faults = 0, faults' = 0,
         NEW r \in Requests
  PROVE  PayInv(r)'
<1>1. PayInv(r) /\ DoneInv(r) /\ RequestInv(r) /\ optIn[KeyOf[r]]
  BY GatewayAssumption
     DEF WalletInv, DoneInvs, RequestInv, PaidInv, ChargeInv, PaidCallIsReserved
<1>2. ASSUME NEW q \in Requests, Step(q) PROVE PayInv(r)'
  <2>1. CASE q = r
    BY <1>1, <1>2, <2>1, PayOwnStep
  <2>2. CASE q # r
    BY <1>1, <1>2, <2>2, OthersUntouched DEF View, PayInv, Owing
  <2> QED BY <2>1, <2>2
<1>3. CASE Crash
  <2>1. /\ pc'[r] \in {pc[r], "dead"}
        /\ pc'[r] = pc[r] => pc[r] \in {"idle", "done", "dead"}
    BY <1>3 DEF Crash, TypeOK, ControlTypeOK
  <2> QED BY <1>1, <2>1 DEF PayInv, Owing
<1>4. CASE UNCHANGED <<handlerVars, ledgerVars>>
  BY <1>1, <1>4 DEF PayInv, Owing, handlerVars, ledgerVars
<1> QED BY <1>2, <1>3, <1>4 DEF Next, ToggleOptIn, vars

\* Covers is inductive under the same conditions.
LEMMA CoversStep ==
  ASSUME TypeOK, TypeOK', ChargeInv, WalletInv, [Next]_vars, faults = 0, faults' = 0
  PROVE  Covers'
<1>1. Prepaid /\ Covers /\ LedgerTypeOK /\ LedgerTypeOK'
  BY DEF WalletInv, TypeOK
<1>2. CASE UNCHANGED ledgerVars
  <2>1. \A p \in Projects : Available(p)' = Available(p)
    BY <1>2 DEF Available, Frozen, NetSpend, WalletFor, ledgerVars
  <2> QED BY <1>1, <2>1 DEF Covers
<1>3. ASSUME NEW r \in Requests, Reserve(r), ~UNCHANGED ledgerVars PROVE Covers'
  BY <1>1, <1>3, CoversReserve DEF Reserve
<1>4. ASSUME NEW r \in Requests, ReturnReserve(r), ~UNCHANGED ledgerVars PROVE Covers'
  BY <1>1, <1>4, CoversRelease DEF ReturnReserve
<1>5. ASSUME NEW r \in Requests, Settle(r), ~UNCHANGED ledgerVars PROVE Covers'
  <2>1. InsertSettle(r, cost[r]) /\ pc[r] = "settle"
    BY <1>5 DEF Settle
  <2>2. reserve[r] = "pending"
    BY <2>1 DEF WalletInv, PayInv, Owing
  <2>3. settle[r] = 0 /\ cost[r] \in Costs \cup {0}
    BY <1>1, <2>1 DEF ChargeInv, MoneyInv, LedgerTypeOK
  <2>4. cost[r] \in Nat /\ cost[r] <= ReserveAmount
    <3>1. \A c \in Costs \cup {0} : c \in Nat /\ c <= ReserveAmount
      BY <1>1, LedgerAssumption, GatewayAssumption DEF Prepaid
    <3> QED BY <2>3, <3>1
  <2> QED BY <1>1, <2>1, <2>2, <2>3, <2>4, CoversSettle
<1>6. ASSUME NEW r \in Requests, RefundSettled(r) PROVE Covers'
  <2>1. refund[r] \in {0, settle[r]}
    BY DEF ChargeInv, MoneyInv
  <2> QED BY <1>1, <1>6, <2>1, CoversRefund DEF RefundSettled
<1> QED
  BY <1>2, <1>3, <1>4, <1>5, <1>6
     DEF Next, Step, Progress, vars, Arrive, RefuseEarly, Gate, PreAuthorize,
         AcquireSlot, AcquireWindows, NextRoute, AcquireLease, StartAttempt, Respond, OpenStream,
         AttemptFails, ReleaseLease, FinishAttempt, FinishLog, ReleaseSlot, ForwardEvent, StreamEnds,
         DropBody, Disconnect, ToggleOptIn, Crash

\* Nobody changes an opt-in.
LEMMA OptInStep ==
  ASSUME TypeOK, WalletInv, [Next]_vars
  PROVE  optIn' = optIn
<1>1. ~(toggles < MaxToggles)
  BY DEF TypeOK, EnvTypeOK, WalletInv, Prepaid
<1> QED
  BY <1>1
     DEF Next, Step, Progress, vars, envVars, Arrive, RefuseEarly, Gate, PreAuthorize, Reserve,
         AcquireSlot, AcquireWindows, NextRoute, AcquireLease, StartAttempt, Respond, OpenStream,
         AttemptFails, ReleaseLease, FinishAttempt, FinishLog, ReturnReserve, Settle, ReleaseSlot,
         ForwardEvent, StreamEnds, DropBody, Disconnect, RefundSettled, ToggleOptIn, Crash

\* WalletInv is inductive together with the invariants before it.
LEMMA WalletStep ==
  ASSUME TypeOK, TypeOK', ChargeInv, DoneInvs, WalletInv, [Next]_vars
  PROVE  WalletInv'
<1>1. Prepaid' /\ \A k \in VirtualKeys : optIn'[k]
  BY OptInStep DEF WalletInv, Prepaid
<1>2. ASSUME faults' = 0 PROVE Covers' /\ \A r \in Requests : PayInv(r)'
  BY <1>2, EnvGrows, CoversStep, PayStep
<1> QED BY <1>1, <1>2 DEF WalletInv

\* A sum of zeros is zero.
LEMMA SumZero ==
  ASSUME NEW S, IsFiniteSet(S), NEW f, \A x \in S : f[x] = 0
  PROVE  SumFunctionOnSet(f, S) = 0
<1>1. PICK g : PartialSums(g, f, SUBSET S) /\ SumFunctionOnSet(f, S) = g[S]
  BY SumIsPartialSum
<1> DEFINE T == {s \in SUBSET S : g[s] = 0}
<1>2. \A s \in SUBSET S : g[s] = IF s = {} THEN 0 ELSE f[Pick(s)] + g[s \ {Pick(s)}]
  BY <1>1 DEF PartialSums
<1>3. {} \in T
  <2>1. {} \in SUBSET S
    OBVIOUS
  <2> QED BY <1>2, <2>1
<1>4. ASSUME NEW s \in SUBSET S, s # {}, s \ {Pick(s)} \in T PROVE s \in T
  <2>1. f[Pick(s)] = 0
    BY <1>4, PickRest
  <2>2. g[s] = f[Pick(s)] + g[s \ {Pick(s)}]
    BY <1>2, <1>4
  <2> QED BY <1>4, <2>1, <2>2
<1> HIDE DEF T
<1>5. S \in T
  BY <1>3, <1>4, FoldInduction
<1> QED BY <1>1, <1>5 DEF T

\* Before the first request every project has its whole credit.
LEMMA WalletInit == ASSUME Prepaid, Init PROVE WalletInv
<1>1. \A k \in VirtualKeys : optIn[k]
  BY DEF Init, Prepaid
<1>2. ASSUME NEW r \in Requests PROVE PayInv(r)
  BY DEF Init, PayInv, Owing
<1>3. ASSUME NEW p \in Projects, WalletOf[p] # NoWallet PROVE Available(p) >= 0
  <2>1. Frozen(WalletOf[p]) = 0
    <3>1. Holding(WalletOf[p]) = {}
      BY DEF Init, LedgerInit, Holding
    <3>2. Cardinality(Holding(WalletOf[p])) = 0
      BY <3>1, FS_EmptySet
    <3>3. Frozen(WalletOf[p]) = ReserveAmount * Cardinality(Holding(WalletOf[p]))
      BY DEF Frozen, Holding
    <3> QED BY <3>2, <3>3, LedgerAssumption
  <2>2. NetSpend(p) = 0
    <3> DEFINE S == {q \in Requests : ProjectOf[q] = p}
               f == [q \in Requests |-> settle[q] - refund[q]]
    <3>1. IsFiniteSet(S) /\ (\A q \in S : f[q] = 0) /\ NetSpend(p) = SumFunctionOnSet(f, S)
      BY LedgerAssumption, FS_Subset DEF NetSpend, Init, LedgerInit
    <3> HIDE DEF S, f
    <3> QED BY <3>1, SumZero
  <2>3. Credit[WalletOf[p]] \in Int /\ Credit[WalletOf[p]] >= 0
    BY <1>3, LedgerAssumption DEF Prepaid
  <2> QED BY <2>1, <2>2, <2>3 DEF Available
<1> QED BY <1>1, <1>2, <1>3 DEF WalletInv, Covers

\* The one project of a wallet has the wallet's whole balance.
LEMMA CoveredIsSolvent ==
  ASSUME TypeOK, WalletInv, faults = 0, NEW w \in Wallets
  PROVE  Credit[w] - Frozen(w) >=
           SumFunctionOnSet([p \in Projects |-> NetSpend(p)], {p \in Projects : WalletOf[p] = w})
<1> DEFINE f == [p \in Projects |-> NetSpend(p)]
           S == {p \in Projects : WalletOf[p] = w}
<1>1. Prepaid /\ Covers /\ w # NoWallet /\ Credit[w] \in Int /\ Credit[w] >= 0
  BY LedgerAssumption DEF WalletInv, Prepaid
<1>2. CASE S = {}
  <2>1. Holding(w) = {}
    BY <1>2, LedgerAssumption DEF Holding, WalletFor
  <2>2. Cardinality(Holding(w)) = 0
    BY <2>1, FS_EmptySet
  <2>3. Frozen(w) = ReserveAmount * Cardinality(Holding(w))
    BY DEF Frozen, Holding
  <2>4. Frozen(w) = 0
    BY <2>2, <2>3, LedgerAssumption
  <2>5. SumFunctionOnSet(f, S) = 0
    BY <1>2, SumZero, FS_EmptySet
  <2> QED BY <1>1, <2>4, <2>5
<1>3. CASE S # {}
  <2>1. PICK p \in S : S = {p}
    BY <1>1, <1>3 DEF Prepaid
  <2>2. NetSpend(p) \in Int /\ Frozen(w) \in Nat /\ f[p] = NetSpend(p)
    BY <1>1, <2>1, AvailableType DEF TypeOK
  <2>3. Credit[w] - Frozen(w) - NetSpend(p) >= 0
    BY <1>1, <2>1 DEF Covers, Available
  <2> HIDE DEF f, S
  <2>4. SumFunctionOnSet(f, S) = NetSpend(p)
    BY <2>1, <2>2, SumSmall
  <2> QED BY <1>1, <2>2, <2>3, <2>4 DEF f, S
<1> QED BY <1>2, <1>3

\* However many requests, streams, refunds, disconnects and crashes interleave,
\* prepaid requests never overdraw the wallet of their project: what is frozen
\* and what was charged never exceed its credit.
THEOREM WalletsStaySolvent == Prepaid => (Spec => []WalletSolvent)
<1>1. Prepaid /\ Init => WalletInv
  BY WalletInit
<1>2. TypeOK /\ TypeOK' /\ ChargeInv /\ DoneInvs /\ WalletInv /\ [Next]_vars => WalletInv'
  BY WalletStep
<1>3. TypeOK /\ WalletInv => WalletSolvent
  BY CoveredIsSolvent DEF WalletSolvent
<1> QED BY <1>1, <1>2, <1>3, TypeCorrect, ChargeInvariant, DoneInvariant, PTL DEF Spec
=============================================================================
