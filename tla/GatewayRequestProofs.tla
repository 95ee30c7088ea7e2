------------------------ MODULE GatewayRequestProofs ------------------------
(***************************************************************************)
(* Theorems about GatewayRequest for any number of requests, keys, routes, *)
(* faults, disconnects and opt-in changes.                                 *)
(***************************************************************************)
EXTENDS GatewayRequest, FiniteSetTheorems, TLAPS

-----------------------------------------------------------------------------
(* Types: one lemma per group of variables, with a step for each action that *)
(* writes the group and one for the others, which leave it unchanged         *)

\* Every variable starts with a value of its type.
LEMMA TypeInit == Init => TypeOK
BY LedgerAssumption, GatewayAssumption
   DEF Init, TypeOK, LedgerInit, LedgerTypeOK, ControlTypeOK, HandlerTypeOK, StreamTypeOK, RowTypeOK,
       EnvTypeOK, ReserveStatus, Plans, Control, Status, TerminalKinds

\* The closing sequences only name control points of the handler.
LEMMA AfterType == ASSUME NEW p, NEW call PROVE After(p, call) \in Control
BY DEF After, Control, ClosingSteps, Calls

\* The ledger is written by the reserve, its release, the settle and the refund.
LEMMA LedgerTypeStep ==
  ASSUME TypeOK, [Next]_vars
  PROVE  LedgerTypeOK'
<1> USE DEF TypeOK, LedgerTypeOK
<1>1. ASSUME NEW r \in Requests, Reserve(r) PROVE LedgerTypeOK'
  BY <1>1 DEF Reserve, InsertReserve, ReserveStatus, ledgerVars
<1>2. ASSUME NEW r \in Requests, ReturnReserve(r) PROVE LedgerTypeOK'
  BY <1>2 DEF ReturnReserve, ReleaseReserve, Reversed, ReserveStatus, ledgerVars
<1>3. ASSUME NEW r \in Requests, Settle(r) PROVE LedgerTypeOK'
  <2>1. cost[r] \in Nat
    BY DEF HandlerTypeOK
  <2>2. CASE UNCHANGED ledgerVars
    BY <2>2 DEF ledgerVars
  <2>3. CASE InsertSettle(r, cost[r])
    BY <2>1, <2>3 DEF InsertSettle, Reversed, ReserveStatus
  <2> QED BY <1>3, <2>2, <2>3 DEF Settle
<1>4. ASSUME NEW r \in Requests, RefundSettled(r) PROVE LedgerTypeOK'
  BY <1>4 DEF RefundSettled, InsertRefund
<1>5. CASE UNCHANGED ledgerVars
  BY <1>5 DEF ledgerVars
<1> QED
  BY <1>1, <1>2, <1>3, <1>4, <1>5
     DEF Next, Step, Progress, vars, Arrive, RefuseEarly, Gate, PreAuthorize, AcquireSlot,
         AcquireWindows, NextRoute, AcquireLease, StartAttempt, Respond, OpenStream, AttemptFails,
         ReleaseLease, FinishAttempt, FinishLog, ReleaseSlot, ForwardEvent, StreamEnds, DropBody,
         Disconnect, ToggleOptIn, Crash

\* A handler goes on, follows a closing sequence, enters one, or is dropped.
LEMMA ControlTypeStep ==
  ASSUME TypeOK, [Next]_vars
  PROVE  ControlTypeOK'
<1> USE DEF TypeOK, ControlTypeOK
<1> DEFINE Went(r) == \E call \in Control : Proceed(r, call)
           Closed(r) == \E p \in Plans, call \in Control, status \in Status : Close(r, p, call, status)
<1>1. ASSUME NEW r \in Requests, Went(r) PROVE ControlTypeOK'
  BY <1>1 DEF Proceed, Goto
<1>2. ASSUME NEW r \in Requests, Closed(r) PROVE ControlTypeOK'
  BY <1>2 DEF Close, Goto
<1>3. ASSUME NEW r \in Requests, Advance(r) PROVE ControlTypeOK'
  BY <1>3, AfterType DEF Advance, Goto
<1>4. ASSUME NEW r \in Requests, Step(r)
      PROVE  Went(r) \/ Closed(r) \/ Advance(r) \/ UNCHANGED <<pc, plan, outcome>>
  <2> USE <1>4 DEF Control, Calls, ClosingSteps, Plans, Status
  <2>1. CASE Arrive(r) \/ RefuseEarly(r) \/ Gate(r) \/ NextRoute(r) \/ OpenStream(r) \/ Disconnect(r)
    BY <2>1 DEF Arrive, RefuseEarly, Gate, NextRoute, OpenStream, Disconnect, Proceed
  <2>2. CASE PreAuthorize(r) \/ Reserve(r) \/ AcquireSlot(r) \/ AcquireWindows(r) \/ AcquireLease(r)
    BY <2>2 DEF PreAuthorize, Reserve, AcquireSlot, AcquireWindows, AcquireLease, Abort, Allowed
  <2>3. CASE StartAttempt(r) \/ Respond(r) \/ AttemptFails(r) \/ StreamEnds(r) \/ DropBody(r)
    BY <2>3 DEF StartAttempt, Respond, AttemptFails, StreamEnds, DropBody
  <2> QED
    BY <2>1, <2>2, <2>3
       DEF Step, Progress, ReleaseLease, FinishAttempt, FinishLog, ReturnReserve, Settle, ReleaseSlot,
           ForwardEvent, RefundSettled, handlerVars
<1>5. CASE Crash
  BY <1>5 DEF Crash, Control
<1>6. CASE UNCHANGED <<pc, plan, outcome>>
  BY <1>6
<1> QED
  BY <1>1, <1>2, <1>3, <1>4, <1>5, <1>6 DEF Next, ToggleOptIn, vars, handlerVars

\* The attempt's own variables.
LEMMA HandlerTypeStep ==
  ASSUME TypeOK, [Next]_vars
  PROVE  HandlerTypeOK'
<1> USE DEF TypeOK, HandlerTypeOK
<1>1. ASSUME NEW r \in Requests, Arrive(r) PROVE HandlerTypeOK'
  <2>1. \A c \in SUBSET ProviderKeys : AttemptRoutes(c) \in SUBSET ProviderKeys
    BY DEF AttemptRoutes, Selectable
  <2> QED BY <1>1, <2>1 DEF Arrive
<1>2. ASSUME NEW r \in Requests, PreAuthorize(r) PROVE HandlerTypeOK'
  BY <1>2 DEF PreAuthorize
<1>3. ASSUME NEW r \in Requests, AcquireSlot(r) PROVE HandlerTypeOK'
  BY <1>3 DEF AcquireSlot
<1>4. ASSUME NEW r \in Requests, NextRoute(r) PROVE HandlerTypeOK'
  BY <1>4 DEF NextRoute
<1>5. ASSUME NEW r \in Requests, AcquireLease(r) \/ ReleaseLease(r) PROVE HandlerTypeOK'
  BY <1>5 DEF AcquireLease, ReleaseLease
<1>6. ASSUME NEW r \in Requests, Respond(r) \/ StreamEnds(r) PROVE HandlerTypeOK'
  <2>1. \A c \in Costs \cup {0} : [cost EXCEPT ![r] = c] \in [Requests -> Nat]
    BY GatewayAssumption
  <2>2. cost' \in [Requests -> Nat]
    BY <1>6, <2>1 DEF Respond, StreamEnds
  <2> QED BY <1>6, <2>2 DEF Respond, StreamEnds
<1>7. CASE UNCHANGED <<left, route, paid, acquired, lease, cost>>
  BY <1>7
<1> QED
  BY <1>1, <1>2, <1>3, <1>4, <1>5, <1>6, <1>7
     DEF Next, Step, Progress, vars, handlerVars, RefuseEarly, Gate, Reserve, AcquireWindows,
         StartAttempt, OpenStream, AttemptFails, FinishAttempt, FinishLog, ReturnReserve, Settle,
         ReleaseSlot, ForwardEvent, DropBody, Disconnect, RefundSettled, ToggleOptIn, Crash

\* The state of a stream.
LEMMA StreamTypeStep ==
  ASSUME TypeOK, [Next]_vars
  PROVE  StreamTypeOK'
<1> USE DEF TypeOK, StreamTypeOK
<1>1. ASSUME NEW r \in Requests, OpenStream(r) \/ ForwardEvent(r) PROVE StreamTypeOK'
  BY <1>1 DEF OpenStream, ForwardEvent
<1>2. ASSUME NEW r \in Requests, StreamEnds(r) \/ DropBody(r) PROVE StreamTypeOK'
  BY <1>2 DEF StreamEnds, DropBody
<1>3. CASE Crash
  BY <1>3 DEF Crash
<1>4. CASE UNCHANGED streamVars
  BY <1>4 DEF streamVars
<1> QED
  BY <1>1, <1>2, <1>3, <1>4
     DEF Next, Step, Progress, vars, handlerVars, Arrive, RefuseEarly, Gate, PreAuthorize, Reserve,
         AcquireSlot, AcquireWindows, NextRoute, AcquireLease, StartAttempt, Respond, AttemptFails,
         ReleaseLease, FinishAttempt, FinishLog, ReturnReserve, Settle, ReleaseSlot, Disconnect,
         RefundSettled, ToggleOptIn

\* The rows of the request log, the attempts and the two concurrency counters.
LEMMA RowTypeStep ==
  ASSUME TypeOK, [Next]_vars
  PROVE  RowTypeOK'
<1> USE DEF TypeOK, RowTypeOK
<1>1. ASSUME NEW r \in Requests, Arrive(r) \/ RefuseEarly(r) PROVE RowTypeOK'
  BY <1>1 DEF Arrive, RefuseEarly, Status
<1>2. ASSUME NEW r \in Requests, AcquireSlot(r) PROVE RowTypeOK'
  <2>1. vkUsed' \in [VirtualKeys -> Nat]
    BY <1>2 DEF AcquireSlot
  <2> QED BY <1>2, <2>1 DEF AcquireSlot
<1>3. ASSUME NEW r \in Requests, AcquireLease(r) PROVE RowTypeOK'
  <2>1. pkUsed' \in [ProviderKeys -> Nat]
    BY <1>3 DEF AcquireLease
  <2> QED BY <1>3, <2>1 DEF AcquireLease
<1>4. ASSUME NEW r \in Requests, ReleaseLease(r) \/ ReleaseSlot(r) PROVE RowTypeOK'
  BY <1>4 DEF ReleaseLease, ReleaseSlot, Decrement
<1>5. ASSUME NEW r \in Requests, StartAttempt(r) \/ FinishAttempt(r) PROVE RowTypeOK'
  <2>1. \A status \in Status :
          [attempts EXCEPT ![r][route[r]] = status] \in [Requests -> [ProviderKeys -> Status]]
    OBVIOUS
  <2>2. "started" \in Status /\ "failed" \in Status /\ outcome[r] \in Status
    BY DEF ControlTypeOK, Status
  <2>3. attempts' \in [Requests -> [ProviderKeys -> Status]]
    BY <1>5, <2>1, <2>2 DEF StartAttempt, FinishAttempt
  <2> QED BY <1>5, <2>3 DEF StartAttempt, FinishAttempt
<1>6. ASSUME NEW r \in Requests, FinishLog(r) PROVE RowTypeOK'
  BY <1>6 DEF FinishLog, ControlTypeOK
<1>7. CASE UNCHANGED rowVars
  BY <1>7 DEF rowVars
<1> QED
  BY <1>1, <1>2, <1>3, <1>4, <1>5, <1>6, <1>7
     DEF Next, Step, Progress, vars, Gate, PreAuthorize, Reserve, AcquireWindows, NextRoute, Respond,
         OpenStream, AttemptFails, ReturnReserve, Settle, ForwardEvent, StreamEnds, DropBody,
         Disconnect, RefundSettled, ToggleOptIn, Crash

\* The environment: each bound is respected.
LEMMA EnvTypeStep ==
  ASSUME TypeOK, [Next]_vars
  PROVE  EnvTypeOK'
<1> USE GatewayAssumption DEF TypeOK, EnvTypeOK
<1>1. CASE (NoFault \/ Fault) /\ UNCHANGED <<drops, toggles, optIn>>
  BY <1>1 DEF NoFault, Fault
<1>2. CASE drops < MaxDrops /\ drops' = drops + 1 /\ UNCHANGED <<faults, toggles, optIn>>
  BY <1>2
<1>3. ASSUME NEW k \in VirtualKeys, ToggleOptIn(k) PROVE EnvTypeOK'
  BY <1>3 DEF ToggleOptIn
<1>4. CASE UNCHANGED envVars
  BY <1>4 DEF envVars
<1> QED
  BY <1>1, <1>2, <1>3, <1>4
     DEF Next, Step, Progress, vars, Arrive, RefuseEarly, Gate, ReadOptIn, PreAuthorize, Reserve,
         AcquireSlot, AcquireWindows, NextRoute, AcquireLease, StartAttempt, Respond, OpenStream,
         AttemptFails, ReleaseLease, FinishAttempt, FinishLog, ReturnReserve, Settle, ReleaseSlot,
         ForwardEvent, StreamEnds, DropBody, Disconnect, RefundSettled, Crash

\* TypeOK is an invariant: whatever calls fail and whoever is dropped, no
\* counter, ledger amount or control point leaves its type.
THEOREM TypeCorrect == Spec => []TypeOK
<1>1. TypeOK /\ [Next]_vars => TypeOK'
  BY LedgerTypeStep, ControlTypeStep, HandlerTypeStep, StreamTypeStep, RowTypeStep, EnvTypeStep
     DEF TypeOK
<1> QED BY TypeInit, <1>1, PTL DEF Spec
=============================================================================
