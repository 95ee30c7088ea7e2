--------------------------- MODULE CapacityProofs ---------------------------
(***************************************************************************)
(* The concurrency counters of virtual keys and of provider keys against   *)
(* the requests that hold a slot or a lease.                               *)
(***************************************************************************)
EXTENDS ChargeProofs

-----------------------------------------------------------------------------
(* Slots of virtual keys *)

\* A request has no slot before it asks for one.
NoSlotYet ==
  \A r \in Requests :
    pc[r] \in {"idle", "gate", "gate_authorize", "gate_reserve", "slot"} => ~acquired[r]

\* The slot part of the model's safety: no holder is missing from its counter.
SlotInv == NoSlotYet /\ SlotsCounted /\ SlotsReturned

\* The sets of holders are finite.
LEMMA HoldersFinite ==
  ASSUME NEW k
  PROVE  /\ IsFiniteSet(SlotHolders(k)) /\ Cardinality(SlotHolders(k)) \in Nat
         /\ IsFiniteSet(SlotHolders(k))' /\ Cardinality(SlotHolders(k))' \in Nat
BY LedgerAssumption, FS_Subset, FS_CardinalityType DEF SlotHolders

LEMMA SlotInit == ASSUME Init PROVE SlotInv
<1>1. \A k \in VirtualKeys : SlotHolders(k) = {}
  BY DEF Init, SlotHolders, InFlight
<1>2. \A k \in VirtualKeys : Cardinality(SlotHolders(k)) = 0
  BY <1>1, FS_EmptySet
<1> QED
  BY <1>1, <1>2, GatewayAssumption DEF Init, SlotInv, NoSlotYet, SlotsCounted, SlotsReturned

\* Only AcquireSlot gives a slot, and nothing leads back to where none is held.
LEMMA NoSlotYetStep ==
  ASSUME TypeOK, NoSlotYet, [Next]_vars
  PROVE  NoSlotYet'
<1> USE DEF TypeOK, ControlTypeOK, HandlerTypeOK, NoSlotYet
<1>1. ASSUME NEW r \in Requests, Step(r) PROVE NoSlotYet'
  <2> USE <1>1 DEF Goto, Proceed, Close, Abort
  <2>1. CASE AcquireSlot(r)
    BY <2>1 DEF AcquireSlot
  <2>2. CASE Arrive(r) \/ RefuseEarly(r) \/ Gate(r) \/ PreAuthorize(r) \/ Reserve(r)
    BY <2>2 DEF Arrive, RefuseEarly, Gate, PreAuthorize, Reserve, Allowed
  <2>3. CASE \/ AcquireWindows(r) \/ NextRoute(r) \/ AcquireLease(r) \/ StartAttempt(r) \/ Respond(r)
             \/ OpenStream(r) \/ AttemptFails(r) \/ StreamEnds(r) \/ DropBody(r) \/ Disconnect(r)
    BY <2>3 DEF AcquireWindows, NextRoute, AcquireLease, StartAttempt, Respond, OpenStream,
                AttemptFails, StreamEnds, DropBody, Disconnect
  <2>4. CASE Advance(r) /\ UNCHANGED acquired
    BY <2>4 DEF Advance, After
  <2>5. CASE UNCHANGED handlerVars \/ UNCHANGED <<pc, acquired>>
    BY <2>5 DEF handlerVars
  <2> QED
    BY <2>1, <2>2, <2>3, <2>4, <2>5
       DEF Step, Progress, ReleaseLease, FinishAttempt, FinishLog, ReturnReserve, Settle, ReleaseSlot,
           ForwardEvent, RefundSettled
<1>2. CASE Crash
  BY <1>2 DEF Crash
<1>3. CASE UNCHANGED handlerVars
  BY <1>3 DEF handlerVars
<1> QED BY <1>1, <1>2, <1>3 DEF Next, ToggleOptIn, vars

\* What a step does to the holders of a virtual key: a granted request joins
\* them, a released or dropped one leaves them.
SlotTaken(r) ==
  /\ vkUsed' = [vkUsed EXCEPT ![KeyOf[r]] = @ + 1]
  /\ HasCapacity(vkUsed[KeyOf[r]], VkLimit[KeyOf[r]])
  /\ r \notin SlotHolders(KeyOf[r])
  /\ \A k \in VirtualKeys : SlotHolders(k)' = IF k = KeyOf[r] THEN SlotHolders(k) \cup {r} ELSE SlotHolders(k)

\* The counter went up, the answer was lost.
SlotLost(r) ==
  /\ vkUsed' = [vkUsed EXCEPT ![KeyOf[r]] = @ + 1]
  /\ HasCapacity(vkUsed[KeyOf[r]], VkLimit[KeyOf[r]])
  /\ faults' # 0
  /\ \A k \in VirtualKeys : SlotHolders(k)' = SlotHolders(k)

SlotGivenBack(r) ==
  /\ vkUsed' = [vkUsed EXCEPT ![KeyOf[r]] = Decrement(@)]
  /\ r \in SlotHolders(KeyOf[r])
  /\ \A k \in VirtualKeys : SlotHolders(k)' = IF k = KeyOf[r] THEN SlotHolders(k) \ {r} ELSE SlotHolders(k)

SlotLeaked ==
  /\ UNCHANGED vkUsed
  /\ faults' # 0 \/ drops' # 0
  /\ \A k \in VirtualKeys : SlotHolders(k)' \subseteq SlotHolders(k)

SlotsKept ==
  /\ UNCHANGED vkUsed
  /\ \A k \in VirtualKeys : SlotHolders(k)' = SlotHolders(k)

\* These are all the things a step can do.
LEMMA SlotEffect ==
  ASSUME TypeOK, ChargeInv, NoSlotYet, [Next]_vars
  PROVE  \/ \E r \in Requests : SlotTaken(r) \/ SlotLost(r) \/ SlotGivenBack(r)
         \/ SlotLeaked \/ SlotsKept
<1> USE GatewayAssumption
    DEF TypeOK, ControlTypeOK, HandlerTypeOK, RowTypeOK, EnvTypeOK, NoSlotYet, SlotHolders, InFlight
<1>1. ASSUME NEW r \in Requests, AcquireSlot(r)
      PROVE  SlotTaken(r) \/ SlotLost(r) \/ SlotsKept
  <2> USE <1>1 DEF Proceed, Abort, Close, Goto
  <2>1. CASE acquired' = acquired /\ vkUsed' = vkUsed
    BY <2>1 DEF AcquireSlot, SlotsKept
  <2>2. CASE acquired' # acquired
    BY <2>2 DEF AcquireSlot, SlotTaken
  <2>3. CASE acquired' = acquired /\ vkUsed' # vkUsed
    BY <2>3 DEF AcquireSlot, SlotLost, Fault
  <2> QED BY <2>1, <2>2, <2>3
<1>2. ASSUME NEW r \in Requests, ReleaseSlot(r)
      PROVE  SlotGivenBack(r) \/ SlotLeaked \/ SlotsKept
  <2>0. pc'[r] = "done" /\ pc[r] = "release_vk" /\ \A q \in Requests \ {r} : pc'[q] = pc[q]
    BY <1>2 DEF ReleaseSlot, Advance, After, Goto
  <2>1. CASE acquired[r] /\ NoFault
    BY <1>2, <2>0, <2>1 DEF ReleaseSlot, SlotGivenBack, NoFault, Fault
  <2>2. CASE acquired[r] /\ Fault
    BY <1>2, <2>0, <2>2 DEF ReleaseSlot, SlotLeaked, NoFault, Fault
  <2>3. CASE ~acquired[r]
    BY <1>2, <2>0, <2>3 DEF ReleaseSlot, SlotsKept
  <2> QED BY <1>2, <2>1, <2>2, <2>3 DEF ReleaseSlot
<1>3. ASSUME UNCHANGED <<acquired, vkUsed>>, drops' # 0,
             \A r \in Requests : pc'[r] = pc[r] \/ pc'[r] = "dead"
      PROVE  SlotLeaked
  BY <1>3 DEF SlotLeaked
<1>4. ASSUME UNCHANGED <<acquired, vkUsed>>, NEW r \in Requests,
             \A q \in Requests \ {r} : pc'[q] = pc[q],
             ~acquired[r] \/ (InFlight(r) /\ InFlight(r)')
      PROVE  SlotsKept
  BY <1>4 DEF SlotsKept
<1>5. ASSUME NEW r \in Requests, Arrive(r) \/ RefuseEarly(r) PROVE SlotsKept
  BY <1>5, <1>4 DEF Arrive, RefuseEarly, Goto
<1>6. ASSUME NEW r \in Requests, Disconnect(r) PROVE SlotLeaked
  BY <1>6, <1>3 DEF Disconnect, Goto, rowVars
<1>7. CASE Crash
  BY <1>7, <1>3 DEF Crash, rowVars
<1>8. ASSUME NEW r \in Requests, Gate(r) \/ PreAuthorize(r) \/ Reserve(r) \/ AcquireWindows(r) \/ NextRoute(r)
      PROVE  SlotsKept
  <2> USE <1>4 DEF Proceed, Abort, Close, Goto, rowVars
  <2>1. CASE Gate(r) \/ NextRoute(r)
    BY <2>1 DEF Gate, NextRoute
  <2>2. CASE PreAuthorize(r)
    <3>1. UNCHANGED <<acquired, vkUsed>> /\ pc[r] \in {"gate_authorize", "authorize"}
      BY <2>2 DEF PreAuthorize
    <3>2. \E c \in {"gate_reserve", "slot", "reserve", "acquire", "finish_log"} : pc' = [pc EXCEPT ![r] = c]
      BY <2>2 DEF PreAuthorize, Allowed
    <3> QED BY <3>1, <3>2
  <2>3. CASE Reserve(r) \/ AcquireWindows(r)
    BY <2>3 DEF Reserve, AcquireWindows
  <2> QED BY <1>8, <2>1, <2>2, <2>3
<1>9. ASSUME NEW r \in Requests, AcquireLease(r) \/ StartAttempt(r) \/ Respond(r) \/ OpenStream(r) \/ AttemptFails(r)
      PROVE  SlotsKept
  BY <1>9, <1>4
     DEF AcquireLease, StartAttempt, Respond, OpenStream, AttemptFails, Proceed, Abort, Close, Goto, rowVars
<1>10. ASSUME NEW r \in Requests,
              ReleaseLease(r) \/ FinishAttempt(r) \/ FinishLog(r) \/ ReturnReserve(r) \/ Settle(r)
       PROVE  SlotsKept
  BY <1>10, <1>4
     DEF ReleaseLease, FinishAttempt, FinishLog, ReturnReserve, Settle, Advance, After, Goto, rowVars
<1>11. ASSUME NEW r \in Requests, StreamEnds(r) PROVE SlotsKept
  BY <1>11, <1>4 DEF StreamEnds, Close, Goto, rowVars
<1>12. ASSUME NEW r \in Requests, DropBody(r) PROVE SlotsKept
  <2>1. ~claimed[r] => pc[r] = "stream"
    BY <1>12 DEF DropBody, ChargeInv, ClosingInv
  <2>2. CASE claimed[r]
    BY <1>12, <2>2 DEF DropBody, SlotsKept, rowVars
  <2>3. CASE ~claimed[r]
    BY <1>12, <1>4, <2>1, <2>3 DEF DropBody, Close, Goto, rowVars
  <2> QED BY <2>2, <2>3
<1>13. CASE UNCHANGED <<pc, acquired, vkUsed>>
  BY <1>13 DEF SlotsKept
<1> QED
  BY <1>1, <1>2, <1>5, <1>6, <1>7, <1>8, <1>9, <1>10, <1>11, <1>12, <1>13
     DEF Next, Step, Progress, ForwardEvent, RefundSettled, ToggleOptIn, vars, handlerVars, rowVars

\* SlotInv is inductive together with TypeOK and ChargeInv.
LEMMA SlotStep ==
  ASSUME TypeOK, ChargeInv, SlotInv, [Next]_vars
  PROVE  SlotInv'
<1> USE GatewayAssumption DEF TypeOK, RowTypeOK, EnvTypeOK
<1>1. NoSlotYet /\ NoSlotYet'
  BY NoSlotYetStep DEF SlotInv
<1>2. \A k \in VirtualKeys :
        /\ Cardinality(SlotHolders(k)) <= vkUsed[k]
        /\ VkLimit[k] > 0 => vkUsed[k] <= VkLimit[k]
        /\ faults = 0 /\ drops = 0 => vkUsed[k] = Cardinality(SlotHolders(k))
  BY DEF SlotInv, SlotsCounted, SlotsReturned
<1>3. faults' = 0 => faults = 0
  BY EnvGrows
<1>4. drops' = 0 => drops = 0
  BY EnvGrows
<1>5. SUFFICES ASSUME NEW k \in VirtualKeys
               PROVE  /\ Cardinality(SlotHolders(k)') <= vkUsed'[k]
                      /\ VkLimit[k] > 0 => vkUsed'[k] <= VkLimit[k]
                      /\ faults' = 0 /\ drops' = 0 => vkUsed'[k] = Cardinality(SlotHolders(k)')
  BY <1>1 DEF SlotInv, SlotsCounted, SlotsReturned
<1> DEFINE S == SlotHolders(k)
           Counted == /\ Cardinality(S') <= vkUsed'[k]
                      /\ VkLimit[k] > 0 => vkUsed'[k] <= VkLimit[k]
                      /\ faults' = 0 /\ drops' = 0 => vkUsed'[k] = Cardinality(S')
<1>6. IsFiniteSet(S) /\ Cardinality(S) \in Nat /\ IsFiniteSet(S') /\ Cardinality(S') \in Nat
  BY HoldersFinite
<1>7. ASSUME NEW r \in Requests, SlotTaken(r) PROVE Counted
  <2>1. CASE k = KeyOf[r]
    <3>1. S' = S \cup {r} /\ r \notin S
      BY <1>7, <2>1 DEF SlotTaken
    <3>2. Cardinality(S') = Cardinality(S) + 1
      BY <1>6, <3>1, FS_AddElement
    <3>3. vkUsed'[k] = vkUsed[k] + 1 /\ vkUsed[k] < VkLimit[k]
      BY <1>7, <2>1 DEF SlotTaken, HasCapacity
    <3> QED BY <1>2, <1>3, <1>4, <1>6, <3>2, <3>3
  <2>2. CASE k # KeyOf[r]
    BY <1>2, <1>3, <1>4, <1>7, <2>2 DEF SlotTaken
  <2> QED BY <2>1, <2>2
<1>8. ASSUME NEW r \in Requests, SlotLost(r) PROVE Counted
  BY <1>2, <1>6, <1>8 DEF SlotLost, HasCapacity
<1>9. ASSUME NEW r \in Requests, SlotGivenBack(r) PROVE Counted
  <2>1. CASE k = KeyOf[r]
    <3>1. S' = S \ {r} /\ r \in S
      BY <1>9, <2>1 DEF SlotGivenBack
    <3>2. Cardinality(S') = Cardinality(S) - 1
      BY <1>6, <3>1, FS_RemoveElement
    <3>3. vkUsed'[k] = Decrement(vkUsed[k])
      BY <1>9, <2>1 DEF SlotGivenBack
    <3> QED BY <1>2, <1>3, <1>4, <1>6, <3>2, <3>3 DEF Decrement
  <2>2. CASE k # KeyOf[r]
    BY <1>2, <1>3, <1>4, <1>9, <2>2 DEF SlotGivenBack
  <2> QED BY <2>1, <2>2
<1>10. CASE SlotLeaked
  <2>1. Cardinality(S') <= Cardinality(S)
    BY <1>6, <1>10, FS_Subset DEF SlotLeaked
  <2> QED BY <1>2, <1>6, <1>10, <2>1 DEF SlotLeaked
<1>11. CASE SlotsKept
  BY <1>2, <1>3, <1>4, <1>11 DEF SlotsKept
<1> QED BY <1>1, <1>7, <1>8, <1>9, <1>10, <1>11, SlotEffect

\* The slot counters are safe for any number of keys and requests: no holder is
\* missing from its key's counter and no counter passes its limit.
THEOREM SlotsAreCounted == Spec => []SlotsCounted
<1>1. TypeOK /\ ChargeInv /\ SlotInv /\ [Next]_vars => SlotInv'
  BY SlotStep
<1>2. SlotInv => SlotsCounted
  BY DEF SlotInv
<1> QED BY SlotInit, TypeCorrect, ChargeInvariant, <1>1, <1>2, PTL DEF Spec

\* Without a failed call or a dropped handler, every slot comes back.
THEOREM SlotsComeBack == Spec => []SlotsReturned
<1>1. TypeOK /\ ChargeInv /\ SlotInv /\ [Next]_vars => SlotInv'
  BY SlotStep
<1>2. SlotInv => SlotsReturned
  BY DEF SlotInv
<1> QED BY SlotInit, TypeCorrect, ChargeInvariant, <1>1, <1>2, PTL DEF Spec

-----------------------------------------------------------------------------
(* Leases of provider keys *)

\* An attempt has no lease before it asks for one, and the loop does not go on
\* to another route with one; a request that works on a route has one.
NoLeaseYet ==
  \A r \in Requests :
    /\ pc[r] \in {"idle", "gate", "gate_authorize", "gate_reserve", "slot", "limits", "next",
                  "authorize", "reserve", "acquire"} => ~lease[r]
    /\ pc[r] = "finish_attempt" /\ plan[r] = "fallback" => ~lease[r]
    /\ pc[r] \in {"authorize", "reserve", "acquire"} => route[r] \in ProviderKeys
    /\ lease[r] => route[r] \in ProviderKeys

\* The lease part of the model's safety.
LeaseInv == NoLeaseYet /\ LeasesCounted

\* The sets of lease holders are finite.
LEMMA LeaseHoldersFinite ==
  ASSUME NEW k
  PROVE  /\ IsFiniteSet(LeaseHolders(k)) /\ Cardinality(LeaseHolders(k)) \in Nat
         /\ IsFiniteSet(LeaseHolders(k))' /\ Cardinality(LeaseHolders(k))' \in Nat
BY LedgerAssumption, FS_Subset, FS_CardinalityType DEF LeaseHolders

LEMMA LeaseInit == ASSUME Init PROVE LeaseInv
<1>1. \A k \in ProviderKeys : LeaseHolders(k) = {}
  BY DEF Init, LeaseHolders, InFlight
<1>2. \A k \in ProviderKeys : Cardinality(LeaseHolders(k)) = 0
  BY <1>1, FS_EmptySet
<1> QED
  BY <1>1, <1>2, GatewayAssumption DEF Init, LeaseInv, NoLeaseYet, LeasesCounted

\* Only AcquireLease gives a lease, and ReleaseLease comes before the next route.
LEMMA NoLeaseYetStep ==
  ASSUME TypeOK, ChargeInv, NoLeaseYet, [Next]_vars
  PROVE  NoLeaseYet'
<1> USE DEF TypeOK, ControlTypeOK, HandlerTypeOK, NoLeaseYet
<1>1. ASSUME NEW r \in Requests, Step(r) PROVE NoLeaseYet'
  <2> USE <1>1 DEF Goto, Proceed, Close, Abort
  <2>1. CASE AcquireLease(r)
    BY <2>1 DEF AcquireLease
  <2>2. CASE Arrive(r) \/ RefuseEarly(r) \/ Gate(r)
    BY <2>2 DEF Arrive, RefuseEarly, Gate
  <2>3. CASE PreAuthorize(r) \/ Reserve(r) \/ AcquireSlot(r) \/ AcquireWindows(r)
    BY <2>3 DEF PreAuthorize, Reserve, Allowed, AcquireSlot, AcquireWindows
  <2>4. CASE NextRoute(r)
    BY <2>4 DEF NextRoute
  <2>5. CASE \/ StartAttempt(r) \/ Respond(r) \/ OpenStream(r) \/ AttemptFails(r)
    BY <2>5 DEF StartAttempt, Respond, OpenStream, AttemptFails
  <2>6. CASE StreamEnds(r) \/ DropBody(r) \/ Disconnect(r)
    BY <2>6 DEF StreamEnds, DropBody, Disconnect
  <2>7. CASE ReleaseLease(r)
    BY <2>7 DEF ReleaseLease, Advance, After
  <2>8. CASE Advance(r) /\ pc[r] \in ClosingSteps \ {"release_pk"} /\ UNCHANGED <<lease, route>>
    BY <2>8 DEF Advance, After, ClosingSteps, ChargeInv, ClosingInv
  <2>9. CASE UNCHANGED handlerVars \/ UNCHANGED <<pc, plan, lease, route>>
    BY <2>9 DEF handlerVars
  <2> QED
    BY <2>1, <2>2, <2>3, <2>4, <2>5, <2>6, <2>7, <2>8, <2>9
       DEF Step, Progress, FinishAttempt, FinishLog, ReturnReserve, Settle, ReleaseSlot,
           ForwardEvent, RefundSettled, ClosingSteps
<1>2. CASE Crash
  BY <1>2 DEF Crash
<1>3. CASE UNCHANGED handlerVars
  BY <1>3 DEF handlerVars
<1> QED BY <1>1, <1>2, <1>3 DEF Next, ToggleOptIn, vars

\* What a step does to the holders of a provider key.
LeaseTaken(r) ==
  /\ pkUsed' = [pkUsed EXCEPT ![route[r]] = @ + 1]
  /\ HasCapacity(pkUsed[route[r]], PkLimit[route[r]])
  /\ r \notin LeaseHolders(route[r])
  /\ \A k \in ProviderKeys : LeaseHolders(k)' = IF k = route[r] THEN LeaseHolders(k) \cup {r} ELSE LeaseHolders(k)

\* The counter went up, the answer was lost.
LeaseLost(r) ==
  /\ pkUsed' = [pkUsed EXCEPT ![route[r]] = @ + 1]
  /\ HasCapacity(pkUsed[route[r]], PkLimit[route[r]])
  /\ \A k \in ProviderKeys : LeaseHolders(k)' = LeaseHolders(k)

LeaseGivenBack(r) ==
  /\ pkUsed' = [pkUsed EXCEPT ![route[r]] = Decrement(@)]
  /\ r \in LeaseHolders(route[r])
  /\ \A k \in ProviderKeys : LeaseHolders(k)' = IF k = route[r] THEN LeaseHolders(k) \ {r} ELSE LeaseHolders(k)

\* The counter stays; holders may leave it behind: an answered request keeps
\* its lease to the end, a dropped one or one whose release fails loses it.
LeasesShrink ==
  /\ UNCHANGED pkUsed
  /\ \A k \in ProviderKeys : LeaseHolders(k)' \subseteq LeaseHolders(k)

\* These are all the things a step can do.
LEMMA LeaseEffect ==
  ASSUME TypeOK, ChargeInv, NoLeaseYet, [Next]_vars
  PROVE  \/ \E r \in Requests : /\ route[r] \in ProviderKeys
                                /\ LeaseTaken(r) \/ LeaseLost(r) \/ LeaseGivenBack(r)
         \/ LeasesShrink
<1> USE GatewayAssumption
    DEF TypeOK, ControlTypeOK, HandlerTypeOK, RowTypeOK, NoLeaseYet, LeaseHolders, InFlight
<1>1. ASSUME NEW r \in Requests, AcquireLease(r)
      PROVE  /\ route[r] \in ProviderKeys
             /\ LeaseTaken(r) \/ LeaseLost(r) \/ LeasesShrink
  <2> USE <1>1 DEF Proceed, Abort, Close, Goto
  <2>0. route[r] \in ProviderKeys /\ ~lease[r]
    BY DEF AcquireLease
  <2>1. CASE lease' = lease /\ pkUsed' = pkUsed
    BY <2>0, <2>1 DEF AcquireLease, LeasesShrink
  <2>2. CASE lease' # lease
    BY <2>0, <2>2 DEF AcquireLease, LeaseTaken
  <2>3. CASE lease' = lease /\ pkUsed' # pkUsed
    BY <2>0, <2>3 DEF AcquireLease, LeaseLost
  <2> QED BY <2>0, <2>1, <2>2, <2>3
<1>2. ASSUME NEW r \in Requests, ReleaseLease(r)
      PROVE  (route[r] \in ProviderKeys /\ LeaseGivenBack(r)) \/ LeasesShrink
  <2>0. /\ pc[r] = "release_pk" /\ pc'[r] \in {"finish_log", "release_reserve", "finish_attempt"}
        /\ \A q \in Requests \ {r} : pc'[q] = pc[q]
    BY <1>2 DEF ReleaseLease, Advance, After, Goto
  <2>1. CASE lease[r] /\ NoFault /\ pkUsed' # pkUsed
    BY <1>2, <2>0, <2>1 DEF ReleaseLease, LeaseGivenBack
  <2>2. CASE pkUsed' = pkUsed
    BY <1>2, <2>0, <2>2 DEF ReleaseLease, LeasesShrink
  <2> QED BY <1>2, <2>1, <2>2 DEF ReleaseLease
<1>3. ASSUME UNCHANGED <<lease, pkUsed>>, NEW r \in Requests,
             \A q \in Requests \ {r} : pc'[q] = pc[q] /\ route'[q] = route[q],
             lease[r] => route'[r] = route[r] /\ (InFlight(r)' => InFlight(r))
      PROVE  LeasesShrink
  BY <1>3 DEF LeasesShrink
<1>4. CASE Crash
  BY <1>4 DEF Crash, rowVars, LeasesShrink
<1>5. ASSUME NEW r \in Requests, Arrive(r) \/ RefuseEarly(r) \/ Gate(r) PROVE LeasesShrink
  BY <1>5, <1>3 DEF Arrive, RefuseEarly, Gate, Goto, rowVars
<1>6. ASSUME NEW r \in Requests, PreAuthorize(r) \/ Reserve(r) \/ AcquireSlot(r) \/ AcquireWindows(r)
      PROVE  LeasesShrink
  <2>1. ~lease[r] /\ UNCHANGED <<lease, pkUsed, route>>
    BY <1>6 DEF PreAuthorize, Reserve, AcquireSlot, AcquireWindows, rowVars
  <2>2. \A q \in Requests \ {r} : pc'[q] = pc[q]
    BY <1>6 DEF PreAuthorize, Reserve, AcquireSlot, AcquireWindows, Proceed, Abort, Close, Goto
  <2> QED BY <1>3, <2>1, <2>2
<1>7. ASSUME NEW r \in Requests, NextRoute(r) PROVE LeasesShrink
  BY <1>7, <1>3 DEF NextRoute, Proceed, Goto, rowVars
<1>8. ASSUME NEW r \in Requests, StartAttempt(r) \/ Respond(r) \/ OpenStream(r) \/ AttemptFails(r) \/ Disconnect(r)
      PROVE  LeasesShrink
  <2>1. InFlight(r) /\ UNCHANGED <<lease, pkUsed, route>>
    BY <1>8 DEF StartAttempt, Respond, OpenStream, AttemptFails, Disconnect, rowVars
  <2>2. \A q \in Requests \ {r} : pc'[q] = pc[q]
    BY <1>8 DEF StartAttempt, Respond, OpenStream, AttemptFails, Disconnect, Proceed, Close, Goto
  <2> QED BY <1>3, <2>1, <2>2
<1>9. ASSUME NEW r \in Requests,
             FinishAttempt(r) \/ FinishLog(r) \/ ReturnReserve(r) \/ Settle(r) \/ ReleaseSlot(r)
      PROVE  LeasesShrink
  <2>1. InFlight(r) /\ UNCHANGED <<lease, pkUsed, route>>
    BY <1>9 DEF FinishAttempt, FinishLog, ReturnReserve, Settle, ReleaseSlot, rowVars
  <2>2. \A q \in Requests \ {r} : pc'[q] = pc[q]
    BY <1>9 DEF FinishAttempt, FinishLog, ReturnReserve, Settle, ReleaseSlot, Advance, Goto
  <2> QED BY <1>3, <2>1, <2>2
<1>10. ASSUME NEW r \in Requests, StreamEnds(r) PROVE LeasesShrink
  BY <1>10, <1>3 DEF StreamEnds, Close, Goto, rowVars
<1>11. ASSUME NEW r \in Requests, DropBody(r) PROVE LeasesShrink
  <2>1. ~claimed[r] => pc[r] = "stream"
    BY <1>11 DEF DropBody, ChargeInv, ClosingInv
  <2> QED BY <1>11, <1>3, <2>1 DEF DropBody, Close, Goto, rowVars
<1>12. CASE UNCHANGED <<pc, lease, route, pkUsed>>
  BY <1>12 DEF LeasesShrink
<1> QED
  BY <1>1, <1>2, <1>4, <1>5, <1>6, <1>7, <1>8, <1>9, <1>10, <1>11, <1>12
     DEF Next, Step, Progress, ForwardEvent, RefundSettled, ToggleOptIn, vars, handlerVars, rowVars

\* LeaseInv is inductive together with TypeOK and ChargeInv.
LEMMA LeaseStep ==
  ASSUME TypeOK, ChargeInv, LeaseInv, [Next]_vars
  PROVE  LeaseInv'
<1> USE GatewayAssumption DEF TypeOK, RowTypeOK
<1>1. NoLeaseYet /\ NoLeaseYet'
  BY NoLeaseYetStep DEF LeaseInv
<1>2. \A k \in ProviderKeys :
        /\ Cardinality(LeaseHolders(k)) <= pkUsed[k]
        /\ PkLimit[k] > 0 => pkUsed[k] <= PkLimit[k]
  BY DEF LeaseInv, LeasesCounted
<1>3. SUFFICES ASSUME NEW k \in ProviderKeys
               PROVE  /\ Cardinality(LeaseHolders(k)') <= pkUsed'[k]
                      /\ PkLimit[k] > 0 => pkUsed'[k] <= PkLimit[k]
  BY <1>1 DEF LeaseInv, LeasesCounted
<1> DEFINE S == LeaseHolders(k)
           Counted == /\ Cardinality(S') <= pkUsed'[k]
                      /\ PkLimit[k] > 0 => pkUsed'[k] <= PkLimit[k]
<1>4. IsFiniteSet(S) /\ Cardinality(S) \in Nat /\ IsFiniteSet(S') /\ Cardinality(S') \in Nat
  BY LeaseHoldersFinite
<1>5. ASSUME NEW r \in Requests, LeaseTaken(r) PROVE Counted
  <2>1. CASE k = route[r]
    <3>1. S' = S \cup {r} /\ r \notin S
      BY <1>5, <2>1 DEF LeaseTaken
    <3>2. Cardinality(S') = Cardinality(S) + 1
      BY <1>4, <3>1, FS_AddElement
    <3>3. pkUsed'[k] = pkUsed[k] + 1 /\ pkUsed[k] < PkLimit[k]
      BY <1>5, <2>1 DEF LeaseTaken, HasCapacity
    <3> QED BY <1>2, <1>4, <3>2, <3>3
  <2>2. CASE k # route[r]
    BY <1>2, <1>5, <2>2 DEF LeaseTaken
  <2> QED BY <2>1, <2>2
<1>6. ASSUME NEW r \in Requests, LeaseLost(r) PROVE Counted
  BY <1>2, <1>4, <1>6 DEF LeaseLost, HasCapacity
<1>7. ASSUME NEW r \in Requests, LeaseGivenBack(r) PROVE Counted
  <2>1. CASE k = route[r]
    <3>1. S' = S \ {r} /\ r \in S
      BY <1>7, <2>1 DEF LeaseGivenBack
    <3>2. Cardinality(S') = Cardinality(S) - 1
      BY <1>4, <3>1, FS_RemoveElement
    <3>3. pkUsed'[k] = Decrement(pkUsed[k])
      BY <1>7, <2>1 DEF LeaseGivenBack
    <3> QED BY <1>2, <1>4, <3>2, <3>3 DEF Decrement
  <2>2. CASE k # route[r]
    BY <1>2, <1>7, <2>2 DEF LeaseGivenBack
  <2> QED BY <2>1, <2>2
<1>8. CASE LeasesShrink
  <2>1. Cardinality(S') <= Cardinality(S)
    BY <1>4, <1>8, FS_Subset DEF LeasesShrink
  <2> QED BY <1>2, <1>4, <1>8, <2>1 DEF LeasesShrink
<1> QED BY <1>1, <1>5, <1>6, <1>7, <1>8, LeaseEffect

\* The lease counters are safe for any number of provider keys and requests: no
\* attempt that holds a lease is missing from its key's counter, although the
\* lease of an answered request is never given back, and no counter passes its
\* limit.
THEOREM LeasesAreCounted == Spec => []LeasesCounted
<1>1. TypeOK /\ ChargeInv /\ LeaseInv /\ [Next]_vars => LeaseInv'
  BY LeaseStep
<1>2. LeaseInv => LeasesCounted
  BY DEF LeaseInv
<1> QED BY LeaseInit, TypeCorrect, ChargeInvariant, <1>1, <1>2, PTL DEF Spec
=============================================================================
