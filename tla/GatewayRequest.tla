--------------------------- MODULE GatewayRequest ---------------------------
(***************************************************************************)
(* A request's way through the gateway: apps/gateway/src/main.rs (the      *)
(* handlers chat_completions, responses, embeddings, anthropic_messages    *)
(* and gemini_generate_content_native_passthrough, which share one attempt *)
(* loop), apps/gateway/src/streaming.rs (the same loop for streams, and    *)
(* the finalizer of a stream) and the statements of db.rs they run.        *)
(*                                                                         *)
(* A handler is a sequence of awaited database calls and upstream calls.   *)
(* Each is one action, so requests interleave between any two of them, a   *)
(* call may fail, and a handler may be dropped (client disconnect) or die  *)
(* with the process between any two of them.  Request-log and attempt      *)
(* statuses "rejected" and "failed" are one status, "failed".              *)
(***************************************************************************)
EXTENDS WalletLedger

CONSTANTS
  VirtualKeys,   \* virtual keys
  KeyOf,         \* the virtual key a request authenticates with
  VkLimit,       \* concurrency limit of a virtual key, 0 when it has none
  ProviderKeys,  \* provider keys, each the best key of one candidate route
  NoRoute,       \* stands for "no attempt yet"
  Rank,          \* the order in which routing prefers their routes
  PkLimit,       \* concurrency limit of a provider key, 0 when it has none
  MaxAttempts,   \* routing.default_max_attempts
  Chat,          \* requests to /v1/chat/completions
  Streaming,     \* requests with stream = true
  OptedIn,       \* virtual keys opted in to the paid hot path at the start
  FixedCost,     \* fixed_request_cost of the price version
  Costs,         \* what rating a successful response may yield, 0: nothing to settle
  Budget,        \* limit of a project's budget
  MaxFaults,     \* bound: database calls that fail
  MaxDrops,      \* bound: disconnects and process crashes
  MaxToggles     \* bound: changes of a key's paid opt-in

ASSUME GatewayAssumption ==
  /\ KeyOf \in [Requests -> VirtualKeys]
  /\ VkLimit \in [VirtualKeys -> Nat]
  /\ NoRoute \notin ProviderKeys
  /\ Rank \in [ProviderKeys -> Nat]
  /\ PkLimit \in [ProviderKeys -> Nat]
  /\ MaxAttempts \in Nat \ {0}
  /\ Chat \subseteq Requests
  /\ Streaming \subseteq Requests
  /\ OptedIn \subseteq VirtualKeys
  /\ FixedCost \in Nat
  /\ FixedCost > 0 => ReserveAmount = FixedCost
  /\ Costs \subseteq Nat
  /\ Budget \in [Projects -> Nat]
  /\ MaxFaults \in Nat /\ MaxDrops \in Nat /\ MaxToggles \in Nat

VARIABLES
  (* the handler of each request *)
  pc,        \* the call it makes next
  plan,      \* the closing sequence it has entered
  left,      \* attempt_routes it has not tried
  route,     \* route of the current attempt
  paid,      \* paid_hot_path_beta as the last pre-authorization read it
  acquired,  \* virtual_key_concurrency_acquired
  lease,     \* db_release_needed of the attempt's reservation
  outcome,   \* status it writes when it finishes
  cost,      \* final_cost of the rating
  body,      \* the response body of a stream
  sent,      \* partial_sent of the stream
  terminal,  \* terminal_kind of the stream
  claimed,   \* StreamFinalizationClaim
  (* database rows *)
  log,       \* request_logs.status
  attempts,  \* provider_attempts.status, by route
  vkUsed,    \* virtual_keys: concurrency_used
  pkUsed,    \* provider_keys: concurrency counter
  optIn,     \* virtual_keys: paid hot path opt-in
  (* environment *)
  faults, drops, toggles

streamVars == <<body, sent, terminal, claimed>>
handlerVars == <<pc, plan, left, route, paid, acquired, lease, outcome, cost, streamVars>>
rowVars == <<log, attempts, vkUsed, pkUsed>>
envVars == <<faults, drops, toggles, optIn>>
vars == <<handlerVars, rowVars, envVars, ledgerVars>>

Plans == {"none", "abort", "fail", "fallback", "success", "completed", "ended"}
Calls == {"gate", "gate_authorize", "gate_reserve", "slot", "limits", "next", "authorize",
          "reserve", "acquire", "start", "call"}
ClosingSteps == {"release_pk", "finish_attempt", "finish_log", "release_reserve", "settle",
                 "release_vk"}
Control == Calls \cup ClosingSteps \cup {"idle", "stream", "done", "dead"}
TerminalKinds == {"none", "completed", "failed"}
Status == {"none", "started", "succeeded", "failed", "partial", "cancelled"}

ControlTypeOK ==
  /\ pc \in [Requests -> Control]
  /\ plan \in [Requests -> Plans]
  /\ outcome \in [Requests -> Status]

HandlerTypeOK ==
  /\ left \in [Requests -> SUBSET ProviderKeys]
  /\ route \in [Requests -> ProviderKeys \cup {NoRoute}]
  /\ paid \in [Requests -> BOOLEAN]
  /\ acquired \in [Requests -> BOOLEAN]
  /\ lease \in [Requests -> BOOLEAN]
  /\ cost \in [Requests -> Nat]

StreamTypeOK ==
  /\ body \in [Requests -> {"none", "open", "closing", "closed"}]
  /\ sent \in [Requests -> BOOLEAN]
  /\ terminal \in [Requests -> TerminalKinds]
  /\ claimed \in [Requests -> BOOLEAN]

RowTypeOK ==
  /\ log \in [Requests -> Status]
  /\ attempts \in [Requests -> [ProviderKeys -> Status]]
  /\ vkUsed \in [VirtualKeys -> Nat]
  /\ pkUsed \in [ProviderKeys -> Nat]

EnvTypeOK ==
  /\ optIn \in [VirtualKeys -> BOOLEAN]
  /\ faults \in 0..MaxFaults
  /\ drops \in 0..MaxDrops
  /\ toggles \in 0..MaxToggles

\* Every variable stays in its type; in particular no counter is driven below
\* zero by a release and no handler leaves its control points.
TypeOK ==
  /\ LedgerTypeOK /\ ControlTypeOK /\ HandlerTypeOK
  /\ StreamTypeOK /\ RowTypeOK /\ EnvTypeOK

Init ==
  /\ LedgerInit
  /\ pc = [r \in Requests |-> "idle"]
  /\ plan = [r \in Requests |-> "none"]
  /\ left = [r \in Requests |-> {}]
  /\ route = [r \in Requests |-> NoRoute]
  /\ paid = [r \in Requests |-> FALSE]
  /\ acquired = [r \in Requests |-> FALSE]
  /\ lease = [r \in Requests |-> FALSE]
  /\ outcome = [r \in Requests |-> "none"]
  /\ cost = [r \in Requests |-> 0]
  /\ body = [r \in Requests |-> "none"]
  /\ sent = [r \in Requests |-> FALSE]
  /\ terminal = [r \in Requests |-> "none"]
  /\ claimed = [r \in Requests |-> FALSE]
  /\ log = [r \in Requests |-> "none"]
  /\ attempts = [r \in Requests |-> [k \in ProviderKeys |-> "none"]]
  /\ vkUsed = [k \in VirtualKeys |-> 0]
  /\ pkUsed = [k \in ProviderKeys |-> 0]
  /\ optIn = [k \in VirtualKeys |-> k \in OptedIn]
  /\ faults = 0 /\ drops = 0 /\ toggles = 0

-----------------------------------------------------------------------------
(* Control shared by the actions *)

Goto(r, call) == pc' = [pc EXCEPT ![r] = call]

\* Enter a closing sequence at one of its calls.
Close(r, p, call, status) ==
  /\ plan' = [plan EXCEPT ![r] = p]
  /\ outcome' = [outcome EXCEPT ![r] = status]
  /\ Goto(r, call)

\* finish_request_with_error before a provider attempt exists.
Abort(r) == Close(r, "abort", "finish_log", "failed")

Proceed(r, call) == Goto(r, call) /\ UNCHANGED <<plan, outcome>>

NoFault == UNCHANGED faults
Fault == faults < MaxFaults /\ faults' = faults + 1

\* The order of the calls in each closing sequence:
\*   abort      [release_pk] finish_log release_reserve release_vk
\*   fail       release_pk finish_attempt finish_log release_reserve release_vk
\*   fallback   release_pk finish_attempt, then the next route
\*   success    finish_attempt finish_log settle release_vk
\*   completed  finish_log settle finish_attempt release_vk         (stream)
\*   ended      release_pk release_reserve finish_log finish_attempt release_vk (stream)
After(p, call) ==
  IF call = "release_pk" THEN
    IF p = "abort" THEN "finish_log" ELSE IF p = "ended" THEN "release_reserve" ELSE "finish_attempt"
  ELSE IF call = "finish_attempt" THEN
    IF p = "fallback" THEN "next"
    ELSE IF p \in {"completed", "ended"} THEN "release_vk" ELSE "finish_log"
  ELSE IF call = "finish_log" THEN
    IF p \in {"abort", "fail"} THEN "release_reserve"
    ELSE IF p = "ended" THEN "finish_attempt" ELSE "settle"
  ELSE IF call = "release_reserve" THEN
    IF p = "ended" THEN "finish_log" ELSE "release_vk"
  ELSE IF call = "settle" THEN
    IF p = "completed" THEN "finish_attempt" ELSE "release_vk"
  ELSE "done"

Advance(r) == Goto(r, After(plan[r], pc[r])) /\ UNCHANGED <<plan, outcome>>

\* Mutant: off by one at the limit.
HasCapacityAtLimit(used, limit) == used <= limit

\* The condition under which the acquiring statements increment a counter.
HasCapacity(used, limit) == used < limit

\* The clamped decrement of the releasing statements.
Decrement(n) == IF n > 0 THEN n - 1 ELSE 0

-----------------------------------------------------------------------------
(* Arrival *)

\* route_rate_limit_availability on the rows read with the candidates.
Selectable(candidates) ==
  {k \in candidates : PkLimit[k] = 0 \/ HasCapacity(pkUsed[k], PkLimit[k])}

\* chat_attempt_routes: the best max_attempts of them.
AttemptRoutes(candidates) ==
  {k \in Selectable(candidates) :
     Cardinality({j \in Selectable(candidates) : Rank[j] < Rank[k]}) < MaxAttempts}

\* From authentication to create_request_started.  The candidates are the keys
\* whose health status allows their selection at that moment, any of them here.
Arrive(r) ==
  /\ pc[r] = "idle"
  /\ \E candidates \in SUBSET ProviderKeys :
       /\ AttemptRoutes(candidates) # {}
       /\ left' = [left EXCEPT ![r] = AttemptRoutes(candidates)]
  /\ \/ /\ NoFault
        /\ log' = [log EXCEPT ![r] = "started"]
        /\ Goto(r, IF r \in Chat THEN "gate" ELSE "next")
     \/ /\ Fault
        /\ log' \in {log, [log EXCEPT ![r] = "started"]}
        /\ Goto(r, "done")
  /\ UNCHANGED <<plan, route, paid, acquired, lease, outcome, cost, streamVars,
                 attempts, vkUsed, pkUsed, drops, toggles, optIn, ledgerVars>>

\* start_and_finish_request_error: an invalid or protected body, an unknown
\* model or no selectable route; one insert and one update of the log row.
RefuseEarly(r) ==
  /\ pc[r] = "idle"
  /\ Goto(r, "done")
  /\ \/ NoFault /\ log' = [log EXCEPT ![r] = "failed"]
     \/ Fault /\ log' \in {log, [log EXCEPT ![r] = "started"]}
  /\ UNCHANGED <<plan, left, route, paid, acquired, lease, outcome, cost, streamVars,
                 attempts, vkUsed, pkUsed, drops, toggles, optIn, ledgerVars>>

-----------------------------------------------------------------------------
(* Pre-authorization *)

\* paid_hot_path_beta_enabled: a failed read of the opt-in counts as "off".
ReadOptIn(r, b) ==
  \/ b = optIn[KeyOf[r]] /\ NoFault
  \/ b = FALSE /\ Fault

\* chat_completions pre-authorizes once before it takes rate-limit capacity.
Gate(r) ==
  /\ pc[r] = "gate"
  /\ \E b \in BOOLEAN : ReadOptIn(r, b) /\ Goto(r, IF b THEN "gate_authorize" ELSE "slot")
  /\ UNCHANGED <<plan, left, route, paid, acquired, lease, outcome, cost, streamVars,
                 rowVars, drops, toggles, optIn, ledgerVars>>

\* amount_is_insufficient, negated.
Sufficient(available, minimum) ==
  IF minimum > 0 THEN available >= minimum ELSE available > 0

\* budget_spend: the final costs of the project's finished requests.
Spent(p) ==
  SumFunctionOnSet(cost, {r \in Requests : ProjectOf[r] = p /\ log[r] = "succeeded"})

\* pre_authorize on the balances just read.
Covered(r, b) ==
  LET p == ProjectOf[r]
      minimum == IF b THEN ReserveAmount ELSE FixedCost
  IN /\ IF WalletOf[p] = NoWallet THEN ~b ELSE Sufficient(Available(p), minimum)
     /\ Sufficient(Budget[p] - Spent(p), minimum)

\* Mutant: a request that passed the gate is taken to be reserved.
AllowedTrustsGate(r, b) ==
  IF pc[r] = "gate_authorize" THEN IF b THEN "gate_reserve" ELSE "slot"
                              ELSE IF b /\ r \notin Chat THEN "reserve" ELSE "acquire"

\* The call that follows an allowed pre-authorization.
Allowed(r, b) ==
  IF pc[r] = "gate_authorize" THEN IF b THEN "gate_reserve" ELSE "slot"
                              ELSE IF b THEN "reserve" ELSE "acquire"

\* pre_authorize_route up to the reserve: a failed read of the price or of the
\* balances rejects a paid request and lets an unpaid one through.
PreAuthorize(r) ==
  /\ pc[r] \in {"gate_authorize", "authorize"}
  /\ \E b \in BOOLEAN :
       /\ paid' = [paid EXCEPT ![r] = b]
       /\ \/ /\ ReadOptIn(r, b)
             /\ IF Covered(r, b) THEN Proceed(r, Allowed(r, b)) ELSE Abort(r)
          \/ /\ b = optIn[KeyOf[r]] /\ Fault
             /\ IF b THEN Abort(r) ELSE Proceed(r, Allowed(r, b))
  /\ UNCHANGED <<left, route, acquired, lease, cost, streamVars,
                 rowVars, drops, toggles, optIn, ledgerVars>>

\* The reserve of pre_authorize_route.
Reserve(r) ==
  /\ pc[r] \in {"gate_reserve", "reserve"}
  /\ LET onward == IF pc[r] = "gate_reserve" THEN "slot" ELSE "acquire" IN
       \/ InsertReserve(r) /\ NoFault /\ Proceed(r, onward)
       \/ ReserveIdempotent(r) /\ NoFault /\ UNCHANGED ledgerVars /\ Proceed(r, onward)
       \/ /\ ~ReserveApplies(r) /\ ~ReserveIdempotent(r) /\ NoFault
          /\ Abort(r)
          /\ UNCHANGED ledgerVars
       \/ Fault /\ (InsertReserve(r) \/ UNCHANGED ledgerVars) /\ Abort(r)
  /\ UNCHANGED <<left, route, paid, acquired, lease, cost, streamVars,
                 rowVars, drops, toggles, optIn>>

-----------------------------------------------------------------------------
(* Virtual key limits, chat_completions only *)

\* acquire_virtual_key_concurrency_slot; it is refused at the limit, and for a
\* key that was disabled after the request authenticated.
AcquireSlot(r) ==
  /\ pc[r] = "slot"
  /\ LET k == KeyOf[r]
         taken == [vkUsed EXCEPT ![k] = @ + 1]
     IN \/ /\ VkLimit[k] = 0 /\ NoFault
           /\ Proceed(r, "limits")
           /\ UNCHANGED <<vkUsed, acquired>>
        \/ /\ VkLimit[k] > 0 /\ HasCapacity(vkUsed[k], VkLimit[k]) /\ NoFault
           /\ vkUsed' = taken
           /\ acquired' = [acquired EXCEPT ![r] = TRUE]
           /\ Proceed(r, "limits")
        \/ /\ VkLimit[k] > 0 /\ NoFault
           /\ Abort(r)
           /\ UNCHANGED <<vkUsed, acquired>>
        \/ /\ VkLimit[k] > 0 /\ Fault
           /\ UNCHANGED vkUsed \/ (HasCapacity(vkUsed[k], VkLimit[k]) /\ vkUsed' = taken)
           /\ Abort(r)
           /\ UNCHANGED acquired
  /\ UNCHANGED <<left, route, paid, lease, cost, streamVars,
                 log, attempts, pkUsed, drops, toggles, optIn, ledgerVars>>

\* The per-minute request and token limits: granted, refused or failed.
AcquireWindows(r) ==
  /\ pc[r] = "limits"
  /\ Proceed(r, "next") \/ Abort(r)
  /\ UNCHANGED <<left, route, paid, acquired, lease, cost, streamVars,
                 rowVars, envVars, ledgerVars>>

-----------------------------------------------------------------------------
(* The attempt loop *)

\* Mutant: the loop takes the best route again and again.
NextRouteSame(r) ==
  /\ pc[r] = "next"
  /\ \E k \in left[r] :
       /\ \A j \in left[r] : Rank[k] <= Rank[j]
       /\ route' = [route EXCEPT ![r] = k]
  /\ Proceed(r, "authorize")
  /\ UNCHANGED <<left, paid, acquired, lease, cost, streamVars, rowVars, envVars, ledgerVars>>

\* The head of the loop over attempt_routes.
NextRoute(r) ==
  /\ pc[r] = "next"
  /\ \E k \in left[r] :
       /\ \A j \in left[r] : Rank[k] <= Rank[j]
       /\ route' = [route EXCEPT ![r] = k]
       /\ left' = [left EXCEPT ![r] = @ \ {k}]
  /\ Proceed(r, "authorize")
  /\ UNCHANGED <<paid, acquired, lease, cost, streamVars, rowVars, envVars, ledgerVars>>

\* acquire_gateway_rate_limit_reservation_for_attempt: granted, refused (then
\* the next route, or the rejection after the loop) or failed.  A refusal also
\* stands for a key disabled since the candidates were read.
AcquireLease(r) ==
  /\ pc[r] = "acquire"
  /\ LET k == route[r]
         taken == [pkUsed EXCEPT ![k] = @ + 1]
     IN \/ /\ PkLimit[k] = 0 /\ NoFault
           /\ Proceed(r, "start")
           /\ UNCHANGED <<pkUsed, lease>>
        \/ /\ PkLimit[k] > 0 /\ HasCapacity(pkUsed[k], PkLimit[k]) /\ NoFault
           /\ pkUsed' = taken
           /\ lease' = [lease EXCEPT ![r] = TRUE]
           /\ Proceed(r, "start")
        \/ /\ PkLimit[k] > 0 /\ NoFault
           /\ IF left[r] # {} THEN Proceed(r, "next") ELSE Abort(r)
           /\ UNCHANGED <<pkUsed, lease>>
        \/ /\ PkLimit[k] > 0 /\ Fault
           /\ UNCHANGED pkUsed \/ (HasCapacity(pkUsed[k], PkLimit[k]) /\ pkUsed' = taken)
           /\ Abort(r)
           /\ UNCHANGED lease
  /\ UNCHANGED <<left, route, paid, acquired, cost, streamVars,
                 log, attempts, vkUsed, drops, toggles, optIn, ledgerVars>>

\* create_provider_attempt_started.
StartAttempt(r) ==
  /\ pc[r] = "start"
  /\ LET started == [attempts EXCEPT ![r][route[r]] = "started"] IN
       \/ /\ NoFault
          /\ attempts' = started
          /\ Proceed(r, "call")
       \/ /\ Fault
          /\ attempts' \in {attempts, started}
          /\ Close(r, "abort", "release_pk", "failed")
  /\ UNCHANGED <<left, route, paid, acquired, lease, cost, streamVars,
                 log, vkUsed, pkUsed, drops, toggles, optIn, ledgerVars>>

\* The upstream answers: the attempt and the request succeed.  The rating is
\* the cost of the usage, or nothing: no usage, no price, a zero price, or a
\* failed read of the price.  The reservation of the provider key is kept.
Respond(r) ==
  /\ pc[r] = "call" /\ r \notin Streaming
  /\ \/ NoFault /\ \E c \in Costs : cost' = [cost EXCEPT ![r] = c]
     \/ Fault /\ cost' = [cost EXCEPT ![r] = 0]
  /\ Close(r, "success", "finish_attempt", "succeeded")
  /\ UNCHANGED <<left, route, paid, acquired, lease, streamVars,
                 rowVars, drops, toggles, optIn, ledgerVars>>

\* The upstream stream opens: stream_response hands the body to the server.
OpenStream(r) ==
  /\ pc[r] = "call" /\ r \in Streaming
  /\ body' = [body EXCEPT ![r] = "open"]
  /\ Proceed(r, "stream")
  /\ UNCHANGED <<left, route, paid, acquired, lease, cost, sent, terminal, claimed,
                 rowVars, envVars, ledgerVars>>

\* Mutant: a failed attempt is left as it was started.
AttemptFailsUnfinished(r) ==
  /\ pc[r] = "call"
  /\ Close(r, "abort", "release_pk", "failed")
  /\ UNCHANGED <<left, route, paid, acquired, lease, cost, streamVars,
                 rowVars, envVars, ledgerVars>>

\* The provider key cannot be opened, the endpoint is refused or the upstream
\* fails before it answers.  An upstream error that allows it moves to the next
\* route when there is one.
AttemptFails(r) ==
  /\ pc[r] = "call"
  /\ \/ left[r] # {} /\ Close(r, "fallback", "release_pk", "failed")
     \/ Close(r, "fail", "release_pk", "failed")
  /\ UNCHANGED <<left, route, paid, acquired, lease, cost, streamVars,
                 rowVars, envVars, ledgerVars>>

-----------------------------------------------------------------------------
(* Streams *)

\* StreamProgress::observe_event on an event of a forwarded chunk: a terminal
\* event sets the kind, any other one with data counts as output.
ForwardEvent(r) ==
  /\ pc[r] = "stream"
  /\ \/ /\ \E kind \in TerminalKinds \ {"none"} : terminal' = [terminal EXCEPT ![r] = kind]
        /\ UNCHANGED sent
     \/ /\ sent' = [sent EXCEPT ![r] = TRUE]
        /\ UNCHANGED terminal
  /\ UNCHANGED <<pc, plan, left, route, paid, acquired, lease, outcome, cost, body, claimed,
                 rowVars, envVars, ledgerVars>>

\* ForwardStreamState::finish takes the claim and spawns the finalizer.  At EOF
\* a completed stream is rated; EOF without it, an upstream or parser error and
\* the idle timeout end the stream without a rating.
StreamEnds(r) ==
  /\ pc[r] = "stream" /\ ~claimed[r]
  /\ claimed' = [claimed EXCEPT ![r] = TRUE]
  /\ body' = [body EXCEPT ![r] = "closing"]
  /\ \/ /\ terminal[r] = "completed"
        /\ \/ NoFault /\ \E c \in Costs : cost' = [cost EXCEPT ![r] = c]
           \/ Fault /\ cost' = [cost EXCEPT ![r] = 0]
        /\ Close(r, "completed", "finish_log", "succeeded")
     \/ /\ Close(r, "ended", "release_pk", IF sent[r] THEN "partial" ELSE "failed")
        /\ NoFault /\ UNCHANGED cost
  /\ UNCHANGED <<left, route, paid, acquired, lease, sent, terminal,
                 rowVars, drops, toggles, optIn, ledgerVars>>

\* Mutant: nobody finalizes the stream of a client that left.
DropBodySilent(r) ==
  /\ body[r] \in {"open", "closing"}
  /\ body' = [body EXCEPT ![r] = "closed"]
  /\ claimed' = [claimed EXCEPT ![r] = TRUE]
  /\ UNCHANGED <<pc, plan, outcome, left, route, paid, acquired, lease, cost, sent, terminal,
                 rowVars, envVars, ledgerVars>>

\* Drop for ForwardStreamState: the server drops the body, because the client
\* left or because the stream is over; the claim decides who finalizes.
DropBody(r) ==
  /\ body[r] \in {"open", "closing"}
  /\ body' = [body EXCEPT ![r] = "closed"]
  /\ claimed' = [claimed EXCEPT ![r] = TRUE]
  /\ IF claimed[r] THEN UNCHANGED <<pc, plan, outcome>>
                   ELSE Close(r, "ended", "release_pk", "cancelled")
  /\ UNCHANGED <<left, route, paid, acquired, lease, cost, sent, terminal,
                 rowVars, envVars, ledgerVars>>

-----------------------------------------------------------------------------
(* Closing sequences: each call is tried once and its error only logged, so  *)
(* a call that committed and whose answer was lost is one that succeeded     *)

\* Mutant: the release does not look whether something was acquired, and the
\* counter is not clamped.
ReleaseLeaseAlways(r) ==
  /\ pc[r] = "release_pk"
  /\ lease' = [lease EXCEPT ![r] = FALSE]
  /\ NoFault
  /\ pkUsed' = [pkUsed EXCEPT ![route[r]] = @ - 1]
  /\ Advance(r)
  /\ UNCHANGED <<left, route, paid, acquired, cost, streamVars,
                 log, attempts, vkUsed, drops, toggles, optIn, ledgerVars>>

\* release_gateway_rate_limit_reservation_if_needed.
ReleaseLease(r) ==
  /\ pc[r] = "release_pk"
  /\ lease' = [lease EXCEPT ![r] = FALSE]
  /\ \/ NoFault /\ pkUsed' = IF lease[r] THEN [pkUsed EXCEPT ![route[r]] = Decrement(@)]
                                         ELSE pkUsed
     \/ lease[r] /\ Fault /\ UNCHANGED pkUsed
  /\ Advance(r)
  /\ UNCHANGED <<left, route, paid, acquired, cost, streamVars,
                 log, attempts, vkUsed, drops, toggles, optIn, ledgerVars>>

\* finish_provider_attempt_* and finish_stream_provider_attempt.
FinishAttempt(r) ==
  /\ pc[r] = "finish_attempt"
  /\ LET status == IF outcome[r] = "partial" THEN "failed" ELSE outcome[r] IN
       \/ NoFault /\ attempts' = [attempts EXCEPT ![r][route[r]] = status]
       \/ Fault /\ UNCHANGED attempts
  /\ Advance(r)
  /\ UNCHANGED <<left, route, paid, acquired, lease, cost, streamVars,
                 log, vkUsed, pkUsed, drops, toggles, optIn, ledgerVars>>

\* finish_request and finish_stream_request.
FinishLog(r) ==
  /\ pc[r] = "finish_log"
  /\ \/ NoFault /\ log' = [log EXCEPT ![r] = outcome[r]]
     \/ Fault /\ UNCHANGED log
  /\ Advance(r)
  /\ UNCHANGED <<left, route, paid, acquired, lease, cost, streamVars,
                 attempts, vkUsed, pkUsed, drops, toggles, optIn, ledgerVars>>

\* release_paid_hot_path_reserve_if_needed.
ReturnReserve(r) ==
  /\ pc[r] = "release_reserve"
  /\ \/ NoFault /\ ReleaseReserve(r)
     \/ Fault /\ UNCHANGED ledgerVars
  /\ Advance(r)
  /\ UNCHANGED <<left, route, paid, acquired, lease, cost, streamVars,
                 rowVars, drops, toggles, optIn>>

\* settle_request_ledger and settle_stream_request_ledger: without a positive
\* cost they return before the database call.
Settle(r) ==
  /\ pc[r] = "settle"
  /\ \/ cost[r] = 0 /\ NoFault /\ UNCHANGED ledgerVars
     \/ cost[r] > 0 /\ NoFault /\ InsertSettle(r, cost[r])
     \/ cost[r] > 0 /\ Fault /\ UNCHANGED ledgerVars
  /\ Advance(r)
  /\ UNCHANGED <<left, route, paid, acquired, lease, cost, streamVars,
                 rowVars, drops, toggles, optIn>>

\* Mutant: a request that was refused a slot gives one back.
ReleaseSlotAlways(r) ==
  /\ pc[r] = "release_vk"
  /\ NoFault
  /\ vkUsed' = [vkUsed EXCEPT ![KeyOf[r]] = Decrement(@)]
  /\ Advance(r)
  /\ UNCHANGED <<left, route, paid, acquired, lease, cost, streamVars,
                 log, attempts, pkUsed, drops, toggles, optIn, ledgerVars>>

\* release_virtual_key_concurrency_if_needed.
ReleaseSlot(r) ==
  /\ pc[r] = "release_vk"
  /\ \/ NoFault /\ vkUsed' = IF acquired[r] THEN [vkUsed EXCEPT ![KeyOf[r]] = Decrement(@)]
                                            ELSE vkUsed
     \/ acquired[r] /\ Fault /\ UNCHANGED vkUsed
  /\ Advance(r)
  /\ UNCHANGED <<left, route, paid, acquired, lease, cost, streamVars,
                 log, attempts, pkUsed, drops, toggles, optIn, ledgerVars>>

-----------------------------------------------------------------------------
(* Everything else that happens to a request *)

\* The client leaves and the server drops the handler's future between two of
\* its calls.  An open body has its own action, and a finalizer is a spawned
\* task that no longer depends on the connection.
Disconnect(r) ==
  /\ pc[r] \notin {"idle", "stream", "done", "dead"} /\ ~claimed[r]
  /\ drops < MaxDrops /\ drops' = drops + 1
  /\ Goto(r, "dead")
  /\ UNCHANGED <<plan, left, route, paid, acquired, lease, outcome, cost, streamVars,
                 rowVars, faults, toggles, optIn, ledgerVars>>

\* The gateway process stops: every handler and finalizer in it is gone.
Crash ==
  /\ drops < MaxDrops /\ drops' = drops + 1
  /\ \E r \in Requests : pc[r] \notin {"idle", "done", "dead"}
  /\ pc' = [r \in Requests |-> IF pc[r] \in {"idle", "done"} THEN pc[r] ELSE "dead"]
  /\ body' = [r \in Requests |-> IF body[r] = "none" THEN "none" ELSE "closed"]
  /\ UNCHANGED <<plan, left, route, paid, acquired, lease, outcome, cost, sent, terminal, claimed,
                 rowVars, faults, toggles, optIn, ledgerVars>>

\* An administrator changes the paid opt-in of a virtual key.
ToggleOptIn(k) ==
  /\ toggles < MaxToggles /\ toggles' = toggles + 1
  /\ optIn' = [optIn EXCEPT ![k] = ~@]
  /\ UNCHANGED <<handlerVars, rowVars, faults, drops, ledgerVars>>

\* The refund-after-settle endpoint; a replay changes nothing.
RefundSettled(r) ==
  /\ optIn[KeyOf[r]]
  /\ InsertRefund(r)
  /\ UNCHANGED <<handlerVars, rowVars, envVars>>

-----------------------------------------------------------------------------
(* What the code does by itself once the request is in. *)
Progress(r) ==
  \/ Gate(r) \/ PreAuthorize(r) \/ Reserve(r) \/ AcquireSlot(r) \/ AcquireWindows(r)
  \/ NextRoute(r) \/ AcquireLease(r) \/ StartAttempt(r)
  \/ Respond(r) \/ OpenStream(r) \/ AttemptFails(r)
  \/ ReleaseLease(r) \/ FinishAttempt(r) \/ FinishLog(r) \/ ReturnReserve(r) \/ Settle(r)
  \/ ReleaseSlot(r)

Step(r) ==
  \/ Arrive(r) \/ RefuseEarly(r) \/ Progress(r)
  \/ ForwardEvent(r) \/ StreamEnds(r) \/ DropBody(r) \/ Disconnect(r) \/ RefundSettled(r)

Next ==
  \/ \E r \in Requests : Step(r)
  \/ \E k \in VirtualKeys : ToggleOptIn(k)
  \/ Crash

Spec == Init /\ [][Next]_vars

(* The handler is a future that the runtime keeps polling and every call it  *)
(* awaits has a timeout, so a request that can go on does.  Nothing forces a *)
(* stream to end: an upstream may send for ever.                             *)
FairSpec == Spec /\ \A r \in Requests : WF_vars(Progress(r))

-----------------------------------------------------------------------------
(* The abstract specification this one implements *)

\* Where the money of a request is, read from its ledger rows.
MoneyOf(r) ==
  IF refund[r] > 0 THEN "refunded"
  ELSE IF settle[r] > 0 THEN "charged"
  ELSE IF reserve[r] = "pending" THEN "held"
  ELSE IF reserve[r] = "reversed" THEN "returned"
  ELSE "free"

Contract ==
  INSTANCE ChargeContract WITH money <- [r \in Requests |-> MoneyOf(r)],
                               charge <- settle,
                               Amounts <- Costs \ {0}

\* The ledger rows that the handlers, the stream finalizers and the refund
\* endpoint write, in whatever order their calls, faults, disconnects and
\* crashes fall, keep the promise of ChargeContract: one hold, ended as a charge
\* or as a return, and a charge that is refunded at most once.
ImplementsContract == Contract!ContractSpec

-----------------------------------------------------------------------------
(* Properties *)

InFlight(r) == pc[r] \notin {"idle", "done", "dead"}

SlotHolders(k) == {r \in Requests : KeyOf[r] = k /\ acquired[r] /\ InFlight(r)}

LeaseHolders(k) == {r \in Requests : route[r] = k /\ lease[r] /\ InFlight(r)}

\* A virtual key's concurrency counter never counts less than the requests that
\* hold one of its slots and never passes the limit, whatever calls fail and
\* whoever is dropped: acquire and release are a conditional increment and a
\* clamped decrement, and each holder reaches at most one release.
SlotsCounted ==
  \A k \in VirtualKeys :
    /\ Cardinality(SlotHolders(k)) <= vkUsed[k]
    /\ VkLimit[k] > 0 => vkUsed[k] <= VkLimit[k]

\* As long as no call failed and no handler was dropped, the counter is exact:
\* every return path of the handlers and of the stream finalizer releases the
\* slot it took, once.
SlotsReturned ==
  faults = 0 /\ drops = 0 =>
    \A k \in VirtualKeys : vkUsed[k] = Cardinality(SlotHolders(k))

\* The same for the concurrency counter of a provider key and the attempts
\* that hold a reservation on it.
LeasesCounted ==
  \A k \in ProviderKeys :
    /\ Cardinality(LeaseHolders(k)) <= pkUsed[k]
    /\ PkLimit[k] > 0 => pkUsed[k] <= PkLimit[k]

\* No provider is called for a paid request whose money is not frozen: the
\* reserve is still pending at every later call of the attempt, although other
\* requests, releases and opt-in changes come in between.
PaidCallIsReserved ==
  \A r \in Requests :
    paid[r] /\ pc[r] \in {"acquire", "start", "call", "stream"} => reserve[r] = "pending"

\* A wallet is never overdrawn when no response costs more than was frozen for
\* it: the balance test and the insert of a reserve are one serializable
\* transaction, and a settle replaces the reserve it was covered by.  This holds
\* for a wallet that one project uses; a wallet that several projects share is
\* overdrawn, because a settle row is counted for its own project only.
WalletSolvent ==
  faults = 0 =>
    \A w \in Wallets :
      Credit[w] - Frozen(w) >=
        SumFunctionOnSet([p \in Projects |-> NetSpend(p)], {p \in Projects : WalletOf[p] = w})

\* Money is charged only for an answered request, at the cost that was rated,
\* and never while the request's reserve still freezes the wallet too.
ChargedOnlyForSuccess ==
  \A r \in Requests :
    settle[r] > 0 => /\ outcome[r] = "succeeded"
                     /\ settle[r] = cost[r]
                     /\ reserve[r] # "pending"

\* A request that ended by itself has nothing frozen any more, unless it
\* succeeded and there was nothing to settle.
ReserveReturned ==
  faults = 0 =>
    \A r \in Requests :
      pc[r] = "done" /\ reserve[r] = "pending" => log[r] = "succeeded" /\ cost[r] = 0

\* A request that ended by itself has a final status in the request log and
\* left none of its provider attempts in status "started".
DoneIsLogged ==
  faults = 0 =>
    \A r \in Requests :
      pc[r] = "done" =>
        /\ log[r] \notin {"none", "started"}
        /\ \A k \in ProviderKeys : attempts[r][k] # "started"

\* Where a handler is in its closing sequence decides which calls it makes; an
\* open body nobody has claimed belongs to a handler that is streaming.
ClosingInv(r) ==
  /\ pc[r] \in ClosingSteps => plan[r] # "none"
  /\ pc[r] = "finish_log" => plan[r] # "fallback"
  /\ pc[r] = "release_reserve" => plan[r] \in {"abort", "fail", "ended"}
  /\ pc[r] = "settle" => plan[r] \in {"success", "completed"}
  /\ plan[r] \in {"success", "completed"} => outcome[r] = "succeeded"
  /\ body[r] \in {"open", "closing"} /\ ~claimed[r] => pc[r] = "stream"

\* The settle is the last thing that happens to the money of a request that
\* succeeded, the return of the reserve that of one that did not.
MoneyInv(r) ==
  /\ settle[r] > 0 =>
       /\ \/ pc[r] \in {"release_vk", "done", "dead"}
          \/ pc[r] = "finish_attempt" /\ plan[r] = "completed"
       /\ outcome[r] = "succeeded" /\ settle[r] = cost[r] /\ reserve[r] # "pending"
  /\ settle[r] = 0 /\ reserve[r] = "reversed" =>
       /\ plan[r] \in {"abort", "fail", "ended"}
       /\ \/ pc[r] \in {"release_vk", "done", "dead"}
          \/ pc[r] \in {"finish_log", "finish_attempt"} /\ plan[r] = "ended"
  /\ refund[r] \in {0, settle[r]}
  /\ cost[r] \in Costs \cup {0}

\* The inductive invariant behind ChargedOnlyForSuccess, PaidCallIsReserved and
\* ImplementsContract.
ChargeInv == PaidCallIsReserved /\ \A r \in Requests : ClosingInv(r) /\ MoneyInv(r)

\* A request that came in goes on until it streams or ends, under any mix of
\* refusals, failures and fallbacks: the attempt loop consumes its routes and
\* no closing sequence waits for anybody.
Finishes ==
  \A r \in Requests : pc[r] # "idle" ~> pc[r] \in {"stream", "done", "dead"}

\* Once the body of a stream is dropped, the stream is finalized to the end.
StreamFinalized ==
  \A r \in Requests : body[r] \in {"closing", "closed"} ~> pc[r] \in {"done", "dead"}
=============================================================================
