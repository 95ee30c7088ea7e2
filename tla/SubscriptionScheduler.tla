------------------------ MODULE SubscriptionScheduler ------------------------
(***************************************************************************)
(* The subscription scheduler of the control plane.  An operator's plan    *)
(* request reads a subscription and inserts scheduler events, one          *)
(* statement each.  Events are executed by the run-due endpoint, which     *)
(* the worker process and operators call and which reads the list of due   *)
(* events first and then takes one transaction per event, and by the       *)
(* execute-plan request, which does not ask whether the event is due.  A   *)
(* transaction locks the event and its subscription, looks at the event's  *)
(* status, writes the effects and closes the event.  There is no payment:  *)
(* a renewal is settled locally and only hands over to the provider.       *)
(*                                                                         *)
(* An event is named by its idempotency key.  What the other tables hold   *)
(* for an event is kept in its row: the number of credit grants, of ledger *)
(* entries and of orders with their invoice; the last two have keys of     *)
(* their own and are written once at most.                                 *)
(***************************************************************************)
EXTENDS Naturals, Sequences, FiniteSets

CONSTANTS
  Subs,          \* subscriptions
  Plans,         \* subscription plans
  Price, Credit, \* unit_price and included_credit_amount of each plan
  OneTime,       \* plans with billing_interval one_time
  Sellable,      \* active plans of the subscription's currency
  Start,         \* the first row of each subscription: [status, end, plan]
  Workers,       \* worker processes in mode apply
  Daemons,       \* those started with --interval-seconds and no --max-runs
  WorkerFilter,  \* the statuses their --event-status lists, {"scheduled"} by default
  Operators,     \* administrators
  Requests,      \* plan requests they may send: [sub, action, target]
  Modes,         \* modes of execute-plan they may use
  NoPlan, NoActor, NoEvent,
  Period, DunningAfter, ExpireAfter, RetryAfter,
  MaxAttempts,   \* max_attempts of the dunning policy
  MaxTime, MaxRequests, MaxFaults

Actors == Workers \cup Operators
Types == {"renew", "payment_failed", "dunning", "expire", "prorate"}
Statuses == {"created", "trialing", "active", "renewed", "payment_failed", "expired"}
Plannable == {"created", "trialing", "active", "renewed", "payment_failed"}
Renewable == {"trialing", "active", "renewed", "payment_failed"}

\* What normalize_subscription_scheduler_run_due_statuses returns.
Filters == {{"scheduled"}, {"replayed"}, {"scheduled", "replayed"}}

ASSUME PlanAssumption ==
  /\ Price \in [Plans -> Nat] /\ Credit \in [Plans -> Nat]
  /\ OneTime \subseteq Plans /\ Sellable \subseteq Plans /\ NoPlan \notin Plans
ASSUME StartAssumption ==
  Start \in [Subs -> [status : Plannable \ {"payment_failed"}, end : Nat, plan : Plans]]
ASSUME ActorAssumption ==
  /\ NoActor \notin Actors /\ Workers \cap Operators = {} /\ Daemons \subseteq Workers
  /\ WorkerFilter \in Filters
ASSUME RequestAssumption ==
  /\ Requests \subseteq [sub : Subs, action : {"renewal", "grace", "dunning", "proration", "all"},
                         target : Plans \cup {NoPlan}]
  /\ Modes \subseteq {"apply", "refuse", "replay"}
ASSUME NumberAssumption ==
  /\ Period \in Nat \ {0} /\ DunningAfter \in Nat /\ ExpireAfter \in Nat /\ RetryAfter \in Nat
  /\ MaxAttempts \in Nat \ {0} /\ MaxTime \in Nat /\ MaxRequests \in Nat /\ MaxFaults \in Nat

VARIABLES
  now,
  subs,      \* subscriptions: [status, end, plan]
  events,    \* subscription_events_or_schedules, by key
  pc,        \* "idle", "plan", "run", "locked"
  todo,      \* the inserts a plan request has still to do
  list,      \* the events a request has still to execute
  mode,      \* the mode of that request
  at,        \* the event its open transaction works on
  seen,      \* the status of that event as the transaction read it
  locked,    \* who holds the row lock of each subscription
  requests, faults

vars == <<now, subs, events, pc, todo, list, mode, at, seen, locked, requests, faults>>
actorVars == <<pc, todo, list, mode, at, seen>>

-----------------------------------------------------------------------------
(* Events. *)

\* subscription_scheduler_idempotency_hash
Key(s, type, tag, target) == <<s, type, tag, target>>
SubOf(k) == k[1]
TypeOf(k) == k[2]
TargetOf(k) == k[4]

Scheduled(when) ==
  [status |-> "scheduled", at |-> when, grants |-> 0, entry |-> 0, order |-> 0]

\* insert ... on conflict (tenant_id, idempotency_key_hash): the row stays.
Insert(k, when) ==
  [x \in DOMAIN events \cup {k} |-> IF x \in DOMAIN events THEN events[x] ELSE Scheduled(when)]

\* Mutant: only a refusal is final.
ClaimableUnlessRefused(status) == status # "refused"

Claimable(status) == status \in {"scheduled", "replayed"}

\* The due events whose status the caller's filter names.
Due(filter) ==
  {k \in DOMAIN events : events[k].status \in filter /\ events[k].at <= now}

-----------------------------------------------------------------------------
(* Plan requests. *)

subscription_scheduler_planned_event_types(row, action, target) ==
  CASE action = "renewal" -> <<"renew">>
    [] action = "grace" -> <<"payment_failed">>
    [] action = "proration" -> IF target \notin {NoPlan, row.plan} THEN <<"prorate">> ELSE <<>>
    [] OTHER -> IF row.status = "payment_failed" THEN <<"dunning", "expire">>
                ELSE IF action = "all" THEN <<"renew">> ELSE <<>>

\* subscription_scheduler_event_effective_at: the tag of the key.
Tag(type, end) ==
  CASE type = "renew" -> <<"at", end>>
    [] type = "dunning" -> <<"at", end + DunningAfter>>
    [] type = "expire" -> <<"at", end + ExpireAfter>>
    [] OTHER -> <<"now", 0>>

Init ==
  /\ now = 0
  /\ subs = Start
  /\ events = [k \in {} |-> Scheduled(0)]
  /\ pc = [a \in Actors |-> "idle"]
  /\ todo = [a \in Actors |-> <<>>]
  /\ list = [a \in Actors |-> {}]
  /\ mode = [a \in Actors |-> "apply"]
  /\ at = [a \in Actors |-> NoEvent]
  /\ seen = [a \in Actors |-> "none"]
  /\ locked = [s \in Subs |-> NoActor]
  /\ requests = 0 /\ faults = 0

\* The subscription is read outside any transaction.
PlanRequest(o, r) ==
  /\ pc[o] = "idle" /\ requests < MaxRequests
  /\ subs[r.sub].status \in Plannable
  /\ LET row == subs[r.sub]
         types == subscription_scheduler_planned_event_types(row, r.action, r.target)
     IN /\ types # <<>>
        /\ todo' = [todo EXCEPT ![o] =
             [i \in 1..Len(types) |->
                Key(r.sub, types[i], Tag(types[i], row.end), r.target)]]
  /\ pc' = [pc EXCEPT ![o] = "plan"]
  /\ requests' = requests + 1
  /\ UNCHANGED <<now, subs, events, list, mode, at, seen, locked, faults>>

\* subscription_scheduler_apply_events: one statement per event.
InsertEvent(o) ==
  /\ pc[o] = "plan"
  /\ LET k == Head(todo[o]) IN
       events' = Insert(k, IF k[3][1] = "now" THEN now ELSE k[3][2])
  /\ todo' = [todo EXCEPT ![o] = Tail(@)]
  /\ pc' = [pc EXCEPT ![o] = IF Len(todo[o]) = 1 THEN "idle" ELSE @]
  /\ UNCHANGED <<now, subs, list, mode, at, seen, locked, requests, faults>>

-----------------------------------------------------------------------------
(* Requests that execute events. *)

\* The list of due events is read without a lock.
ListDue(a, filter) ==
  /\ pc[a] = "idle" /\ Due(filter) # {}
  /\ list' = [list EXCEPT ![a] = Due(filter)]
  /\ pc' = [pc EXCEPT ![a] = "run"]
  /\ UNCHANGED <<now, subs, events, todo, at, seen, locked, faults>>

RunDue(w) ==
  /\ ListDue(w, WorkerFilter)
  /\ UNCHANGED <<mode, requests>>

\* An operator's own call names its filter and its mode.
OperatorRunDue(o, filter, m) ==
  /\ requests < MaxRequests
  /\ ListDue(o, filter)
  /\ mode' = [mode EXCEPT ![o] = m]
  /\ requests' = requests + 1

ExecutePlan(o, k, m) ==
  /\ pc[o] = "idle" /\ requests < MaxRequests
  /\ k \in DOMAIN events
  /\ list' = [list EXCEPT ![o] = {k}]
  /\ mode' = [mode EXCEPT ![o] = m]
  /\ pc' = [pc EXCEPT ![o] = "run"]
  /\ requests' = requests + 1
  /\ UNCHANGED <<now, subs, events, todo, at, seen, locked, faults>>

\* order by effective_at
Oldest(a, k) == k \in list[a] /\ \A j \in list[a] : events[k].at <= events[j].at

\* Mutant: a plain select.
LockFreeAlways(s) == TRUE

LockFree(s) == locked[s] = NoActor

\* select ... for update of e, s: waits, and reads the committed status.
LockEvent(a) ==
  /\ pc[a] = "run"
  /\ \E k \in list[a] :
       /\ Oldest(a, k)
       /\ LockFree(SubOf(k))
       /\ locked' = [locked EXCEPT ![SubOf(k)] = a]
       /\ at' = [at EXCEPT ![a] = k]
       /\ seen' = [seen EXCEPT ![a] = events[k].status]
  /\ pc' = [pc EXCEPT ![a] = "locked"]
  /\ UNCHANGED <<now, subs, events, todo, list, mode, requests, faults>>

\* Mutant: the row lock outlives the transaction.
EndTxKeepsLock(a, rest) ==
  /\ list' = [list EXCEPT ![a] = rest]
  /\ pc' = [pc EXCEPT ![a] = IF rest = {} THEN "idle" ELSE "run"]
  /\ at' = [at EXCEPT ![a] = NoEvent]
  /\ seen' = [seen EXCEPT ![a] = "none"]
  /\ UNCHANGED <<todo, locked>>

\* The transaction ends: the locks go and the request has `rest' to do.
EndTx(a, rest) ==
  /\ locked' = [locked EXCEPT ![SubOf(at[a])] = NoActor]
  /\ list' = [list EXCEPT ![a] = rest]
  /\ pc' = [pc EXCEPT ![a] = IF rest = {} THEN "idle" ELSE "run"]
  /\ at' = [at EXCEPT ![a] = NoEvent]
  /\ seen' = [seen EXCEPT ![a] = "none"]
  /\ UNCHANGED todo

Rest(a) == list[a] \ {at[a]}

\* An event somebody else has closed: idempotent_noop.
SkipEvent(a) ==
  /\ pc[a] = "locked" /\ ~Claimable(seen[a])
  /\ EndTx(a, Rest(a))
  /\ UNCHANGED <<now, subs, events, mode, requests, faults>>

\* Mutant: a status the table does not know.
ClosedDone(k, status) ==
  IF Claimable(events[k].status) THEN [events EXCEPT ![k].status = "done"] ELSE events

\* update ... where event_status in ('scheduled', 'replayed')
Closed(k, status) ==
  IF Claimable(events[k].status) THEN [events EXCEPT ![k].status = status] ELSE events

\* refuse and replay write the status only.
CloseEvent(a) ==
  /\ pc[a] = "locked" /\ Claimable(seen[a]) /\ mode[a] # "apply"
  /\ events' = Closed(at[a], IF mode[a] = "refuse" THEN "refused" ELSE "replayed")
  /\ EndTx(a, Rest(a))
  /\ UNCHANGED <<now, subs, mode, requests, faults>>

Applying(a, type) ==
  pc[a] = "locked" /\ Claimable(seen[a]) /\ mode[a] = "apply" /\ TypeOf(at[a]) = type

-----------------------------------------------------------------------------
(* Renewal. *)

\* The new period of a one_time plan would be empty: the update violates
\* check (current_period_end > current_period_start).
Unrenewable(s) == subs[s].plan \in OneTime /\ subs[s].status \in Renewable

\* The grant and the ledger entry are written for a plan with credit, order
\* and invoice always; only a subscription in a renewable status moves on.
ApplyRenew(a) ==
  /\ Applying(a, "renew")
  /\ LET k == at[a]
         s == SubOf(k)
         credit == IF Credit[subs[s].plan] > 0 THEN 1 ELSE 0
     IN /\ ~Unrenewable(s)
        /\ events' = [Closed(k, "applied") EXCEPT
             ![k].grants = @ + credit, ![k].entry = IF credit = 1 THEN 1 ELSE @, ![k].order = 1]
        /\ subs' = IF subs[s].status \in Renewable
                   THEN [subs EXCEPT ![s].status = "renewed", ![s].end = @ + Period]
                   ELSE subs
  /\ EndTx(a, Rest(a))
  /\ UNCHANGED <<now, mode, requests, faults>>

\* The statement fails, the transaction rolls back and the request ends with an
\* error, whatever else is on its list.
FailRenew(a) ==
  /\ Applying(a, "renew")
  /\ Unrenewable(SubOf(at[a]))
  /\ EndTx(a, {})
  /\ UNCHANGED <<now, subs, events, mode, requests, faults>>

-----------------------------------------------------------------------------
(* Failed payments. *)

AppliedDunning(s) ==
  {k \in DOMAIN events : SubOf(k) = s /\ TypeOf(k) = "dunning" /\ events[k].status = "applied"}

\* Mutant: the retries share a number.
RetryKeyUnnumbered(s, n) == Key(s, "dunning", <<"retry", 0>>, NoPlan)

RetryKey(s, n) == Key(s, "dunning", <<"retry", n>>, NoPlan)

\* Mutant: one attempt too many.
AttemptsUsedUpLate(attempt) == attempt > MaxAttempts

AttemptsUsedUp(attempt) == attempt >= MaxAttempts

\* apply_subscription_dunning_retry_state_tx: the next retry, or the end.  The
\* status of the subscription is written whatever it was.
ApplyFailure(a) ==
  /\ Applying(a, "payment_failed") \/ Applying(a, "dunning")
  /\ LET k == at[a]
         s == SubOf(k)
         others == Cardinality(AppliedDunning(s) \ {k})
         attempt == others + (IF TypeOf(k) = "dunning" THEN 1 ELSE 0)
     IN IF AttemptsUsedUp(attempt)
        THEN /\ subs' = [subs EXCEPT ![s].status = "expired"]
             /\ events' = Closed(k, "applied")
        ELSE /\ subs' = [subs EXCEPT ![s].status = "payment_failed"]
             /\ LET next == Insert(RetryKey(s, attempt + 1), now + RetryAfter)
                IN events' = IF Claimable(events[k].status)
                             THEN [next EXCEPT ![k].status = "applied"] ELSE next
  /\ EndTx(a, Rest(a))
  /\ UNCHANGED <<now, mode, requests, faults>>

ApplyExpire(a) ==
  /\ Applying(a, "expire")
  /\ subs' = [subs EXCEPT ![SubOf(at[a])].status = "expired"]
  /\ events' = Closed(at[a], "applied")
  /\ EndTx(a, Rest(a))
  /\ UNCHANGED <<now, mode, requests, faults>>

-----------------------------------------------------------------------------
(* Proration. *)

\* blocked_code: the plan cannot be sold, no time is left, or no difference.
ProrationApplies(s, target) ==
  /\ target \in Sellable
  /\ now < subs[s].end
  /\ Price[target] # Price[subs[s].plan]

\* A downgrade leaves credit and a ledger entry, an upgrade order and invoice.
negative_proration_credit(k) ==
  [Closed(k, "applied") EXCEPT ![k].grants = @ + 1, ![k].entry = 1]
ensure_invoice_order_linkage(k) == [Closed(k, "applied") EXCEPT ![k].order = 1]

\* A blocked event is closed as applied all the same.
ApplyProrate(a) ==
  /\ Applying(a, "prorate")
  /\ LET k == at[a]
         s == SubOf(k)
         down == Price[TargetOf(k)] < Price[subs[s].plan]
     IN IF TargetOf(k) # NoPlan /\ ProrationApplies(s, TargetOf(k))
        THEN /\ subs' = [subs EXCEPT ![s].plan = TargetOf(k), ![s].status =
                           IF @ \in {"created", "trialing"} THEN @ ELSE "active"]
             /\ events' = IF down THEN negative_proration_credit(k)
                          ELSE ensure_invoice_order_linkage(k)
        ELSE events' = Closed(k, "applied") /\ UNCHANGED subs
  /\ EndTx(a, Rest(a))
  /\ UNCHANGED <<now, mode, requests, faults>>

-----------------------------------------------------------------------------
\* A statement fails or the process stops: the open transaction leaves
\* nothing, what the request committed before stays.
Fail(a) ==
  /\ pc[a] \in {"plan", "locked"} /\ faults < MaxFaults
  /\ faults' = faults + 1
  /\ IF pc[a] = "locked" THEN EndTx(a, {})
     ELSE /\ todo' = [todo EXCEPT ![a] = <<>>]
          /\ pc' = [pc EXCEPT ![a] = "idle"]
          /\ UNCHANGED <<list, at, seen, locked>>
  /\ UNCHANGED <<now, subs, events, mode, requests>>

Tick ==
  /\ now < MaxTime
  /\ now' = now + 1
  /\ UNCHANGED <<subs, events, actorVars, locked, requests, faults>>

Transaction(a) ==
  \/ LockEvent(a) \/ SkipEvent(a) \/ CloseEvent(a)
  \/ ApplyRenew(a) \/ FailRenew(a) \/ ApplyFailure(a) \/ ApplyExpire(a) \/ ApplyProrate(a)

Next ==
  \/ \E o \in Operators :
       \/ \E r \in Requests : PlanRequest(o, r)
       \/ InsertEvent(o)
       \/ \E k \in DOMAIN events, m \in Modes : ExecutePlan(o, k, m)
       \/ \E f \in Filters, m \in Modes : OperatorRunDue(o, f, m)
  \/ \E w \in Workers : RunDue(w)
  \/ \E a \in Actors : Transaction(a) \/ Fail(a)
  \/ Tick

\* Requests that were accepted run on.  A worker with an interval and no limit
\* of runs asks again for ever, after an error too; any other worker stops after
\* its last run, and nobody owes a request.
Spec ==
  /\ Init /\ [][Next]_vars
  /\ \A w \in Daemons : WF_vars(RunDue(w))
  /\ \A a \in Actors : WF_vars(Transaction(a))

-----------------------------------------------------------------------------
(* Properties. *)

EventRow == [status : {"scheduled", "applied", "refused", "replayed"}, at : Nat,
             grants : Nat, entry : {0, 1}, order : {0, 1}]
Keys == Subs \X Types \X ({"at", "now", "retry"} \X Nat) \X (Plans \cup {NoPlan})

TypeOK ==
  /\ now \in 0..MaxTime
  /\ subs \in [Subs -> [status : Statuses, end : Nat, plan : Plans]]
  /\ DOMAIN events \subseteq Keys
  /\ \A k \in DOMAIN events : events[k] \in EventRow
  /\ pc \in [Actors -> {"idle", "plan", "run", "locked"}]
  /\ todo \in [Actors -> Seq(Keys)]
  /\ \A a \in Actors : (pc[a] = "plan") <=> (todo[a] # <<>>)
  /\ list \in [Actors -> SUBSET Keys]
  /\ \A a \in Actors : list[a] \subseteq DOMAIN events
  /\ mode \in [Actors -> {"apply", "refuse", "replay"}]
  /\ at \in [Actors -> Keys \cup {NoEvent}]
  /\ \A a \in Actors : pc[a] = "locked" => at[a] \in list[a]
  /\ seen \in [Actors -> {"none", "scheduled", "applied", "refused", "replayed"}]
  /\ locked \in [Subs -> Actors \cup {NoActor}]
  /\ requests \in 0..MaxRequests /\ faults \in 0..MaxFaults

\* An event gives credit once, and only when it is applied, although workers
\* and operators execute it at the same time, transactions fail and the event
\* is replayed; a grant has its ledger entry.
CreditOnce ==
  \A k \in DOMAIN events :
    /\ events[k].grants <= 1
    /\ events[k].entry = events[k].grants
    /\ events[k].grants = 1 \/ events[k].order = 1 => events[k].status = "applied"

\* An event that is applied or refused is final, with all it has written.
ClosedStays ==
  [][\A k \in DOMAIN events :
       events[k].status \in {"applied", "refused"} => events'[k] = events[k]]_vars

\* A subscription whose payment failed has a next step: some dunning event can
\* still be executed, unless an operator has refused one.  So the chain of
\* retries never breaks, whatever planned dunning events are mixed into it.
RetryPending ==
  \A s \in Subs : subs[s].status = "payment_failed" =>
    \E k \in DOMAIN events : /\ SubOf(k) = s /\ TypeOf(k) = "dunning"
                             /\ events[k].status # "applied"

\* After max_attempts dunning events nobody waits for another one: the
\* subscription is not in payment_failed.  Counting and closing are one step of
\* the model, since they are one transaction under the subscription's lock.
AttemptsBounded ==
  \A s \in Subs :
    Cardinality(AppliedDunning(s)) >= MaxAttempts => subs[s].status # "payment_failed"

DueFor(s) == \E k \in Due(WorkerFilter) : SubOf(k) = s

\* A renewal that cannot be applied is due, or is on a list.
Poisoned == \E k \in DOMAIN events : /\ TypeOf(k) = "renew" /\ Claimable(events[k].status)
                                     /\ Unrenewable(SubOf(k))

\* A daemon works off the due events its filter names, across races with
\* operators and failed transactions, as long as no one_time plan waits for its
\* renewal (FailureIsTerminal is about that case).
DueEventsSettle ==
  Daemons # {} => \A s \in Subs : DueFor(s) ~> (~DueFor(s) \/ Poisoned)

\* An event that fails is refused at the end ("failure_terminal_status" in
\* subscription_scheduler_retry_policy), so no other subscription waits for it
\* for ever.
FailureIsTerminal ==
  \A s \in Subs : (DueFor(s) /\ ~Unrenewable(s)) ~> (~DueFor(s) \/ Unrenewable(s))

=============================================================================
