------------------------- MODULE ProviderKeyHealth --------------------------
(***************************************************************************)
(* The health of one provider key: columns status and cooldown_until of    *)
(* provider_keys, and everybody who writes them.  The gateway does after a *)
(* failed attempt (apps/gateway/src/main.rs), the worker's recovery probe  *)
(* does with what the upstream answered it (apps/worker/src/main.rs), and  *)
(* operators do through the admin API (apps/control-plane/src/admin.rs).   *)
(* Each of them reads the row, or learns something, in one step and writes *)
(* in a later one.                                                         *)
(*                                                                         *)
(* Time is what cooldown_until can be compared with: it is unset, in the   *)
(* future or in the past.                                                  *)
(***************************************************************************)
EXTENDS Naturals

CONSTANTS
  Attempts,   \* provider attempts of the gateway on this key
  Probes,     \* probes of the key by runs of "recovery-probe --execute"
  Operators   \* admin requests about this key

VARIABLES
  status,     \* provider_keys.status
  until,      \* provider_keys.cooldown_until
  attempt,    \* progress of each attempt
  error,      \* what a failed attempt met
  probe,      \* progress of each probe
  seen,       \* provider_key_status of the candidate a probe works on
  operator,   \* progress of each admin request
  target      \* the status an admin request will write

rowVars == <<status, until>>
attemptVars == <<attempt, error>>
probeVars == <<probe, seen>>
operatorVars == <<operator, target>>
vars == <<rowVars, attemptVars, probeVars, operatorVars>>

Routable == {"enabled", "degraded", "recovery_probe"}
Withdrawn == {"manual_disabled", "deleted"}
KeyStatus == Routable \cup Withdrawn \cup {"cooldown", "auth_failed", "quota_exhausted"}

\* Provider errors, by what classify_provider_error and the quota test make of
\* them: 401 and 403, a quota text, 429, a degrading error with and without
\* Retry-After, an error of the client's request.
Errors == {"auth", "quota", "rate_limited", "overloaded", "server", "client"}

TypeOK ==
  /\ status \in KeyStatus
  /\ until \in {"unset", "future", "past"}
  /\ attempt \in [Attempts -> {"idle", "selected", "calling", "failed", "done"}]
  /\ error \in [Attempts -> Errors \cup {"none"}]
  /\ probe \in [Probes -> {"idle", "listed", "succeeded", "failed", "done"}]
  /\ seen \in [Probes -> {"none", "cooldown", "recovery_probe"}]
  /\ operator \in [Operators -> {"idle", "patch", "recover", "rotate", "done"}]
  /\ target \in [Operators -> KeyStatus \cup {"none"}]

Init ==
  /\ status = "enabled"
  /\ until = "unset"
  /\ attempt = [a \in Attempts |-> "idle"]
  /\ error = [a \in Attempts |-> "none"]
  /\ probe = [p \in Probes |-> "idle"]
  /\ seen = [p \in Probes |-> "none"]
  /\ operator = [o \in Operators |-> "idle"]
  /\ target = [o \in Operators |-> "none"]

\* The clock passes the end of the cooldown.
Elapse ==
  /\ until = "future"
  /\ until' = "past"
  /\ UNCHANGED <<status, attemptVars, probeVars, operatorVars>>

-----------------------------------------------------------------------------
(* The gateway *)

\* Mutant: a key in cooldown waits for somebody to change its status.
SelectableRoutableOnly == status \in Routable /\ until # "future"

\* The condition on a key in resolve_chat_route_candidates and in the lookup of
\* its secret.
Selectable ==
  \/ status \in Routable /\ until # "future"
  \/ status = "cooldown" /\ until = "past"

SelectKey(a) ==
  /\ attempt[a] = "idle"
  /\ Selectable
  /\ attempt' = [attempt EXCEPT ![a] = "selected"]
  /\ UNCHANGED <<rowVars, error, probeVars, operatorVars>>

\* The key is looked up again just before the call; if it cannot be used any
\* more, the attempt ends without an effect on the key.
OpenKey(a) ==
  /\ attempt[a] = "selected"
  /\ attempt' = [attempt EXCEPT ![a] = IF Selectable THEN "calling" ELSE "done"]
  /\ UNCHANGED <<rowVars, error, probeVars, operatorVars>>

\* The upstream answers; an error that concerns the key is kept for the update.
Answer(a) ==
  /\ attempt[a] = "calling"
  /\ \/ /\ attempt' = [attempt EXCEPT ![a] = "done"]
        /\ UNCHANGED error
     \/ \E e \in Errors :
          /\ attempt' = [attempt EXCEPT ![a] = "failed"]
          /\ error' = [error EXCEPT ![a] = e]
  /\ UNCHANGED <<rowVars, probeVars, operatorVars>>

\* provider_key_status_and_cooldown_for_classification.
StatusFor(e) ==
  IF e = "auth" THEN "auth_failed"
  ELSE IF e = "quota" THEN "quota_exhausted"
  ELSE IF e \in {"rate_limited", "overloaded"} THEN "cooldown"
  ELSE "degraded"

UntilFor(e) == IF e \in {"rate_limited", "overloaded"} THEN "future" ELSE "unset"

\* Mutant: the update does not look at the status of the row.
UpdateAnyStatus(a) ==
  /\ attempt[a] = "failed"
  /\ attempt' = [attempt EXCEPT ![a] = "done"]
  /\ status' = StatusFor(error[a])
  /\ until' = UntilFor(error[a])
  /\ UNCHANGED <<error, probeVars, operatorVars>>

\* update_provider_key_runtime_status, in a call of its own after the attempt
\* is logged; the call may fail, and an error of the client changes nothing.
UpdateStatus(a) ==
  /\ attempt[a] = "failed"
  /\ attempt' = [attempt EXCEPT ![a] = "done"]
  /\ \/ /\ error[a] # "client" /\ status \notin Withdrawn
        /\ status' = StatusFor(error[a])
        /\ until' = UntilFor(error[a])
     \/ UNCHANGED rowVars
  /\ UNCHANGED <<error, probeVars, operatorVars>>

-----------------------------------------------------------------------------
(* The recovery probe *)

\* list_recovery_probe_candidates: the row is read without a lock.
ListCandidate(p) ==
  /\ probe[p] = "idle"
  /\ status = "recovery_probe" \/ (status = "cooldown" /\ until = "past")
  /\ probe' = [probe EXCEPT ![p] = "listed"]
  /\ seen' = [seen EXCEPT ![p] = status]
  /\ UNCHANGED <<rowVars, attemptVars, operatorVars>>

\* execute_http_recovery_probe: without the secret, which is only given out for
\* a key that still waits for its recovery, the probe fails.
RunProbe(p) ==
  /\ probe[p] = "listed"
  /\ \/ /\ status \in {"cooldown", "recovery_probe"}
        /\ probe' = [probe EXCEPT ![p] = "succeeded"]
     \/ probe' = [probe EXCEPT ![p] = "failed"]
  /\ UNCHANGED <<rowVars, seen, attemptVars, operatorVars>>

\* Mutant: a failure writes a status of its own.
ProbeStatusFailed(p) == IF probe[p] = "succeeded" THEN "enabled" ELSE "probe_failed"

\* recovery_probe_transition: a failure keeps the status the probe has seen.
ProbeStatus(p) == IF probe[p] = "succeeded" THEN "enabled" ELSE seen[p]

\* update_provider_key_recovery_probe_result: cooldown_until is left alone.
PersistProbe(p) ==
  /\ probe[p] \in {"succeeded", "failed"}
  /\ probe' = [probe EXCEPT ![p] = "done"]
  /\ \/ status \notin Withdrawn /\ status' = ProbeStatus(p)
     \/ UNCHANGED status
  /\ UNCHANGED <<until, seen, attemptVars, operatorVars>>

-----------------------------------------------------------------------------
(* The admin API: a request reads the row first, and writes it in a later    *)
(* transaction without comparing the status it has read                      *)

\* patch_provider_key: a patch without a status writes the one it has read.
ReadForPatch(o) ==
  /\ operator[o] = "idle" /\ status # "deleted"
  /\ operator' = [operator EXCEPT ![o] = "patch"]
  /\ \E s \in {status} \cup Routable \cup {"manual_disabled"} : target' = [target EXCEPT ![o] = s]
  /\ UNCHANGED <<rowVars, attemptVars, probeVars>>

\* request_provider_key_recovery and validate_provider_key_recovery_transition.
ReadForRecovery(o) ==
  /\ operator[o] = "idle" /\ status \in {"cooldown", "degraded", "recovery_probe"}
  /\ operator' = [operator EXCEPT ![o] = "recover"]
  /\ \E s \in {"enabled", "recovery_probe"} : target' = [target EXCEPT ![o] = s]
  /\ UNCHANGED <<rowVars, attemptVars, probeVars>>

\* rotate_provider_key takes the old key, which must be enabled, out of service.
ReadForRotation(o) ==
  /\ operator[o] = "idle" /\ status = "enabled"
  /\ operator' = [operator EXCEPT ![o] = "rotate"]
  /\ target' = [target EXCEPT ![o] = "manual_disabled"]
  /\ UNCHANGED <<rowVars, attemptVars, probeVars>>

\* update_provider_key_admin_with_audit and the transaction of the rotation:
\* only a deleted key is left alone; cooldown_until is not touched.
WriteKey(o) ==
  /\ operator[o] \in {"patch", "recover", "rotate"}
  /\ operator' = [operator EXCEPT ![o] = "done"]
  /\ status' = IF status = "deleted" THEN status ELSE target[o]
  /\ UNCHANGED <<until, target, attemptVars, probeVars>>

\* delete_provider_key: one statement.
DeleteKey(o) ==
  /\ operator[o] = "idle" /\ status # "deleted"
  /\ operator' = [operator EXCEPT ![o] = "done"]
  /\ status' = "deleted"
  /\ UNCHANGED <<until, target, attemptVars, probeVars>>

-----------------------------------------------------------------------------
Next ==
  \/ Elapse
  \/ \E a \in Attempts : SelectKey(a) \/ OpenKey(a) \/ Answer(a) \/ UpdateStatus(a)
  \/ \E p \in Probes : ListCandidate(p) \/ RunProbe(p) \/ PersistProbe(p)
  \/ \E o \in Operators :
       \/ ReadForPatch(o) \/ ReadForRecovery(o) \/ ReadForRotation(o)
       \/ WriteKey(o) \/ DeleteKey(o)

Spec == Init /\ [][Next]_vars

(* The clock goes on. *)
FairSpec == Spec /\ WF_vars(Elapse)

-----------------------------------------------------------------------------
(* Properties *)

\* Only an admin request brings a disabled key back, however late the result
\* of an attempt or of a probe that began before comes in; nothing brings a
\* deleted key back.
WithdrawnStays ==
  [][ /\ status = "deleted" => status' = "deleted"
      /\ (status = "manual_disabled" /\ status' # status) =>
           \E o \in Operators : operator[o] # "done" /\ operator'[o] = "done" ]_vars

\* A cooldown with an end is over by itself, whoever else writes the key: it can
\* be selected again, unless something else happened to it.  A failed probe or an
\* admin patch can write "cooldown" where cooldown_until is not set: that one has
\* no end.
CooldownEnds ==
  (status = "cooldown" /\ until # "unset") ~> (Selectable \/ status # "cooldown")

RateLimited ==
  /\ status = "cooldown" /\ until = "future"
  /\ \E a \in Attempts : attempt[a] = "done" /\ error[a] = "rate_limited"

\* docs/06_ROUTING_STREAMING_SPEC.md, 9: a key that answered 429 with Retry-After
\* goes into cooldown and is not selected before its end.
RetryAfterRespected == [][RateLimited /\ Selectable' => until' = "past"]_vars

=============================================================================
