--------------------------- MODULE PaymentProvider ---------------------------
(***************************************************************************)
(* Payment provider events in the control plane: the signed webhook of the *)
(* provider and the operator's local executor both insert a payment_events *)
(* row and then run the bounded business plan.  A capture is one           *)
(* transaction under the row lock of its payment intent; a refund or a     *)
(* chargeback is a series of statements that commit one by one, so that a  *)
(* crash leaves any prefix of them.  What does not answer may be sent      *)
(* again: the provider redelivers its event, the operator retries his call.*)
(*                                                                         *)
(* One payment intent of one unit; captures, grants and ledger entries are *)
(* named by the try (a delivery and its attempt) that inserted them.       *)
(***************************************************************************)
EXTENDS Naturals, FiniteSets

CONSTANTS
  Deliveries,  \* requests
  Bodies,      \* what they carry: [via, type, event, key, capture, fits]
  Keys,        \* hashes of idempotency keys: the executor's always, the webhook's if sent
  NoRow,       \* no such row, no key
  MaxCrashes   \* requests cut off before their answer

ASSUME CrashAssumption == MaxCrashes \in Nat

Tries == Deliveries \X (0..MaxCrashes)
\* The keys of payment_captures and payment_refunds: those that were sent, and those
\* made from a payment_events row.
RowKeys == Keys \cup Tries
CaptureRow == [key : RowKeys, event : {b.event : b \in Bodies}]
RefundRow == [capture : Tries, reversal : {"none", "linked"}]
EntryRow == [refund : RowKeys, source : Tries, by : Tries]

ASSUME BodyAssumption ==
  \A b \in Bodies : /\ b.via \in {"webhook", "executor"}
                    /\ b.capture \in Tries /\ b.fits \in BOOLEAN
                    /\ b.key \in Keys \cup {NoRow}
                    /\ b.via = "executor" => b.key # NoRow
ASSUME RowAssumption ==
  /\ NoRow \notin Bodies /\ NoRow \notin CaptureRow /\ NoRow \notin RefundRow
  /\ NoRow \notin Keys /\ Keys \cap Tries = {}
\* Event and key are hashes over the path, the executor's key over its action too:
\* the webhook and the executor never have one in common.
ASSUME HashAssumption ==
  \A a, b \in Bodies :
    /\ a.event = b.event => a.via = b.via
    /\ a.key = b.key /\ a.key # NoRow => a.via = b.via
    /\ a.key = b.key /\ a.via = "executor" => a.type = b.type

VARIABLES
  pc, body, answer,
  attempt,    \* how often a delivery has been sent again
  events,     \* payment_events: deliveries, with their attempt
  captures,   \* payment_captures by try: [key, event], with ledger entry and grant
  grants,     \* status of the credit grant of a capture
  order,      \* status of the payment order
  refunds,    \* payment_refunds by idempotency key: [capture, reversal]
  entries,    \* refund ledger entries: [refund, source, by]
  matched,    \* refunds with a payment_reconciliations row
  crashes

vars == <<pc, body, answer, attempt, events, captures, grants, order, refunds,
          entries, matched, crashes>>

-----------------------------------------------------------------------------
\* The provider's event types; the operator's actions have the same targets.
map_stripe_like_event_type(type) ==
  CASE type \in {"payment_intent.succeeded", "charge.succeeded", "capture"} -> "capture"
    [] type \in {"charge.refunded", "refund.created", "refund.succeeded", "refund"} -> "refund"
    [] type \in {"charge.dispute.created", "charge.dispute.closed", "chargeback_ack"} ->
         "chargeback"
    [] type \in {"checkout.session.completed", "payment_intent.created"} -> "callback"
    [] OTHER -> "unsupported"

Kind(d) == map_stripe_like_event_type(body[d].type)
IsReversal(d) == Kind(d) \in {"refund", "chargeback"}

Try(d) == <<d, attempt[d]>>

\* Without a key one is made from the payment_events row, which is new on every
\* delivery.
IdempotencyHash(d) == IF body[d].key = NoRow THEN Try(d) ELSE body[d].key

Captured == {c \in Tries : captures[c] # NoRow}

Init ==
  /\ pc = [d \in Deliveries |-> "new"]
  /\ body = [d \in Deliveries |-> NoRow]
  /\ answer = [d \in Deliveries |-> "none"]
  /\ attempt = [d \in Deliveries |-> 0]
  /\ events = {} /\ entries = {} /\ matched = {} /\ crashes = 0
  /\ captures = [c \in Tries |-> NoRow]
  /\ grants = [c \in Tries |-> "absent"]
  /\ order = "created"
  /\ refunds = [k \in RowKeys |-> NoRow]

Goto(d, label) == pc' = [pc EXCEPT ![d] = label]
Result(d, a) == Goto(d, "answer") /\ answer' = [answer EXCEPT ![d] = a]

\* A verified request.  An event type the adapter cannot map is refused; the
\* foreign key of payment_events fails a reversal of an unknown capture.
Receive(d, b) ==
  /\ pc[d] = "new" /\ body[d] \in {NoRow, b}
  /\ body' = [body EXCEPT ![d] = b]
  /\ LET kind == map_stripe_like_event_type(b.type) IN
     \/ /\ kind = "unsupported"
        /\ Result(d, "refused") /\ UNCHANGED events
     \/ /\ kind \in {"refund", "chargeback"} /\ b.capture \notin Captured
        /\ Result(d, "error") /\ UNCHANGED events
     \/ /\ kind = "callback"
        /\ Result(d, "recorded")
        /\ events' = events \cup {Try(d)}
     \/ /\ \/ kind = "capture"
           \/ kind \in {"refund", "chargeback"} /\ b.capture \in Captured
        /\ Goto(d, "plan") /\ UNCHANGED answer
        /\ events' = events \cup {Try(d)}
  /\ UNCHANGED <<attempt, captures, grants, order, refunds, entries, matched, crashes>>

-----------------------------------------------------------------------------
(* Capture: one transaction. *)

\* Mutant: the table has no unique (intent, event) index.
EventCapturedNever(d) == FALSE

\* unique (tenant_id, payment_intent_id, provider_reference_hash)
EventCaptured(d) == \E c \in Captured : captures[c].event = body[d].event

KeyCaptured(d) == \E c \in Captured : captures[c].key = IdempotencyHash(d)

\* The amounts, currencies and references differ, or the key has a capture, or
\* the insert violates the index and the transaction rolls back: no writes.
CaptureWritesNothing(d) ==
  /\ pc[d] = "plan" /\ Kind(d) = "capture"
  /\ \/ ~body[d].fits /\ Result(d, "not_executed")
     \/ body[d].fits /\ KeyCaptured(d) /\ Result(d, "replayed")
     \/ body[d].fits /\ ~KeyCaptured(d) /\ EventCaptured(d) /\ Result(d, "error")
  /\ UNCHANGED <<body, attempt, events, captures, grants, order, refunds, entries,
                 matched, crashes>>

CaptureCommit(d) ==
  /\ pc[d] = "plan" /\ Kind(d) = "capture" /\ body[d].fits
  /\ ~KeyCaptured(d) /\ ~EventCaptured(d)
  /\ captures' = [captures EXCEPT ![Try(d)] = [key |-> IdempotencyHash(d), event |-> body[d].event]]
  /\ grants' = [grants EXCEPT ![Try(d)] = "active"]
  /\ order' = "paid"
  /\ Result(d, "written")
  /\ UNCHANGED <<body, attempt, events, refunds, entries, matched, crashes>>

-----------------------------------------------------------------------------
(* Refund and chargeback: statements of their own. *)

\* Mutant: a refund that is found ends the plan.
AfterFoundEnds(d) == "answer"

\* A refund that is found goes on with what its ledger reference says.
AfterFound(d) == IF refunds[IdempotencyHash(d)].reversal = "linked" THEN "void" ELSE "book"

FindRefund(d) ==
  /\ pc[d] = "plan" /\ IsReversal(d)
  /\ LET found == body[d].fits /\ refunds[IdempotencyHash(d)] # NoRow IN
     \/ ~body[d].fits /\ Result(d, "not_executed")
     \/ found /\ Goto(d, AfterFound(d)) /\ answer' = [answer EXCEPT ![d] = "replayed"]
     \/ body[d].fits /\ ~found /\ Goto(d, "insert") /\ UNCHANGED answer
  /\ UNCHANGED <<body, attempt, events, captures, grants, order, refunds, entries, matched,
                 crashes>>

\* unique (tenant_id, idempotency_key_hash): the second of two requests that
\* found nothing fails.
InsertRefund(d) ==
  /\ pc[d] = "insert"
  /\ LET k == IdempotencyHash(d) IN
     IF refunds[k] = NoRow
     THEN /\ refunds' = [refunds EXCEPT ![k] = [capture |-> body[d].capture, reversal |-> "none"]]
          /\ Goto(d, "order")
          /\ answer' = [answer EXCEPT ![d] = "written"]
     ELSE Result(d, "error") /\ UNCHANGED refunds
  /\ UNCHANGED <<body, attempt, events, captures, grants, order, entries, matched,
                 crashes>>

MarkOrder(d) ==
  /\ pc[d] = "order"
  /\ order' = "refunded"
  /\ Goto(d, "book")
  /\ UNCHANGED <<body, answer, attempt, events, captures, grants, refunds, entries,
                 matched, crashes>>

\* Mutant: a plain insert.
BookedNever(k, c) == FALSE

\* on conflict (tenant_id, idempotency_key) do nothing: the entry's key is made
\* from the refund and the source ledger entry.
Booked(k, c) == \E x \in entries : x.refund = k /\ x.source = c

BookReversal(d) ==
  /\ pc[d] = "book"
  /\ LET k == IdempotencyHash(d)  c == body[d].capture IN
     entries' = IF Booked(k, c) THEN entries
                ELSE entries \cup {[refund |-> k, source |-> c, by |-> Try(d)]}
  /\ Goto(d, "link")
  /\ UNCHANGED <<body, answer, attempt, events, captures, grants, order, refunds,
                 matched, crashes>>

LinkReversal(d) ==
  /\ pc[d] = "link"
  /\ refunds' = [refunds EXCEPT ![IdempotencyHash(d)].reversal = "linked"]
  /\ Goto(d, "void")
  /\ UNCHANGED <<body, answer, attempt, events, captures, grants, order, entries,
                 matched, crashes>>

\* Mutant: the update has no condition on the status.
VoidedAlways(status) == "voided"

\* Mutant: a status the table does not know.
VoidedReversed(status) == IF status = "active" THEN "reversed" ELSE status

\* A grant that an administrator has ended is left alone.
Voided(status) == IF status = "active" THEN "voided" ELSE status

VoidGrant(d) ==
  /\ pc[d] = "void"
  /\ grants' = [grants EXCEPT ![body[d].capture] = Voided(@)]
  /\ Goto(d, "reconcile")
  /\ UNCHANGED <<body, answer, attempt, events, captures, order, refunds, entries,
                 matched, crashes>>

\* Only the request that inserted the refund writes its reconciliation row.
Reconcile(d) ==
  /\ pc[d] = "reconcile"
  /\ matched' = IF answer[d] = "replayed" THEN matched ELSE matched \cup {IdempotencyHash(d)}
  /\ Goto(d, "answer")
  /\ UNCHANGED <<body, answer, attempt, events, captures, grants, order, refunds,
                 entries, crashes>>

-----------------------------------------------------------------------------
Answer(d) ==
  /\ pc[d] = "answer"
  /\ Goto(d, "done")
  /\ UNCHANGED <<body, answer, attempt, events, captures, grants, order, refunds,
                 entries, matched, crashes>>

\* The process or the connection is lost; committed statements stay.
Crash(d) ==
  /\ pc[d] \notin {"new", "done", "lost"}
  /\ crashes < MaxCrashes
  /\ crashes' = crashes + 1
  /\ Goto(d, "lost")
  /\ answer' = [answer EXCEPT ![d] = "none"]
  /\ UNCHANGED <<body, attempt, events, captures, grants, order, refunds, entries,
                 matched>>

\* The sender had no answer and sends the same request again.
Resend(d) ==
  /\ pc[d] = "lost"
  /\ Goto(d, "new")
  /\ attempt' = [attempt EXCEPT ![d] = @ + 1]
  /\ UNCHANGED <<body, answer, events, captures, grants, order, refunds, entries, matched,
                 crashes>>

\* The administrator expires or revokes the grant of a capture (see VoucherCredit).
EndGrant(c, status) ==
  /\ grants[c] = "active"
  /\ grants' = [grants EXCEPT ![c] = status]
  /\ UNCHANGED <<pc, body, answer, attempt, events, captures, order, refunds, entries,
                 matched, crashes>>

Step(d) ==
  \/ CaptureWritesNothing(d) \/ CaptureCommit(d)
  \/ FindRefund(d) \/ InsertRefund(d) \/ MarkOrder(d) \/ BookReversal(d) \/ LinkReversal(d)
  \/ VoidGrant(d) \/ Reconcile(d)
  \/ Answer(d) \/ Crash(d) \/ Resend(d)

Next ==
  \/ \E d \in Deliveries : Step(d) \/ \E b \in Bodies : Receive(d, b)
  \/ \E c \in Tries, status \in {"expired", "voided"} : EndGrant(c, status)

Spec == Init /\ [][Next]_vars

-----------------------------------------------------------------------------
(* Properties. *)

TypeOK ==
  /\ pc \in [Deliveries -> {"new", "plan", "insert", "order", "book", "link", "void",
                            "reconcile", "answer", "lost", "done"}]
  /\ body \in [Deliveries -> Bodies \cup {NoRow}]
  /\ answer \in [Deliveries -> {"none", "refused", "recorded", "not_executed", "written",
                                "replayed", "error"}]
  /\ attempt \in [Deliveries -> 0..MaxCrashes]
  /\ events \subseteq Tries
  /\ captures \in [Tries -> CaptureRow \cup {NoRow}]
  /\ \A c \in Tries : (captures[c] = NoRow) <=> (grants[c] = "absent")
  /\ grants \in [Tries -> {"absent", "active", "voided", "expired"}]
  /\ order \in {"created", "paid", "refunded"}
  /\ refunds \in [RowKeys -> RefundRow \cup {NoRow}]
  /\ entries \subseteq EntryRow
  /\ matched \subseteq RowKeys
  /\ crashes \in 0..MaxCrashes

\* A capture message credits once, however often it is delivered, also when the
\* answer to a committed capture was lost: a redelivery without a key has a new
\* key, and only the event's hash tells it.  Two messages about one payment (the
\* operator's capture and the webhook, or two events of the provider) are not
\* one: each of them credits.
CapturedOnce ==
  \A c, e \in Captured : body[c[1]] = body[e[1]] => c = e

\* A refund message with a key is booked once in the ledger, when two of it run
\* at once and when one is cut off between its statements and sent again.  A
\* message without a key is a new refund whenever it is delivered.
RefundBookedOnce ==
  \A x, y \in entries :
    body[x.by[1]] = body[y.by[1]] /\ body[x.by[1]].key # NoRow => x = y

\* Whoever is told that a refund is written or replayed finds its ledger entry,
\* the reference to it, and the credit of the capture he named ended, also when
\* the request that inserted the row was cut off half way; who wrote it finds it
\* reconciled.  A retry repairs neither the order nor the reconciliation.
AnsweredRefundHolds ==
  \A d \in Deliveries :
    pc[d] \in {"answer", "done"} /\ answer[d] \in {"written", "replayed"} /\ IsReversal(d) =>
      /\ refunds[IdempotencyHash(d)].reversal = "linked"
      /\ \E x \in entries : x.refund = IdempotencyHash(d)
      /\ grants[body[d].capture] # "active"
      /\ answer[d] = "written" => IdempotencyHash(d) \in matched

\* A grant that has been ended keeps the status it ended with.
EndedStays ==
  [][\A c \in Tries : grants[c] \in {"voided", "expired"} => grants'[c] = grants[c]]_vars

\* What the balance query adds up: active grants and all confirmed entries; the
\* credit_grant entry of a capture and the refund entries are both positive.
Available ==
  Cardinality({c \in Tries : grants[c] = "active"}) + Cardinality(Captured)
    + Cardinality(entries)

\* "refund_apply_requires_credit_grant_revoke_or_ledger_reversal"
\* (payment_provider.rs): once the only capture is refunded and reconciled,
\* its credit cannot be spent.
RefundTakesCreditBack ==
  Cardinality(Captured) = 1 /\ matched # {} => Available = 0

=============================================================================
