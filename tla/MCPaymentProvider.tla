-------------------------- MODULE MCPaymentProvider --------------------------
(* Instances of PaymentProvider for TLC. *)
EXTENDS PaymentProvider

CONSTANTS d1, d2, d3, k1, k2, k3, e1, e2, e3, e4, e5

\* A webhook without a key, and a call of the executor with key k.
W(type, e) == [via |-> "webhook", type |-> type, event |-> e, key |-> NoRow,
               capture |-> <<d1, 0>>, fits |-> TRUE]
X(type, e, k) == [W(type, e) EXCEPT !.via = "executor", !.key = k]

\* Two messages about one payment, one from each path; refunds from both paths,
\* the webhook's with and without a key, the executor's key also for the capture
\* of a second try.
MCBodies ==
  {W("payment_intent.succeeded", e1), X("capture", e2, k1),
   [W("charge.succeeded", e1) EXCEPT !.fits = FALSE],
   W("charge.refunded", e3), [W("refund.succeeded", e5) EXCEPT !.key = k3],
   X("refund", e4, k2), [X("refund", e4, k2) EXCEPT !.capture = <<d1, 1>>],
   [W("charge.dispute.created", e3) EXCEPT !.fits = FALSE],
   W("checkout.session.completed", e1), W("invoice.paid", e1)}
MCRefund == {W("payment_intent.succeeded", e1), W("charge.refunded", e3)}
=============================================================================
