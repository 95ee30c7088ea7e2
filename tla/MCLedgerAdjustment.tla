------------------------- MODULE MCLedgerAdjustment -------------------------
(* Instances of LedgerAdjustment for TLC. *)
EXTENDS LedgerAdjustment, TLC

CONSTANTS s1, s2, c1, c2, c3

MCKind == (s1 :> "settle") @@ (s2 :> "adjust")
MCDebit == (s1 :> 4) @@ (s2 :> 2)
In(op, s, n) == [op |-> op, source |-> s, amount |-> n]
MCInputs == {In("refund", s1, 3), In("refund", s1, 2), In("adjust", s1, 2),
             In("refund", s2, 2), In("adjust", s1, -1)}
\* Two different partial refunds of one settled debit.
MCRefunds == {In("refund", s1, 3), In("refund", s1, 2)}
=============================================================================
