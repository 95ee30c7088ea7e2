--------------------------- MODULE MCVoucherCredit ---------------------------
(* Instances of VoucherCredit for TLC. *)
EXTENDS VoucherCredit, TLC

CONSTANTS v1, v2, c1, c2, c3, k1, k2, k3, u1, u2

J(kind, k, v, u) ==
  [kind |-> kind, key |-> k, voucher |-> v, who |-> u, fits |-> TRUE, grant |-> c1]

MCMax == (v1 :> 2) @@ (v2 :> 1)
MCJobs ==
  {J("redeem", k1, v1, u1), J("redeem", k2, v1, u2), J("redeem", k3, v1, u1),
   [J("redeem", k1, v2, u1) EXCEPT !.fits = FALSE],
   J("issue", k1, v2, u1), J("revoke", NoRow, v1, u1), J("batch", NoRow, v1, u1),
   J("grant", k1, v1, u1),
   J("expire", k1, v1, u1), J("expire", k1, v1, u2), J("voided", k2, v1, u1)}
MCLookups == {"written", "qualified"}
=============================================================================
