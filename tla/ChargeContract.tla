--------------------------- MODULE ChargeContract ---------------------------
(***************************************************************************)
(* What the paid hot path promises a customer about the money of one       *)
(* request, whatever the gateway does to keep the promise.  The money is   *)
(* held at most once; a hold ends in exactly one way, as a charge or as a  *)
(* return; a charge has one amount, which never changes, and can only be   *)
(* refunded as a whole, once.  A request that was never held may still be  *)
(* charged: keys that are not opted in are billed after the fact.          *)
(***************************************************************************)
EXTENDS Naturals

CONSTANTS
  Requests,
  Amounts   \* what a request may be charged

VARIABLES
  money,   \* where the money of a request is
  charge   \* amount charged to it

contractVars == <<money, charge>>

MoneyStates == {"free", "held", "returned", "charged", "refunded"}

ContractTypeOK ==
  /\ money \in [Requests -> MoneyStates]
  /\ charge \in [Requests -> Amounts \cup {0}]

ContractInit ==
  /\ money = [r \in Requests |-> "free"]
  /\ charge = [r \in Requests |-> 0]

Move(r, from, to) ==
  /\ money[r] \in from
  /\ money' = [money EXCEPT ![r] = to]

Hold(r) == Move(r, {"free"}, "held") /\ UNCHANGED charge

Return(r) == Move(r, {"held"}, "returned") /\ UNCHANGED charge

Charge(r) ==
  /\ Move(r, {"free", "held"}, "charged")
  /\ \E amount \in Amounts : charge' = [charge EXCEPT ![r] = amount]

Refund(r) == Move(r, {"charged"}, "refunded") /\ UNCHANGED charge

ContractNext == \E r \in Requests : Hold(r) \/ Return(r) \/ Charge(r) \/ Refund(r)

ContractSpec == ContractInit /\ [][ContractNext]_contractVars
=============================================================================
