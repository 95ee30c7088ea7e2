---------------------- MODULE MCSubscriptionScheduler ----------------------
(* Instances of SubscriptionScheduler for TLC. *)
EXTENDS SubscriptionScheduler, TLC

CONSTANTS s1, s2, basic, pro, once, w1, w2, o1

MCPrice == (once :> 1) @@ (basic :> 2) @@ (pro :> 3)
MCCredit == [p \in Plans |-> 1]
Row(status, end, plan) == [status |-> status, end |-> end, plan |-> plan]
Ask(s, action, target) == [sub |-> s, action |-> action, target |-> target]

\* One monthly subscription that may be moved to a larger or a one-time plan.
MCStart == [s \in Subs |-> Row("active", 1, basic)]
MCRequests == {Ask(s1, "all", NoPlan), Ask(s1, "grace", NoPlan)}
                \cup {Ask(s1, "proration", p) : p \in {once, pro}}

\* A one-time plan next to a monthly one.
MCStartTwo == (s1 :> Row("active", 0, once)) @@ (s2 :> Row("active", 1, basic))
MCRequestsTwo == {Ask(s, "renewal", NoPlan) : s \in Subs}
=============================================================================
