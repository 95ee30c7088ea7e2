---------------------------- MODULE VoucherCredit ----------------------------
(***************************************************************************)
(* Vouchers and credit grants of the control plane: issuing, revoking (one *)
(* voucher or a batch) and redeeming vouchers, creating, expiring and      *)
(* voiding credit grants.  Every request is one transaction.  It takes an  *)
(* advisory lock on the fingerprint of its idempotency key, looks for the  *)
(* row that key has written, locks the rows it works on (FOR UPDATE),      *)
(* decides on what it has read and commits all its writes together.  A     *)
(* lock is held from the step that takes it to the end of the transaction; *)
(* `held' are the row locks, the key lock is implied by the control point. *)
(*                                                                         *)
(* Each voucher and each grant is worth one unit.                          *)
(*                                                                         *)
(* The redeem's lookup names idempotency_key_hash, which both joined tables *)
(* have, and locks the nullable side of a left join: the database rejects  *)
(* the statement as it is written, and the redeem ends there.  `lookup' is *)
(* the form of the statement: "written", or "qualified" for the one the    *)
(* rest of the handler is written for, with the column and the lock of     *)
(* voucher_redemptions.                                                    *)
(***************************************************************************)
EXTENDS Naturals, FiniteSets

CONSTANTS
  Calls,      \* requests; a grant is named by the request that inserted it
  Vouchers,   \* voucher codes
  Max,        \* max_redemptions of each voucher
  Dated,      \* the vouchers with an expires_at
  Issued,     \* vouchers issued before the first request
  Jobs,       \* bodies: [kind, key, voucher, who, fits, grant]
  NoJob,      \* a request that has not arrived
  NoRow,      \* no such row
  Wallet,     \* the wallet's row
  Lookups,    \* forms of the redeem's lookup: "written", "qualified"
  MaxFaults   \* transactions that fail and roll back

Kinds == {"issue", "redeem", "revoke", "batch", "grant", "expire", "voided"}
Keyed == {"issue", "redeem", "grant", "expire", "voided"}

ASSUME CallAssumption == IsFiniteSet(Calls) /\ Calls \cap Vouchers = {}
ASSUME VoucherAssumption == Issued \subseteq Vouchers /\ Dated \subseteq Vouchers
ASSUME LookupAssumption == Lookups \subseteq {"written", "qualified"}
ASSUME MaxAssumption == Max \in [Vouchers -> Nat \ {0}] /\ MaxFaults \in Nat
ASSUME JobAssumption ==
  /\ NoJob \notin Jobs
  /\ \A j \in Jobs : /\ j.kind \in Kinds /\ j.voucher \in Vouchers
                     /\ j.grant \in Calls /\ j.fits \in BOOLEAN

VARIABLES
  pc, job, answer,
  late,         \* the voucher had expired when the transaction began
  held,         \* rows each transaction holds FOR UPDATE
  seen,         \* the row of its voucher as the transaction read it
  vouchers,     \* voucher_issuances: [status, count, key]
  expired,      \* vouchers whose expires_at has passed
  redemptions,  \* voucher_redemptions: [key, voucher, who, grant]
  grants,       \* credit_grants: [status, key, who, marks]
  ledger,       \* confirmed credit_grant entries, by grant
  lookup,       \* the form of the redeem's lookup, fixed when the code was built
  faults

vars == <<pc, job, answer, late, held, seen, vouchers, expired, redemptions, grants,
          ledger, lookup, faults>>

-----------------------------------------------------------------------------
NewVoucher == [status |-> "absent", count |-> 0, key |-> NoRow]
NewGrant == [status |-> "absent", key |-> NoRow, who |-> NoRow, marks |-> {}]

Init ==
  /\ pc = [c \in Calls |-> "new"]
  /\ job = [c \in Calls |-> NoJob]
  /\ answer = [c \in Calls |-> "none"]
  /\ late = [c \in Calls |-> FALSE]
  /\ held = [c \in Calls |-> {}]
  /\ seen = [c \in Calls |-> NewVoucher]
  /\ vouchers = [v \in Vouchers |->
       [NewVoucher EXCEPT !.status = IF v \in Issued THEN "issued" ELSE @]]
  /\ expired = {} /\ redemptions = {} /\ ledger = {}
  /\ grants = [c \in Calls |-> NewGrant]
  /\ lookup \in Lookups
  /\ faults = 0

\* The fingerprint that the advisory lock is taken on: the operation and the key.
Fingerprint(j) == <<j.kind, j.key>>

HoldsKey(c) == pc[c] \in {"keyed", "locked"} /\ job[c].kind \in Keyed

Others(c) == Calls \ {c}

\* The rows a job locks: the batch takes the issued vouchers it finds.
RowsOf(j) ==
  CASE j.kind \in {"redeem", "revoke"} -> {j.voucher}
    [] j.kind = "batch" -> {v \in Vouchers : vouchers[v].status = "issued"}
    [] j.kind \in {"expire", "voided"} -> {j.grant}
    [] OTHER -> {Wallet}

\* Mutant: a session that goes back to the pool with its row locks.
EndKeepsRows(c, a) ==
  /\ pc' = [pc EXCEPT ![c] = "done"]
  /\ job' = [job EXCEPT ![c] = NoJob]
  /\ answer' = [answer EXCEPT ![c] = a]
  /\ late' = [late EXCEPT ![c] = FALSE]
  /\ seen' = [seen EXCEPT ![c] = NewVoucher]
  /\ UNCHANGED held

\* Commit or rollback: the locks go, and with them what the request has read.
End(c, a) ==
  /\ pc' = [pc EXCEPT ![c] = "done"]
  /\ job' = [job EXCEPT ![c] = NoJob]
  /\ answer' = [answer EXCEPT ![c] = a]
  /\ late' = [late EXCEPT ![c] = FALSE]
  /\ held' = [held EXCEPT ![c] = {}]
  /\ seen' = [seen EXCEPT ![c] = NewVoucher]

\* The transaction begins: now() stands still from here on.
Start(c, j) ==
  /\ pc[c] = "new"
  /\ pc' = [pc EXCEPT ![c] = "begun"]
  /\ job' = [job EXCEPT ![c] = j]
  /\ late' = [late EXCEPT ![c] = j.kind = "redeem" /\ j.voucher \in expired]
  /\ UNCHANGED <<answer, held, seen, vouchers, expired, redemptions, grants, ledger, lookup,
                 faults>>

\* pg_advisory_xact_lock on the fingerprint; the other jobs have no key.
lock_credit_grant_idempotency(c) ==
  job[c].kind \in Keyed =>
    \A d \in Others(c) : HoldsKey(d) => Fingerprint(job[d]) # Fingerprint(job[c])

\* The row an earlier request with this key has committed, and whether that
\* request was the same one: issue, redeem and create compare fingerprints.
KeyUsed(j) ==
  CASE j.kind = "redeem" -> \E r \in redemptions : r.key = j.key
    [] j.kind = "issue" -> \E v \in Vouchers : vouchers[v].key = j.key
    [] j.kind = "grant" -> \E g \in Calls : grants[g].key = j.key
    [] OTHER -> FALSE

SameRequest(j) ==
  CASE j.kind = "redeem" ->
         \E r \in redemptions : r.key = j.key /\ r.voucher = j.voucher /\ r.who = j.who
    [] j.kind = "issue" -> vouchers[j.voucher].key = j.key
    [] OTHER -> \E g \in Calls : grants[g].key = j.key /\ grants[g].who = j.who

\* Whether the database runs the lookup of this job.
LookupRuns(c) == job[c].kind = "redeem" => lookup = "qualified"

\* The lookup under the key lock is rejected, and the transaction rolls back.
LookupRejected(c) ==
  /\ pc[c] = "begun"
  /\ lock_credit_grant_idempotency(c)
  /\ ~LookupRuns(c)
  /\ End(c, "error")
  /\ UNCHANGED <<vouchers, expired, redemptions, grants, ledger, lookup, faults>>

\* The lookup under the key lock finds nothing.
LockKey(c) ==
  /\ pc[c] = "begun"
  /\ lock_credit_grant_idempotency(c)
  /\ LookupRuns(c)
  /\ ~KeyUsed(job[c])
  /\ pc' = [pc EXCEPT ![c] = "keyed"]
  /\ UNCHANGED <<job, answer, late, held, seen, vouchers, expired, redemptions, grants,
                 ledger, lookup, faults>>

\* A replay returns the earlier row, a reused key is refused; a redeem also
\* records the refused attempt.  Nothing else is written.
AnswerByKey(c) ==
  /\ pc[c] = "begun"
  /\ lock_credit_grant_idempotency(c)
  /\ LookupRuns(c)
  /\ KeyUsed(job[c])
  /\ End(c, IF SameRequest(job[c]) THEN "replayed" ELSE "conflict")
  /\ UNCHANGED <<vouchers, expired, redemptions, grants, ledger, lookup, faults>>

\* Mutant: plain selects.
RowsFreeAlways(c) == TRUE

RowsFree(c) == \A d \in Others(c) : held[d] \cap RowsOf(job[c]) = {}

\* SELECT ... FOR UPDATE waits for the holders and returns the committed rows.
LockRows(c) ==
  /\ pc[c] = "keyed"
  /\ RowsFree(c)
  /\ pc' = [pc EXCEPT ![c] = "locked"]
  /\ held' = [held EXCEPT ![c] = RowsOf(job[c])]
  /\ seen' = [seen EXCEPT ![c] = IF job[c].kind \in {"redeem", "revoke"}
                                 THEN vouchers[job[c].voucher] ELSE NewVoucher]
  /\ UNCHANGED <<job, answer, late, vouchers, expired, redemptions, grants, ledger, lookup, faults>>

-----------------------------------------------------------------------------
(* Vouchers. *)

\* A wallet of another currency refuses.  The code is unique: a second
\* issuance of it fails and rolls back.
CommitIssue(c) ==
  /\ pc[c] = "locked" /\ job[c].kind = "issue"
  /\ LET v == job[c].voucher IN
     IF job[c].fits /\ vouchers[v].status = "absent"
     THEN /\ vouchers' = [vouchers EXCEPT ![v] =
                            [status |-> "issued", count |-> 0, key |-> job[c].key]]
          /\ End(c, "issued")
     ELSE End(c, IF job[c].fits THEN "error" ELSE "refused") /\ UNCHANGED vouchers
  /\ UNCHANGED <<expired, redemptions, grants, ledger, lookup, faults>>

\* voucher_redeem_refusal_code, and a code nobody has issued.
voucher_redeem_refusal_code(c) ==
  LET row == seen[c] IN
  \/ row.status # "issued"
  \/ late[c]
  \/ ~job[c].fits
  \/ row.count >= Max[job[c].voucher]

RefuseRedeem(c) ==
  /\ pc[c] = "locked" /\ job[c].kind = "redeem"
  /\ voucher_redeem_refusal_code(c)
  /\ End(c, "refused")
  /\ UNCHANGED <<vouchers, expired, redemptions, grants, ledger, lookup, faults>>

\* Mutant: the update closes the voucher and does not count the redemption.
AfterRedeemUncounted(v) == [vouchers[v] EXCEPT !.status = "redeemed"]

\* update_voucher_issuance_after_redeem_tx works on the row as it is now.
AfterRedeem(v) ==
  [vouchers[v] EXCEPT !.count = @ + 1,
                      !.status = IF vouchers[v].count + 1 >= Max[v] THEN "redeemed" ELSE @]

\* The tables' own guards: the unique key of voucher_redemptions and the check
\* that redemption_count does not pass max_redemptions.
TableAccepts(c) ==
  /\ \A r \in redemptions : r.key # job[c].key
  /\ vouchers[job[c].voucher].count < Max[job[c].voucher]

Accepted(c) ==
  pc[c] = "locked" /\ job[c].kind = "redeem" /\ ~voucher_redeem_refusal_code(c)

\* The grant, its ledger entry, the redemption and the counter, in one commit.
CommitRedeem(c) ==
  /\ Accepted(c)
  /\ IF TableAccepts(c)
     THEN /\ grants' = [grants EXCEPT ![c] = [NewGrant EXCEPT !.status = "active"]]
          /\ ledger' = ledger \cup {c}
          /\ redemptions' = redemptions \cup {[key |-> job[c].key, voucher |-> job[c].voucher,
                                               who |-> job[c].who, grant |-> c]}
          /\ vouchers' = [vouchers EXCEPT ![job[c].voucher] = AfterRedeem(job[c].voucher)]
          /\ End(c, "redeemed")
     ELSE End(c, "error") /\ UNCHANGED <<grants, ledger, redemptions, vouchers>>
  /\ UNCHANGED <<expired, lookup, faults>>

Revocable(c) == seen[c].status = "issued"

CommitRevoke(c) ==
  /\ pc[c] = "locked" /\ job[c].kind = "revoke"
  /\ IF Revocable(c)
     THEN /\ vouchers' = [vouchers EXCEPT ![job[c].voucher].status = "revoked"]
          /\ End(c, "revoked")
     ELSE End(c, "error") /\ UNCHANGED vouchers
  /\ UNCHANGED <<expired, redemptions, grants, ledger, lookup, faults>>

CommitBatchRevoke(c) ==
  /\ pc[c] = "locked" /\ job[c].kind = "batch"
  /\ vouchers' = [v \in Vouchers |->
       IF v \in held[c] THEN [vouchers[v] EXCEPT !.status = "revoked"] ELSE vouchers[v]]
  /\ End(c, "revoked")
  /\ UNCHANGED <<expired, redemptions, grants, ledger, lookup, faults>>

-----------------------------------------------------------------------------
(* Credit grants. *)

\* An admin grant has no ledger entry.
CommitGrant(c) ==
  /\ pc[c] = "locked" /\ job[c].kind = "grant"
  /\ IF job[c].fits
     THEN /\ grants' = [grants EXCEPT ![c] = [status |-> "active", key |-> job[c].key,
                                              who |-> job[c].who, marks |-> {}]]
          /\ End(c, "created")
     ELSE End(c, "refused") /\ UNCHANGED grants
  /\ UNCHANGED <<vouchers, expired, redemptions, ledger, lookup, faults>>

\* Mutant: any grant that does not have the target status yet.
LifecycleAppliesUnlessThere(g, op) == grants[g].status # op

\* Only an active grant is expired or voided; its remaining amount stays.
LifecycleApplies(g, op) == grants[g].status = "active"

\* The lifecycle request reads and writes under the grant's row lock.  Its replay
\* marker is stored in the grant itself: the key, and who asked for what.
CommitLifecycle(c) ==
  /\ pc[c] = "locked" /\ job[c].kind \in {"expire", "voided"}
  /\ LET g == job[c].grant
         op == IF job[c].kind = "expire" THEN "expired" ELSE "voided"
         mark == [print |-> Fingerprint(job[c]), who |-> job[c].who]
         used == \E m \in grants[g].marks : m.print = mark.print
     IN IF ~used /\ job[c].fits /\ LifecycleApplies(g, op)
        THEN /\ grants' = [grants EXCEPT ![g].status = op, ![g].marks = @ \cup {mark}]
             /\ End(c, op)
        ELSE /\ End(c, IF mark \in grants[g].marks THEN "replayed"
                       ELSE IF used THEN "conflict" ELSE "refused")
             /\ UNCHANGED grants
  /\ UNCHANGED <<vouchers, expired, redemptions, ledger, lookup, faults>>

-----------------------------------------------------------------------------
\* A failed statement, commit or process: the transaction leaves nothing.
Fail(c) ==
  /\ pc[c] \in {"begun", "keyed", "locked"}
  /\ faults < MaxFaults
  /\ faults' = faults + 1
  /\ End(c, "error")
  /\ UNCHANGED <<vouchers, expired, redemptions, grants, ledger, lookup>>

\* expires_at passes.
ExpiresAt(v) ==
  /\ v \in Dated \ expired
  /\ expired' = expired \cup {v}
  /\ UNCHANGED <<pc, job, answer, late, held, seen, vouchers, redemptions, grants,
                 ledger, lookup, faults>>

Step(c) ==
  \/ LookupRejected(c) \/ LockKey(c) \/ AnswerByKey(c) \/ LockRows(c)
  \/ CommitIssue(c) \/ RefuseRedeem(c) \/ CommitRedeem(c)
  \/ CommitRevoke(c) \/ CommitBatchRevoke(c)
  \/ CommitGrant(c) \/ CommitLifecycle(c)

Next ==
  \/ \E c \in Calls : (\E j \in Jobs : Start(c, j)) \/ Step(c) \/ Fail(c)
  \/ \E v \in Vouchers : ExpiresAt(v)

\* A request that has begun goes on; nobody owes the service a request.
Spec == Init /\ [][Next]_vars /\ \A c \in Calls : WF_vars(Step(c))

-----------------------------------------------------------------------------
(* Properties. *)

VoucherRow == [status : {"absent", "issued", "redeemed", "revoked"}, count : Nat,
               key : {j.key : j \in Jobs} \cup {NoRow}]
GrantRow == [status : {"absent", "active", "expired", "voided"},
             key : {j.key : j \in Jobs} \cup {NoRow}, who : {j.who : j \in Jobs} \cup {NoRow},
             marks : SUBSET [print : Kinds \X {j.key : j \in Jobs},
                             who : {j.who : j \in Jobs}]]

TypeOK ==
  /\ pc \in [Calls -> {"new", "begun", "keyed", "locked", "done"}]
  /\ job \in [Calls -> Jobs \cup {NoJob}]
  /\ late \in [Calls -> BOOLEAN]
  /\ held \in [Calls -> SUBSET (Vouchers \cup Calls \cup {Wallet})]
  /\ seen \in [Calls -> VoucherRow]
  /\ vouchers \in [Vouchers -> VoucherRow]
  /\ \A v \in Vouchers : vouchers[v].status = "redeemed" => vouchers[v].count > 0
  /\ redemptions \subseteq [key : {j.key : j \in Jobs}, voucher : Vouchers,
                            who : {j.who : j \in Jobs}, grant : Calls]
  /\ grants \in [Calls -> GrantRow]
  /\ expired \subseteq Vouchers /\ ledger \subseteq Calls /\ lookup \in Lookups
  /\ faults \in 0..MaxFaults

RedemptionsOf(v) == {r \in redemptions : r.voucher = v}

\* A voucher is redeemed at most max_redemptions times, its counter is the
\* number of redemption rows, and a redeem that has passed its checks commits:
\* whatever requests race for the last use, or with one key, it is the locks
\* that refuse the loser, never a constraint of the tables that fails it.
RedemptionLimit ==
  /\ \A v \in Vouchers : /\ vouchers[v].count = Cardinality(RedemptionsOf(v))
                         /\ vouchers[v].count <= Max[v]
  /\ \A c \in Calls : Accepted(c) => TableAccepts(c)

\* From the commit of a revoke on, no redemption of the voucher commits, also
\* none that had read the voucher before.
RevokedStays ==
  [][\A v \in Vouchers : vouchers[v].status = "revoked" =>
       /\ vouchers'[v].status = "revoked"
       /\ {r \in redemptions' : r.voucher = v} = RedemptionsOf(v)]_vars

\* A voucher that has been used up is not turned into a revoked one, and a
\* grant that was expired or voided keeps that status: the audit trail of the
\* first transition stays true.
FinalStays ==
  [][/\ \A v \in Vouchers :
          vouchers[v].status = "redeemed" => vouchers'[v].status = "redeemed"
     /\ \A g \in Calls :
          grants[g].status \in {"expired", "voided"} => grants'[g].status = grants[g].status]_vars

\* Every request is answered: the key lock is always taken before row locks.
RequestsEnd == \A c \in Calls : pc[c] = "begun" ~> pc[c] = "done"

=============================================================================
