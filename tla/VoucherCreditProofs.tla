------------------------- MODULE VoucherCreditProofs -------------------------
(***************************************************************************)
(* Theorems about VoucherCredit for any number of requests, vouchers, keys *)
(* and failures.                                                           *)
(***************************************************************************)
EXTENDS VoucherCredit, TLAPS, FiniteSetTheorems

\* A request that is under way has a body.
HasJob == \A c \in Calls : pc[c] \in {"begun", "keyed", "locked"} => job[c] \in Jobs

\* A request writes the grant of its own name at its end.
GrantsLast == \A c \in Calls : pc[c] # "done" => grants[c].status = "absent"

\* Two transactions never hold one row, and none outside of its last step.
RowsExclusive ==
  /\ \A c \in Calls : pc[c] # "locked" => held[c] = {}
  /\ \A c, d \in Calls : c # d => held[c] \cap held[d] = {}

\* What a transaction has read of a row that it holds is what the table says;
\* a row that was not there may have been inserted since.
ReadsCurrent ==
  \A c \in Calls : pc[c] = "locked" =>
    /\ job[c].kind \in {"redeem", "revoke"} =>
         /\ job[c].voucher \in held[c]
         /\ seen[c].status = "absent" \/ seen[c] = vouchers[job[c].voucher]
    /\ job[c].kind = "batch" =>
         \A v \in held[c] : v \in Vouchers => vouchers[v].status = "issued"

\* A voucher that was not issued was not redeemed.
AbsentUnused == \A v \in Vouchers : vouchers[v].status = "absent" => vouchers[v].count = 0

Inv == TypeOK /\ HasJob /\ GrantsLast /\ RowsExclusive /\ ReadsCurrent /\ AbsentUnused

\* The first state.
LEMMA VoucherInit == Init => Inv
<1> SUFFICES ASSUME Init PROVE Inv
  OBVIOUS
<1>1. NewVoucher \in VoucherRow /\ NewVoucher.status = "absent" /\ NewVoucher.count = 0
  BY DEF NewVoucher, VoucherRow
<1>2. \A v \in Vouchers : /\ vouchers[v] \in VoucherRow /\ vouchers[v].count = 0
                          /\ vouchers[v].status # "redeemed"
  BY <1>1 DEF Init, NewVoucher, VoucherRow
<1>3. TypeOK
  <2>1. NewGrant \in GrantRow
    BY DEF NewGrant, GrantRow
  <2> QED BY <1>1, <1>2, <2>1, MaxAssumption DEF Init, TypeOK
<1>4. HasJob /\ GrantsLast /\ RowsExclusive /\ ReadsCurrent
  BY DEF Init, HasJob, GrantsLast, RowsExclusive, ReadsCurrent, NewGrant
<1>5. AbsentUnused
  BY <1>2 DEF AbsentUnused
<1> QED BY <1>3, <1>4, <1>5 DEF Inv

\* The end of a transaction leaves the request's memory in its type.
LEMMA EndType ==
  ASSUME TypeOK, NEW c \in Calls, NEW a, End(c, a)
  PROVE  /\ pc' \in [Calls -> {"new", "begun", "keyed", "locked", "done"}]
         /\ job' \in [Calls -> Jobs \cup {NoJob}]
         /\ late' \in [Calls -> BOOLEAN]
         /\ held' \in [Calls -> SUBSET (Vouchers \cup Calls \cup {Wallet})]
         /\ seen' \in [Calls -> VoucherRow]
<1>1. NewVoucher \in VoucherRow
  BY DEF NewVoucher, VoucherRow
<1>2. late' \in [Calls -> BOOLEAN]
  BY Zenon DEF End, TypeOK
<1> QED BY <1>1, <1>2 DEF End, TypeOK

\* The rows a request locks are rows.
LEMMA RowsOfType ==
  ASSUME NEW j \in Jobs
  PROVE  RowsOf(j) \subseteq Vouchers \cup Calls \cup {Wallet}
BY JobAssumption DEF RowsOf

\* A redemption counts one, and may close the voucher.
LEMMA AfterRedeemRow ==
  ASSUME TypeOK, NEW v \in Vouchers
  PROVE  /\ vouchers[v].count \in Nat
         /\ AfterRedeem(v) \in VoucherRow /\ AfterRedeem(v).count = vouchers[v].count + 1
<1> DEFINE r == vouchers[v]
           t == IF r.count + 1 >= Max[v] THEN "redeemed" ELSE r.status
<1>1. r \in VoucherRow
  BY DEF TypeOK
<1>2. AfterRedeem(v) = [r EXCEPT !.count = r.count + 1, !.status = t]
  BY <1>1 DEF AfterRedeem, VoucherRow
<1>3. r.count \in Nat /\ r.count + 1 \in Nat /\ t \in {"redeemed", r.status}
  BY <1>1 DEF VoucherRow
<1>4. \A q \in VoucherRow, n \in Nat : \A u \in {"redeemed", q.status} :
        /\ [q EXCEPT !.count = n, !.status = u] \in VoucherRow
        /\ ([q EXCEPT !.count = n, !.status = u]).count = n
  BY DEF VoucherRow
<1> HIDE DEF r, t
<1>5. /\ [r EXCEPT !.count = r.count + 1, !.status = t] \in VoucherRow
      /\ ([r EXCEPT !.count = r.count + 1, !.status = t]).count = r.count + 1
  BY <1>1, <1>3, <1>4
<1> QED BY <1>2, <1>3, <1>5 DEF r

\* Every step keeps every variable in its type.
LEMMA VoucherTypeStep ==
  ASSUME Inv, [Next]_vars
  PROVE  TypeOK'
<1> USE DEF Inv
<1>1. ASSUME NEW c \in Calls, NEW j \in Jobs, Start(c, j) PROVE TypeOK'
  <2>1. late' \in [Calls -> BOOLEAN]
    BY <1>1, Zenon DEF Start, TypeOK
  <2> QED BY <1>1, <2>1 DEF Start, TypeOK
<1>2. ASSUME NEW c \in Calls, LockKey(c) PROVE TypeOK'
  BY <1>2 DEF LockKey, TypeOK
<1>3. ASSUME NEW c \in Calls, LookupRejected(c) \/ AnswerByKey(c) \/ RefuseRedeem(c) PROVE TypeOK'
  <2>1. PICK a : End(c, a)
    BY <1>3 DEF LookupRejected, AnswerByKey, RefuseRedeem
  <2> QED BY <1>3, <2>1, EndType DEF LookupRejected, AnswerByKey, RefuseRedeem, TypeOK
<1>4. ASSUME NEW c \in Calls, LockRows(c) PROVE TypeOK'
  <2>1. job[c] \in Jobs /\ job[c].voucher \in Vouchers
    BY <1>4, JobAssumption DEF LockRows, HasJob
  <2>2. RowsOf(job[c]) \in SUBSET (Vouchers \cup Calls \cup {Wallet})
    BY <2>1, RowsOfType
  <2>3. NewVoucher \in VoucherRow /\ vouchers[job[c].voucher] \in VoucherRow
    BY <2>1 DEF TypeOK, NewVoucher, VoucherRow
  <2> QED BY <1>4, <2>2, <2>3 DEF LockRows, TypeOK
<1>5. ASSUME NEW c \in Calls, CommitIssue(c) PROVE TypeOK'
  <2>1. PICK a : End(c, a)
    BY <1>5 DEF CommitIssue
  <2>2. job[c] \in Jobs /\ job[c].voucher \in Vouchers
    BY <1>5, JobAssumption DEF CommitIssue, HasJob
  <2>3. [status |-> "issued", count |-> 0, key |-> job[c].key] \in VoucherRow
    BY <2>2 DEF VoucherRow
  <2>4. /\ vouchers' \in [Vouchers -> VoucherRow]
        /\ \A v \in Vouchers : vouchers'[v].status = "redeemed" => vouchers'[v].count > 0
    BY <1>5, <2>2, <2>3 DEF CommitIssue, TypeOK
  <2> QED BY <1>5, <2>1, <2>4, EndType DEF CommitIssue, TypeOK
<1>6. ASSUME NEW c \in Calls, CommitRedeem(c) PROVE TypeOK'
  <2>1. job[c] \in Jobs /\ job[c].voucher \in Vouchers
    BY <1>6, JobAssumption DEF CommitRedeem, Accepted, HasJob
  <2>2. AfterRedeem(job[c].voucher) \in VoucherRow /\ AfterRedeem(job[c].voucher).count > 0
    <3>1. vouchers[job[c].voucher].count + 1 > 0
      BY <2>1, AfterRedeemRow
    <3> QED BY <2>1, <3>1, AfterRedeemRow
  <2>3. [key |-> job[c].key, voucher |-> job[c].voucher, who |-> job[c].who, grant |-> c]
          \in [key : {j.key : j \in Jobs}, voucher : Vouchers,
               who : {j.who : j \in Jobs}, grant : Calls]
    BY <2>1
  <2>4. [NewGrant EXCEPT !.status = "active"] \in GrantRow
    BY DEF NewGrant, GrantRow
  <2>5. PICK a : End(c, a)
    BY <1>6 DEF CommitRedeem
  <2>6. CASE TableAccepts(c)
    BY <1>6, <2>1, <2>2, <2>3, <2>4, <2>5, <2>6, EndType DEF CommitRedeem, TypeOK
  <2>7. CASE ~TableAccepts(c)
    BY <1>6, <2>5, <2>7, EndType DEF CommitRedeem, TypeOK
  <2> QED BY <2>6, <2>7
<1>7. ASSUME NEW c \in Calls, CommitRevoke(c) PROVE TypeOK'
  <2>1. PICK a : End(c, a)
    BY <1>7 DEF CommitRevoke
  <2>2. job[c] \in Jobs /\ job[c].voucher \in Vouchers
    BY <1>7, JobAssumption DEF CommitRevoke, HasJob
  <2>3. /\ vouchers' \in [Vouchers -> VoucherRow]
        /\ \A v \in Vouchers : vouchers'[v].status = "redeemed" => vouchers'[v].count > 0
    <3>1. [vouchers[job[c].voucher] EXCEPT !.status = "revoked"] \in VoucherRow
      BY <2>2 DEF TypeOK, VoucherRow
    <3>2. ([vouchers[job[c].voucher] EXCEPT !.status = "revoked"]).status # "redeemed"
      BY <2>2 DEF TypeOK, VoucherRow
    <3> QED BY <1>7, <2>2, <3>1, <3>2 DEF CommitRevoke, TypeOK
  <2> QED BY <1>7, <2>1, <2>3, EndType DEF CommitRevoke, TypeOK
<1>8. ASSUME NEW c \in Calls, CommitBatchRevoke(c) PROVE TypeOK'
  <2>1. /\ vouchers' \in [Vouchers -> VoucherRow]
        /\ \A v \in Vouchers : vouchers'[v].status = "redeemed" => vouchers'[v].count > 0
    BY <1>8 DEF CommitBatchRevoke, TypeOK, VoucherRow
  <2> QED BY <1>8, <2>1, EndType DEF CommitBatchRevoke, TypeOK
<1>9. ASSUME NEW c \in Calls, CommitGrant(c) PROVE TypeOK'
  <2>1. PICK a : End(c, a)
    BY <1>9 DEF CommitGrant
  <2>2. job[c] \in Jobs
    BY <1>9 DEF CommitGrant, HasJob
  <2>3. [status |-> "active", key |-> job[c].key, who |-> job[c].who, marks |-> {}] \in GrantRow
    BY <2>2 DEF GrantRow
  <2> QED BY <1>9, <2>1, <2>3, EndType DEF CommitGrant, TypeOK
<1>13. ASSUME NEW c \in Calls, CommitLifecycle(c) PROVE TypeOK'
  <2>1. PICK a : End(c, a)
    BY <1>13 DEF CommitLifecycle
  <2>2. job[c] \in Jobs /\ job[c].grant \in Calls /\ job[c].kind \in Kinds
    BY <1>13, JobAssumption DEF CommitLifecycle, HasJob
  <2> DEFINE g == job[c].grant
             Marks == [print : Kinds \X {j.key : j \in Jobs}, who : {j.who : j \in Jobs}]
             mark == [print |-> Fingerprint(job[c]), who |-> job[c].who]
  <2>3. mark \in Marks
    BY <2>2 DEF Fingerprint
  <2> HIDE DEF mark
  <2>4. ASSUME NEW op \in {"expired", "voided"}
        PROVE  [grants[g] EXCEPT !.status = op, !.marks = @ \cup {mark}] \in GrantRow
    <3>1. grants[g] \in GrantRow
      BY <2>2 DEF TypeOK
    <3>2. grants[g].marks \cup {mark} \in SUBSET Marks
      BY <3>1, <2>3 DEF GrantRow
    <3>3. \A r \in GrantRow : \A m \in SUBSET Marks :
            [r EXCEPT !.status = op, !.marks = m] \in GrantRow
      BY DEF GrantRow
    <3> QED BY <3>1, <3>2, <3>3
  <2>5. grants' \in [Calls -> GrantRow]
    <3>1. CASE UNCHANGED grants
      BY <3>1 DEF TypeOK
    <3>2. ASSUME NEW op \in {"expired", "voided"},
                 grants' = [grants EXCEPT ![g].status = op, ![g].marks = @ \cup {mark}]
          PROVE  grants' \in [Calls -> GrantRow]
      <4>1. grants' = [grants EXCEPT ![g] =
                         [grants[g] EXCEPT !.status = op, !.marks = @ \cup {mark}]]
        BY <3>2, <2>2 DEF TypeOK
      <4> QED BY <4>1, <2>2, <2>4 DEF TypeOK
    <3> QED BY <1>13, <3>1, <3>2 DEF CommitLifecycle, mark
  <2> QED BY <1>13, <2>1, <2>5, EndType DEF CommitLifecycle, TypeOK
<1>10. ASSUME NEW c \in Calls, Fail(c) PROVE TypeOK'
  BY <1>10, EndType, MaxAssumption DEF Fail, TypeOK
<1>11. ASSUME NEW v \in Vouchers, ExpiresAt(v) PROVE TypeOK'
  BY <1>11 DEF ExpiresAt, TypeOK
<1>12. CASE UNCHANGED vars
  BY <1>12 DEF vars, TypeOK
<1> QED BY <1>1, <1>2, <1>3, <1>4, <1>5, <1>6, <1>7, <1>8, <1>9, <1>10, <1>11, <1>12, <1>13
        DEF Next, Step

Commit(c) == \/ CommitIssue(c) \/ CommitRedeem(c) \/ CommitRevoke(c) \/ CommitBatchRevoke(c)
             \/ CommitGrant(c) \/ CommitLifecycle(c)
Closing(c) == \/ LookupRejected(c) \/ AnswerByKey(c) \/ RefuseRedeem(c)
              \/ Commit(c) \/ Fail(c)

\* A redeem that the tables accept; one that they do not leaves nothing.
Redeems(c) == CommitRedeem(c) /\ TableAccepts(c)

\* The kinds of steps there are.
LEMMA Cases ==
  ASSUME [Next]_vars
  PROVE  \/ \E c \in Calls : \/ \E j \in Jobs : Start(c, j)
                             \/ LockKey(c) \/ LockRows(c) \/ Closing(c)
         \/ \E v \in Vouchers : ExpiresAt(v)
         \/ UNCHANGED vars
BY DEF Next, Step, Closing, Commit

\* Whatever closes a request ends its transaction.
LEMMA ClosingEnds ==
  ASSUME NEW c \in Calls, Closing(c)
  PROVE  \E a : End(c, a)
BY DEF Closing, Commit, LookupRejected, AnswerByKey, RefuseRedeem, CommitIssue, CommitRedeem, CommitRevoke,
       CommitBatchRevoke, CommitGrant, CommitLifecycle, Fail

\* Only a commit changes vouchers, redemptions and grants.
LEMMA OnlyCommitsWrite ==
  ASSUME [Next]_vars, ~\E c \in Calls : Commit(c)
  PROVE  UNCHANGED <<vouchers, redemptions, grants>>
BY DEF Next, Step, Commit, vars, Start, LookupRejected, LockKey, LockRows, AnswerByKey,
       RefuseRedeem, Fail, ExpiresAt

\* Requests have bodies and locks exclude each other.
LEMMA MemoryStep ==
  ASSUME Inv, [Next]_vars
  PROVE  HasJob' /\ RowsExclusive'
<1> USE DEF Inv, TypeOK, HasJob, RowsExclusive
<1>1. ASSUME NEW c \in Calls, NEW j \in Jobs, Start(c, j) PROVE HasJob' /\ RowsExclusive'
  BY <1>1 DEF Start
<1>2. ASSUME NEW c \in Calls, LockKey(c) PROVE HasJob' /\ RowsExclusive'
  BY <1>2 DEF LockKey
<1>3. ASSUME NEW c \in Calls, LockRows(c) PROVE HasJob' /\ RowsExclusive'
  <2>1. HasJob'
    BY <1>3 DEF LockRows
  <2>2. \A d \in Calls : d # c => held[d] \cap RowsOf(job[c]) = {}
    BY <1>3 DEF LockRows, RowsFree, Others
  <2>3. held' = [held EXCEPT ![c] = RowsOf(job[c])] /\ pc' = [pc EXCEPT ![c] = "locked"]
    BY <1>3 DEF LockRows
  <2> HIDE DEF HasJob
  <2>4. RowsExclusive'
    BY <2>2, <2>3
  <2> QED BY <2>1, <2>4
<1>4. ASSUME NEW c \in Calls, NEW a, End(c, a) PROVE HasJob' /\ RowsExclusive'
  BY <1>4 DEF End
<1>5. ASSUME NEW v \in Vouchers, ExpiresAt(v) PROVE HasJob' /\ RowsExclusive'
  BY <1>5 DEF ExpiresAt
<1>6. CASE UNCHANGED vars
  BY <1>6 DEF vars
<1> QED BY <1>1, <1>2, <1>3, <1>4, <1>5, <1>6, Cases, ClosingEnds

\* A grant is the last thing its request writes.
LEMMA GrantsLastStep ==
  ASSUME Inv, [Next]_vars
  PROVE  GrantsLast'
<1> USE DEF Inv, TypeOK, GrantsLast
<1>1. \A c \in Calls : pc[c] = "done" => pc'[c] = "done"
  BY Cases, ClosingEnds DEF Start, LockKey, LockRows, End, ExpiresAt, vars
<1>2. ASSUME NEW c \in Calls, Commit(c) PROVE GrantsLast'
  <2>1. PICK a : End(c, a)
    BY <1>2, ClosingEnds DEF Closing
  <2>2. ASSUME NEW g \in Calls, pc'[g] # "done" PROVE grants'[g].status = "absent"
    <3>1. g # c /\ pc[g] # "done" /\ grants[g].status = "absent"
      BY <2>1, <2>2, <1>1 DEF End
    <3>2. CASE CommitLifecycle(c)
      <4>1. job[c].grant \in Calls /\ (grants'[g] # grants[g] => g = job[c].grant /\ grants[g].status = "active")
        BY <3>2, JobAssumption DEF CommitLifecycle, LifecycleApplies, HasJob
      <4> QED BY <3>1, <4>1
    <3>3. CASE ~CommitLifecycle(c)
      BY <1>2, <3>1, <3>3 DEF Commit, CommitIssue, CommitRedeem, CommitRevoke, CommitBatchRevoke,
                              CommitGrant
    <3> QED BY <3>2, <3>3
  <2> QED BY <2>2
<1> QED BY <1>1, <1>2, OnlyCommitsWrite

\* A commit touches the rows it holds, or inserts a voucher.
LEMMA VoucherWrites ==
  ASSUME Inv, NEW c \in Calls, Commit(c), NEW v \in Vouchers, vouchers'[v] # vouchers[v]
  PROVE  \/ vouchers[v].status = "absent" /\ vouchers'[v].count = 0 /\ vouchers'[v].status = "issued"
         \/ /\ v \in held[c] /\ vouchers[v].status = "issued"
            /\ vouchers'[v].status # "absent"
<1> USE DEF Inv
<1> vouchers \in [Vouchers -> VoucherRow]
  BY DEF TypeOK
<1> pc[c] = "locked" /\ job[c] \in Jobs /\ job[c].voucher \in Vouchers
  BY JobAssumption DEF HasJob, Commit, CommitIssue, CommitRedeem, CommitRevoke, CommitBatchRevoke,
                       CommitGrant, CommitLifecycle, Accepted
<1>1. CASE CommitIssue(c)
  BY <1>1 DEF CommitIssue
<1>2. CASE CommitRedeem(c)
  <2>1. v = job[c].voucher /\ vouchers'[v] = AfterRedeem(v) /\ seen[c].status = "issued"
    BY <1>2 DEF CommitRedeem, Accepted, voucher_redeem_refusal_code
  <2>2. v \in held[c] /\ vouchers[v].status = "issued"
    BY <1>2, <2>1 DEF ReadsCurrent, CommitRedeem, Accepted
  <2>3. AfterRedeem(v).status \in {"redeemed", "issued"}
    BY <2>2 DEF AfterRedeem, VoucherRow
  <2> QED BY <2>1, <2>2, <2>3
<1>3. CASE CommitRevoke(c)
  <2>1. v = job[c].voucher /\ seen[c].status = "issued"
        /\ vouchers'[v] = [vouchers[v] EXCEPT !.status = "revoked"]
    BY <1>3 DEF CommitRevoke, Revocable
  <2>2. v \in held[c] /\ vouchers[v].status = "issued"
    BY <1>3, <2>1 DEF ReadsCurrent, CommitRevoke
  <2> QED BY <2>1, <2>2 DEF VoucherRow
<1>4. CASE CommitBatchRevoke(c)
  BY <1>4 DEF CommitBatchRevoke, ReadsCurrent, VoucherRow
<1>5. CASE CommitGrant(c) \/ CommitLifecycle(c)
  BY <1>5 DEF CommitGrant, CommitLifecycle
<1> QED BY <1>1, <1>2, <1>3, <1>4, <1>5 DEF Commit

\* So what a transaction has read stays current while it holds the row.
LEMMA ReadsCurrentStep ==
  ASSUME Inv, [Next]_vars
  PROVE  ReadsCurrent' /\ AbsentUnused'
<1> USE DEF Inv
<1>1. AbsentUnused'
  BY VoucherWrites, OnlyCommitsWrite DEF AbsentUnused
<1>2. ASSUME NEW c \in Calls, Commit(c) PROVE ReadsCurrent'
  <2>1. PICK a : End(c, a)
    BY <1>2, ClosingEnds DEF Closing
  <2>2. ASSUME NEW d \in Calls, pc'[d] = "locked" 
        PROVE  /\ d # c /\ pc[d] = "locked" /\ job'[d] = job[d] /\ seen'[d] = seen[d]
               /\ held'[d] = held[d] /\ held[d] \cap held[c] = {}
    BY <2>1, <2>2 DEF End, TypeOK, RowsExclusive
  <2>3. ASSUME NEW d \in Calls, pc'[d] = "locked", NEW v \in Vouchers, v \in held[d],
               vouchers[v].status # "absent"
        PROVE  vouchers'[v] = vouchers[v]
    BY <1>2, <2>2, <2>3, VoucherWrites
  <2>4. \A d \in Calls : pc[d] = "locked" => job[d] \in Jobs /\ job[d].voucher \in Vouchers
    BY JobAssumption DEF HasJob
  <2> QED BY <2>2, <2>3, <2>4 DEF ReadsCurrent
<1>3. ASSUME NEW c \in Calls, LockRows(c) PROVE ReadsCurrent'
  <2>1. job[c] \in Jobs /\ job[c].voucher \in Vouchers
    BY <1>3, JobAssumption DEF LockRows, HasJob
  <2>2. ASSUME NEW d \in Calls, d # c, pc'[d] = "locked"
        PROVE  pc[d] = "locked" /\ held'[d] = held[d] /\ seen'[d] = seen[d] /\ job'[d] = job[d]
    BY <1>3, <2>2 DEF LockRows, TypeOK
  <2>3. UNCHANGED <<job, vouchers>> /\ held'[c] = RowsOf(job[c])
        /\ (job[c].kind \in {"redeem", "revoke"} => seen'[c] = vouchers[job[c].voucher])
    BY <1>3 DEF LockRows, TypeOK
  <2>4. /\ job[c].kind \in {"redeem", "revoke"} => job[c].voucher \in RowsOf(job[c])
        /\ job[c].kind = "batch" => \A v \in RowsOf(job[c]) : vouchers[v].status = "issued"
    BY DEF RowsOf
  <2> QED BY <2>2, <2>3, <2>4 DEF ReadsCurrent
<1>4. ASSUME UNCHANGED vouchers,
             \A d \in Calls : pc'[d] = "locked" =>
               pc[d] = "locked" /\ held'[d] = held[d] /\ seen'[d] = seen[d] /\ job'[d] = job[d]
      PROVE  ReadsCurrent'
  BY <1>4 DEF ReadsCurrent
<1>5. ASSUME NEW c \in Calls, NEW j \in Jobs, Start(c, j) PROVE ReadsCurrent'
  BY <1>4, <1>5 DEF Start, TypeOK
<1>6. ASSUME NEW c \in Calls, LockKey(c) PROVE ReadsCurrent'
  BY <1>4, <1>6 DEF LockKey, TypeOK
<1>7. ASSUME NEW c \in Calls, LookupRejected(c) \/ AnswerByKey(c) \/ RefuseRedeem(c) \/ Fail(c)
      PROVE  ReadsCurrent'
  <2>1. PICK a : End(c, a)
    BY <1>7, ClosingEnds DEF Closing
  <2>2. UNCHANGED vouchers
    BY <1>7 DEF LookupRejected, AnswerByKey, RefuseRedeem, Fail
  <2> QED BY <1>4, <2>1, <2>2 DEF End, TypeOK
<1>8. ASSUME NEW v \in Vouchers, ExpiresAt(v) PROVE ReadsCurrent'
  BY <1>4, <1>8 DEF ExpiresAt
<1>9. ASSUME UNCHANGED vars PROVE ReadsCurrent'
  <2>1. UNCHANGED <<pc, job, held, seen, vouchers>>
    BY <1>9 DEF vars
  <2> QED BY <2>1 DEF ReadsCurrent
<1> QED BY <1>1, <1>2, <1>3, <1>5, <1>6, <1>7, <1>8, <1>9, Cases DEF Closing

\* The inductive invariant holds in every reachable state.
LEMMA VoucherInvariant == Spec => []Inv
<1>1. Inv /\ [Next]_vars => Inv'
  BY VoucherTypeStep, MemoryStep, GrantsLastStep, ReadsCurrentStep DEF Inv
<1> QED BY VoucherInit, <1>1, PTL DEF Spec

\* Rows of vouchers, grants and redemptions keep their types; a voucher that
\* counts as used up has been used.
THEOREM VoucherTypeCorrect == Spec => []TypeOK
<1>1. Inv => TypeOK
  BY DEF Inv
<1> QED BY VoucherInvariant, <1>1, PTL

\* However many redeems, revokes and batch revokes race for a voucher: after
\* the revoke commits, none of its redemptions does.
THEOREM RevokedVouchersStay == Spec => RevokedStays
<1> DEFINE Kept == \A v \in Vouchers : vouchers[v].status = "revoked" =>
                     /\ vouchers'[v].status = "revoked"
                     /\ {r \in redemptions' : r.voucher = v} = RedemptionsOf(v)
<1>1. Inv /\ [Next]_vars => [Kept]_vars
  <2> SUFFICES ASSUME Inv, [Next]_vars, NEW v \in Vouchers, vouchers[v].status = "revoked"
               PROVE  /\ vouchers'[v].status = "revoked"
                      /\ {r \in redemptions' : r.voucher = v} = RedemptionsOf(v)
    OBVIOUS
  <2>1. vouchers'[v] = vouchers[v]
    BY VoucherWrites, OnlyCommitsWrite
  <2>2. ASSUME NEW c \in Calls, Redeems(c)
        PROVE  {r \in redemptions' : r.voucher = v} = RedemptionsOf(v)
    <3>1. pc[c] = "locked" /\ job[c].kind = "redeem" /\ seen[c].status = "issued"
      BY <2>2 DEF Redeems, CommitRedeem, Accepted, voucher_redeem_refusal_code
    <3>2. job[c].voucher # v
      BY <3>1 DEF Inv, ReadsCurrent
    <3> DEFINE row == [key |-> job[c].key, voucher |-> job[c].voucher,
                       who |-> job[c].who, grant |-> c]
    <3>3. redemptions' = redemptions \cup {row} /\ row.voucher # v
      BY <2>2, <3>2 DEF Redeems, CommitRedeem
    <3> HIDE DEF row
    <3> QED BY <3>3 DEF RedemptionsOf
  <2>3. ASSUME UNCHANGED redemptions
        PROVE  {r \in redemptions' : r.voucher = v} = RedemptionsOf(v)
    BY <2>3 DEF RedemptionsOf
  <2>4. (\E c \in Calls : Redeems(c)) \/ UNCHANGED redemptions
    BY OnlyCommitsWrite DEF Commit, Redeems, CommitRedeem, CommitIssue, CommitRevoke, CommitBatchRevoke, CommitGrant,
                            CommitLifecycle
  <2> QED BY <2>1, <2>2, <2>3, <2>4
<1> QED BY VoucherInvariant, <1>1, PTL DEF Spec, RevokedStays

\* A used-up voucher and an ended grant keep their status in every step.
THEOREM FinalStatesStay == Spec => FinalStays
<1> DEFINE Kept == /\ \A v \in Vouchers :
                        vouchers[v].status = "redeemed" => vouchers'[v].status = "redeemed"
                   /\ \A g \in Calls : grants[g].status \in {"expired", "voided"} =>
                        grants'[g].status = grants[g].status
<1>1. Inv /\ [Next]_vars => [Kept]_vars
  <2> SUFFICES ASSUME Inv, [Next]_vars PROVE Kept
    OBVIOUS
  <2>1. ASSUME NEW v \in Vouchers, vouchers[v].status = "redeemed"
        PROVE  vouchers'[v].status = "redeemed"
    BY <2>1, VoucherWrites, OnlyCommitsWrite
  <2>2. ASSUME NEW g \in Calls, grants[g].status \in {"expired", "voided"}, NEW c \in Calls, Commit(c)
        PROVE  grants'[g] = grants[g]
    <3> USE DEF Inv
    <3>1. pc[c] = "locked"
      BY <2>2 DEF Commit, CommitIssue, CommitRedeem, CommitRevoke, CommitBatchRevoke,
                  CommitGrant, CommitLifecycle, Accepted
    <3>2. g # c
      BY <2>2, <3>1 DEF GrantsLast
    <3>3. CASE CommitLifecycle(c)
      BY <2>2, <3>3 DEF CommitLifecycle, LifecycleApplies, TypeOK
    <3>4. CASE ~CommitLifecycle(c)
      BY <2>2, <3>2, <3>4 DEF Commit, CommitIssue, CommitRedeem, CommitRevoke, CommitBatchRevoke,
                              CommitGrant, TypeOK
    <3> QED BY <3>3, <3>4
  <2> QED BY <2>1, <2>2, OnlyCommitsWrite
<1> QED BY VoucherInvariant, <1>1, PTL DEF Spec, FinalStays

\* The requests that hold a key: no two hold one, and a redeem that holds its
\* key has not found it among the redemptions.
KeysExclusive ==
  /\ \A c, d \in Calls :
       c # d /\ HoldsKey(c) /\ HoldsKey(d) => Fingerprint(job[c]) # Fingerprint(job[d])
  /\ \A c \in Calls : HoldsKey(c) /\ job[c].kind = "redeem" =>
       \A r \in redemptions : r.key # job[c].key

\* The advisory lock keeps keys apart until the row is committed.
LEMMA KeysExclusiveStep ==
  ASSUME Inv, KeysExclusive, [Next]_vars
  PROVE  KeysExclusive'
<1> USE DEF Inv, TypeOK, KeysExclusive, HoldsKey
<1>1. ASSUME NEW c \in Calls, NEW j \in Jobs, Start(c, j) PROVE KeysExclusive'
  BY <1>1 DEF Start
<1>2. ASSUME NEW c \in Calls, LockKey(c) PROVE KeysExclusive'
  <2>1. UNCHANGED <<job, redemptions>> /\ pc' = [pc EXCEPT ![c] = "keyed"]
    BY <1>2 DEF LockKey
  <2>2. \A d \in Calls : d # c /\ HoldsKey(d) /\ job[c].kind \in Keyed =>
          Fingerprint(job[d]) # Fingerprint(job[c])
    BY <1>2 DEF LockKey, lock_credit_grant_idempotency, Others
  <2>3. job[c].kind = "redeem" => \A r \in redemptions : r.key # job[c].key
    BY <1>2 DEF LockKey, KeyUsed
  <2> QED BY <2>1, <2>2, <2>3
<1>3. ASSUME NEW c \in Calls, LockRows(c) PROVE KeysExclusive'
  BY <1>3 DEF LockRows
<1>4. ASSUME NEW c \in Calls, Closing(c) PROVE KeysExclusive'
  <2>1. PICK a : End(c, a)
    BY <1>4, ClosingEnds
  <2>2. \A d \in Calls : HoldsKey(d)' => d # c /\ HoldsKey(d) /\ job'[d] = job[d]
    BY <2>1 DEF End
  <2>3. ASSUME NEW d \in Calls, HoldsKey(d)', job[d].kind = "redeem"
        PROVE  \A r \in redemptions' : r.key # job[d].key
    <3>1. CASE CommitRedeem(c)
      <4>1. HoldsKey(c) /\ job[c].kind = "redeem"
        BY <3>1 DEF CommitRedeem, Accepted, Keyed
      <4>2. job[c].key # job[d].key
        BY <2>2, <2>3, <4>1 DEF Fingerprint
      <4> QED BY <2>2, <2>3, <3>1, <4>2 DEF CommitRedeem
    <3>2. CASE UNCHANGED redemptions
      BY <2>2, <2>3, <3>2
    <3> QED BY <1>4, <3>1, <3>2 DEF Closing, Commit, LookupRejected, AnswerByKey, RefuseRedeem, Fail,
               CommitIssue, CommitRevoke, CommitBatchRevoke, CommitGrant, CommitLifecycle
  <2>4. \A d, e \in Calls : d # e /\ HoldsKey(d)' /\ HoldsKey(e)' =>
          Fingerprint(job'[d]) # Fingerprint(job'[e])
    BY <2>2
  <2>5. \A d \in Calls : HoldsKey(d)' /\ job'[d].kind = "redeem" =>
          \A r \in redemptions' : r.key # job'[d].key
    BY <2>2, <2>3
  <2> QED BY <2>4, <2>5
<1>5. ASSUME NEW v \in Vouchers, ExpiresAt(v) PROVE KeysExclusive'
  BY <1>5 DEF ExpiresAt
<1>6. CASE UNCHANGED vars
  BY <1>6 DEF vars
<1> QED BY <1>1, <1>2, <1>3, <1>4, <1>5, <1>6, Cases

\* A redemption adds one row, of its own name, to its voucher.
LEMMA RedeemRow ==
  ASSUME Inv, NEW c \in Calls, Redeems(c)
  PROVE  \E row : /\ redemptions' = redemptions \cup {row}
                  /\ row.key = job[c].key /\ row.voucher = job[c].voucher /\ row.grant = c
<1> WITNESS [key |-> job[c].key, voucher |-> job[c].voucher, who |-> job[c].who, grant |-> c]
<1> QED BY DEF Redeems, CommitRedeem

\* Redemption rows are finitely many and named by requests that have ended.
RowsNamed ==
  /\ IsFiniteSet(redemptions)
  /\ \A r \in redemptions : r.grant \in Calls /\ pc[r.grant] = "done"

\* A request leaves at most one redemption row.
LEMMA RowsNamedStep ==
  ASSUME Inv, RowsNamed, [Next]_vars
  PROVE  RowsNamed'
<1> USE DEF Inv, RowsNamed
<1>1. \A c \in Calls : pc[c] = "done" => pc'[c] = "done"
  BY Cases, ClosingEnds DEF Start, LockKey, LockRows, End, ExpiresAt, vars, TypeOK
<1>2. ASSUME NEW c \in Calls, Redeems(c) PROVE RowsNamed'
  <2>1. PICK row : redemptions' = redemptions \cup {row} /\ row.grant = c
    BY <1>2, RedeemRow
  <2>2. pc'[c] = "done"
    BY <1>2 DEF Redeems, CommitRedeem, End, TypeOK
  <2>3. IsFiniteSet(redemptions')
    BY <2>1, FS_AddElement
  <2> QED BY <1>1, <2>1, <2>2, <2>3
<1>3. CASE UNCHANGED redemptions
  BY <1>1, <1>3
<1> QED BY <1>2, <1>3, OnlyCommitsWrite DEF Commit, Redeems, CommitRedeem, CommitIssue, CommitRevoke,
           CommitBatchRevoke, CommitGrant, CommitLifecycle

Counts ==
  \A v \in Vouchers : /\ vouchers[v].count = Cardinality(RedemptionsOf(v))
                      /\ vouchers[v].count <= Max[v]

\* The counter is the number of rows and stops at the limit.
LEMMA LimitStep ==
  ASSUME Inv, RowsNamed, Counts, [Next]_vars
  PROVE  Counts'
<1> USE DEF Inv
<1> DEFINE Ok(v) == vouchers'[v].count = Cardinality({r \in redemptions' : r.voucher = v})
                    /\ vouchers'[v].count <= Max[v]
<1> SUFFICES ASSUME NEW v \in Vouchers PROVE Ok(v)
  BY DEF Counts, RedemptionsOf
<1>0. /\ vouchers[v].count = Cardinality(RedemptionsOf(v)) /\ vouchers[v].count <= Max[v]
      /\ vouchers[v].count \in Nat /\ Max[v] \in Nat
  BY MaxAssumption DEF Counts, TypeOK, VoucherRow
<1>1. ASSUME NEW c \in Calls, Redeems(c), job[c].voucher = v PROVE Ok(v)
  <2>1. PICK row : redemptions' = redemptions \cup {row} /\ row.grant = c /\ row.voucher = v
    BY <1>1, RedeemRow
  <2>2. pc[c] = "locked" /\ seen[c].status = "issued" /\ ~(seen[c].count >= Max[v])
        /\ job[c].kind = "redeem"
    BY <1>1 DEF Redeems, CommitRedeem, Accepted, voucher_redeem_refusal_code
  <2>3. seen[c] = vouchers[v]
    BY <1>1, <2>2 DEF ReadsCurrent
  <2>4. row \notin redemptions
    BY <2>1, <2>2 DEF RowsNamed
  <2>5. {r \in redemptions' : r.voucher = v} = RedemptionsOf(v) \cup {row}
    BY <2>1 DEF RedemptionsOf
  <2>6. IsFiniteSet(RedemptionsOf(v))
    BY FS_Subset DEF RowsNamed, RedemptionsOf
  <2>7. Cardinality(RedemptionsOf(v) \cup {row}) = Cardinality(RedemptionsOf(v)) + 1
    BY <2>4, <2>6, FS_AddElement DEF RedemptionsOf
  <2>8. vouchers'[v].count = vouchers[v].count + 1
    <3>1. vouchers'[v] = AfterRedeem(v)
      BY <1>1 DEF Redeems, CommitRedeem, Accepted, TypeOK
    <3> QED BY <3>1, AfterRedeemRow
  <2>9. vouchers'[v].count <= Max[v]
    BY <1>0, <2>2, <2>3, <2>8
  <2>10. vouchers'[v].count = Cardinality(RedemptionsOf(v) \cup {row})
    BY <1>0, <2>7, <2>8
  <2> QED BY <2>5, <2>9, <2>10, Zenon
<1>2. ASSUME {r \in redemptions' : r.voucher = v} = RedemptionsOf(v),
             vouchers'[v].count = vouchers[v].count
      PROVE  Ok(v)
  BY <1>0, <1>2
<1>3. ASSUME NEW c \in Calls, Redeems(c), job[c].voucher # v PROVE Ok(v)
  <2>1. PICK row : redemptions' = redemptions \cup {row} /\ row.voucher = job[c].voucher
    BY <1>3, RedeemRow
  <2>2. {r \in redemptions' : r.voucher = v} = RedemptionsOf(v)
    BY <1>3, <2>1 DEF RedemptionsOf
  <2>3. vouchers'[v] = vouchers[v]
    BY <1>3 DEF Redeems, CommitRedeem, Accepted, TypeOK
  <2> QED BY <1>2, <2>2, <2>3
<1>4. ASSUME UNCHANGED redemptions, ~\E c \in Calls : Redeems(c) PROVE Ok(v)
  <2>1. vouchers'[v].count = vouchers[v].count
    <3>1. ASSUME NEW c \in Calls, CommitIssue(c) PROVE vouchers'[v].count = vouchers[v].count
      BY <3>1 DEF CommitIssue, AbsentUnused, TypeOK, VoucherRow
    <3>2. ASSUME NEW c \in Calls, CommitRevoke(c) \/ CommitBatchRevoke(c)
          PROVE  vouchers'[v].count = vouchers[v].count
      <4>1. vouchers'[v] = vouchers[v] \/ vouchers'[v] = [vouchers[v] EXCEPT !.status = "revoked"]
        BY <3>2 DEF CommitRevoke, CommitBatchRevoke, TypeOK
      <4> QED BY <4>1 DEF TypeOK, VoucherRow
    <3>3. ASSUME NEW c \in Calls, CommitGrant(c) \/ CommitLifecycle(c)
          PROVE  vouchers'[v].count = vouchers[v].count
      BY <3>3 DEF CommitGrant, CommitLifecycle
    <3> QED BY <1>4, <3>1, <3>2, <3>3, OnlyCommitsWrite DEF Commit, Redeems, CommitRedeem
  <2> QED BY <1>2, <1>4, <2>1 DEF RedemptionsOf
<1>5. (\E c \in Calls : Redeems(c)) \/ UNCHANGED redemptions
  BY OnlyCommitsWrite DEF Commit, Redeems, CommitRedeem, CommitIssue, CommitRevoke, CommitBatchRevoke, CommitGrant,
                          CommitLifecycle
<1> QED BY <1>1, <1>3, <1>4, <1>5

\* What a redeem has checked under its locks the tables do not refuse.
LEMMA AcceptedFits ==
  ASSUME Inv, KeysExclusive, NEW c \in Calls, Accepted(c)
  PROVE  TableAccepts(c)
<1>1. pc[c] = "locked" /\ job[c] \in Jobs /\ job[c].kind = "redeem" /\ job[c].voucher \in Vouchers
  BY JobAssumption DEF Inv, HasJob, Accepted
<1>2. seen[c] = vouchers[job[c].voucher] /\ ~(seen[c].count >= Max[job[c].voucher])
  BY <1>1 DEF Inv, ReadsCurrent, Accepted, voucher_redeem_refusal_code
<1>3. vouchers[job[c].voucher].count \in Nat /\ Max[job[c].voucher] \in Nat
  BY <1>1, MaxAssumption DEF Inv, TypeOK, VoucherRow
<1>4. \A r \in redemptions : r.key # job[c].key
  BY <1>1 DEF KeysExclusive, HoldsKey, Keyed
<1> QED BY <1>2, <1>3, <1>4 DEF TableAccepts

\* For any number of requests that race for its last use, a voucher is redeemed
\* at most max_redemptions times, its counter says how often, and the locks
\* decide the race before the tables' constraints have to.
THEOREM RedemptionsLimited == Spec => []RedemptionLimit
<1>1. Inv /\ RowsNamed /\ KeysExclusive /\ Counts /\ [Next]_vars =>
        (RowsNamed /\ KeysExclusive /\ Counts)'
  BY RowsNamedStep, KeysExclusiveStep, LimitStep
<1>2. Inv /\ KeysExclusive /\ Counts => RedemptionLimit
  BY AcceptedFits DEF Counts, RedemptionLimit
<1>3. Init => RowsNamed /\ KeysExclusive /\ Counts
  <2> SUFFICES ASSUME Init PROVE RowsNamed /\ KeysExclusive /\ Counts
    OBVIOUS
  <2>1. redemptions = {} /\ \A v \in Vouchers : RedemptionsOf(v) = {} /\ vouchers[v].count = 0
    BY DEF Init, RedemptionsOf, NewVoucher
  <2>2. KeysExclusive
    BY DEF Init, KeysExclusive, HoldsKey
  <2> QED BY <2>1, <2>2, FS_EmptySet, MaxAssumption DEF RowsNamed, Counts
<1> QED BY VoucherInvariant, <1>1, <1>2, <1>3, PTL DEF Spec
=============================================================================
