--------------------------- MODULE LedgerAdjustment ---------------------------
(***************************************************************************)
(* Admin ledger adjustments: POST /admin/ledger/adjustments in execute     *)
(* mode.  One call is one handler.  It opens a transaction, locks the      *)
(* related ledger entry and then the wallet, looks for an entry written    *)
(* under the same server-made key, checks what is left to refund, and      *)
(* either inserts the entry and its audit row before it commits (the       *)
(* legacy writer) or, when the persistent cutover state selects it, takes  *)
(* a snapshot, ROLLS BACK, plans from the snapshot and lets the billing    *)
(* ledger's runtime writer insert the entry in a second transaction, and   *)
(* the audit row in a third.                                               *)
(*                                                                         *)
(* Rows of the same transaction become visible together, and its locks are *)
(* released with it; `sums' is what the confirmed-credit query of the      *)
(* handler and the planner's fold over the snapshot would return.  One     *)
(* wallet, one project and one currency: calls differ in what they lock    *)
(* only by the source entry.                                               *)
(***************************************************************************)
EXTENDS Integers, FiniteSets

CONSTANTS
  Calls,         \* admin requests, each handled once
  Sources,       \* confirmed debits of the ledger that a call may refer to
  NoSource,      \* an adjustment with no related ledger entry
  Kind,          \* entry_type of each source
  Debit,         \* what each source took from the wallet
  Inputs,        \* the bodies a call may carry: [op, source, amount]
  Base,          \* balance_floor plus the active grants of the wallet
  BudgetLimit,   \* the smallest limit_amount of the active budgets
  NoCall,        \* a lock nobody holds
  NoInput,       \* a call that has not arrived
  MaxFaults,     \* failed statements and crashed handlers
  MaxToggles     \* operator switches of the cutover state

ASSUME SourceAssumption ==
  /\ NoSource \notin Sources
  /\ Kind \in [Sources -> {"settle", "adjust", "reserve"}]
  /\ Debit \in [Sources -> Nat \ {0}]

ASSUME InputAssumption ==
  /\ NoInput \notin Inputs
  /\ \A i \in Inputs : /\ i.op \in {"refund", "adjust"}
                       /\ i.source \in Sources \cup {NoSource}
                       /\ i.amount \in Int \ {0}

ASSUME CallAssumption == NoCall \notin Calls

ASSUME BoundAssumption ==
  /\ MaxFaults \in Nat /\ MaxToggles \in Nat
  /\ Base \in Int /\ BudgetLimit \in Int

VARIABLES
  pc,         \* where each handler stands
  input,      \* the body of each call
  plan,       \* what the runtime planner decided for the call
  answer,     \* what the caller was told
  entryLock,  \* the transaction that holds each source FOR UPDATE
  walletLock, \* the transaction that holds the wallet FOR UPDATE
  entries,    \* adjustment entries written: [key, by]
  sums,       \* per source: confirmed credits, refunds, further debits
  audits,     \* success audit rows: [input, by]
  cutover,    \* the writer the persistent cutover state selects
  faults, toggles

vars == <<pc, input, plan, answer, entryLock, walletLock, entries, sums, audits,
          cutover, faults, toggles>>

Places == {"new", "entry", "locked", "checked", "planned", "wallet", "rows",
           "audit", "done"}
Answers == {"none", "created", "replayed", "refused", "not_committed", "error"}
NoSums == [credit |-> 0, refunded |-> 0, debited |-> 0]

-----------------------------------------------------------------------------
(* Amounts and keys. *)

\* The key of an entry is made of the request's own fields, so two calls with
\* one body share it; each writer has its own prefix.
ledger_adjustment_execute_dedupe_key(i) == <<"legacy", i>>
runtime_writer_idempotency_key(i) == <<"runtime", i>>

Written(k) == \E e \in entries : e.key = k

\* Mutant: the lookup goes by the related entry alone.
AlreadyWrittenForSource(i) == \E e \in entries : e.key[2].source = i.source

AlreadyWritten(i) == Written(ledger_adjustment_execute_dedupe_key(i))

\* The related-entry validation of the request.
Valid(i) ==
  i.op = "refund" => /\ i.source # NoSource
                     /\ i.amount > 0
                     /\ Kind[i.source] \in {"settle", "adjust"}

\* validate_refund_remaining_amount over the locked credit rows.
WithinRemaining(i) ==
  i.op = "refund" => i.amount <= Debit[i.source] - sums[i.source].credit

\* What plan_ledger_refund makes of the snapshot: only settles are refundable,
\* only refunds count against them, and a partial refund may not take it all.
plan_ledger_refund(i) ==
  /\ Kind[i.source] = "settle"
  /\ i.amount < Debit[i.source] - sums[i.source].refunded

\* The balance window is the wallet's base and the snapshot's rows only.
balance_window(i) ==
  IF i.source = NoSource THEN Base
  ELSE Base - Debit[i.source] + sums[i.source].credit - sums[i.source].debited

required_debit(i) == IF i.amount < 0 THEN -i.amount ELSE 0

Covered(i) == /\ required_debit(i) = 0 \/ balance_window(i) >= required_debit(i)
              /\ BudgetLimit >= required_debit(i)

plan_consistent_ledger_write(i) ==
  IF Written(runtime_writer_idempotency_key(i)) THEN "idempotent"
  ELSE IF (i.op = "refund" => plan_ledger_refund(i)) /\ Covered(i) THEN "apply"
  ELSE "none"

\* Mutant: the credit sum forgets `amount > 0'.
BookedSigned(s, i) ==
  IF i.source # s THEN sums[s]
  ELSE [sums[s] EXCEPT !.credit = @ + i.amount]

\* One confirmed entry more: what the sums over its source become.
Booked(s, i) ==
  IF i.source # s THEN sums[s]
  ELSE [credit   |-> sums[s].credit + (IF i.amount > 0 THEN i.amount ELSE 0),
        refunded |-> sums[s].refunded + (IF i.op = "refund" THEN i.amount ELSE 0),
        debited  |-> sums[s].debited + (IF i.amount < 0 THEN -i.amount ELSE 0)]

Write(c, k) ==
  /\ entries' = entries \cup {[key |-> k, by |-> c]}
  /\ sums' = [s \in Sources |-> Booked(s, input[c])]

-----------------------------------------------------------------------------
(* Locks. *)

FreeEntries(c) == entryLock' = [s \in Sources |->
                     IF entryLock[s] = c THEN NoCall ELSE entryLock[s]]
FreeWallet(c) == walletLock' = IF walletLock = c THEN NoCall ELSE walletLock

\* Mutant: a return path that leaves its transaction open.
EndTxEntriesOnly(c) == FreeEntries(c) /\ UNCHANGED walletLock

\* The end of a transaction, committed or rolled back.
EndTx(c) == FreeEntries(c) /\ FreeWallet(c)

TakeEntry(c, s) ==
  IF s = NoSource THEN UNCHANGED entryLock
  ELSE /\ entryLock[s] = NoCall
       /\ entryLock' = [entryLock EXCEPT ![s] = c]

TakeWallet(c) == walletLock = NoCall /\ walletLock' = c

Answer(c, a) == /\ pc' = [pc EXCEPT ![c] = "done"]
                /\ answer' = [answer EXCEPT ![c] = a]

\* A failure of the runtime writer is an executor result that was not committed,
\* answered with a conflict; any other failure is an internal error.
FailureAnswer(c) ==
  IF pc[c] \in {"planned", "wallet", "rows"} THEN "not_committed" ELSE "error"

Goto(c, p) == pc' = [pc EXCEPT ![c] = p] /\ UNCHANGED answer

-----------------------------------------------------------------------------
(* The handler. *)

Init ==
  /\ pc = [c \in Calls |-> "new"]
  /\ input = [c \in Calls |-> NoInput]
  /\ plan = [c \in Calls |-> "none"]
  /\ answer = [c \in Calls |-> "none"]
  /\ entryLock = [s \in Sources |-> NoCall]
  /\ walletLock = NoCall
  /\ entries = {} /\ audits = {}
  /\ sums = [s \in Sources |-> NoSums]
  /\ cutover \in {"legacy", "runtime"}
  /\ faults = 0 /\ toggles = 0

\* The request is validated against the related entry, read FOR UPDATE: the
\* call waits here while another transaction holds that row.
Begin(c, i) ==
  /\ pc[c] = "new"
  /\ input' = [input EXCEPT ![c] = i]
  /\ IF Valid(i) THEN TakeEntry(c, i.source) /\ Goto(c, "entry")
     ELSE Answer(c, "refused") /\ UNCHANGED entryLock
  /\ UNCHANGED <<plan, walletLock, entries, sums, audits, cutover, faults, toggles>>

LockWallet(c) ==
  /\ pc[c] = "entry"
  /\ TakeWallet(c)
  /\ Goto(c, "locked")
  /\ UNCHANGED <<input, plan, entryLock, entries, sums, audits, cutover, faults, toggles>>

\* An entry under the same key: the call is a replay and writes nothing.
Replay(c) ==
  /\ pc[c] = "locked"
  /\ AlreadyWritten(input[c])
  /\ Answer(c, "replayed")
  /\ EndTx(c)
  /\ UNCHANGED <<input, plan, entries, sums, audits, cutover, faults, toggles>>

\* Mutant: the remaining amount is checked before the repeat is looked for.
RefuseBeforeReplay(c) ==
  /\ pc[c] = "locked"
  /\ ~WithinRemaining(input[c])
  /\ Answer(c, "refused")
  /\ EndTx(c)
  /\ UNCHANGED <<input, plan, entries, sums, audits, cutover, faults, toggles>>

RefuseOverRemaining(c) ==
  /\ pc[c] = "locked"
  /\ ~AlreadyWritten(input[c])
  /\ ~WithinRemaining(input[c])
  /\ Answer(c, "refused")
  /\ EndTx(c)
  /\ UNCHANGED <<input, plan, entries, sums, audits, cutover, faults, toggles>>

\* Mutant: the check has a transaction of its own.
CheckLegacyOwnTx(c) ==
  /\ pc[c] = "locked"
  /\ ~AlreadyWritten(input[c])
  /\ WithinRemaining(input[c])
  /\ cutover = "legacy"
  /\ Goto(c, "checked")
  /\ EndTx(c)
  /\ UNCHANGED <<input, plan, entries, sums, audits, cutover, faults, toggles>>

\* The check passed and the cutover state keeps the legacy writer.
CheckLegacy(c) ==
  /\ pc[c] = "locked"
  /\ ~AlreadyWritten(input[c])
  /\ WithinRemaining(input[c])
  /\ cutover = "legacy"
  /\ Goto(c, "checked")
  /\ UNCHANGED <<input, plan, entryLock, walletLock, entries, sums, audits,
                 cutover, faults, toggles>>

\* The entry and its audit row are committed together.
CommitLegacy(c) ==
  /\ pc[c] = "checked"
  /\ ~AlreadyWritten(input[c])
  /\ Write(c, ledger_adjustment_execute_dedupe_key(input[c]))
  /\ audits' = audits \cup {[input |-> input[c], by |-> c]}
  /\ Answer(c, "created")
  /\ EndTx(c)
  /\ UNCHANGED <<input, plan, cutover, faults, toggles>>

\* The check passed and the cutover state selects the runtime writer: the
\* snapshot is read under the locks, the transaction is rolled back, and the
\* plan is made from the snapshot.
PlanRuntime(c) ==
  /\ pc[c] = "locked"
  /\ ~AlreadyWritten(input[c])
  /\ WithinRemaining(input[c])
  /\ cutover = "runtime"
  /\ plan' = [plan EXCEPT ![c] = plan_consistent_ledger_write(input[c])]
  /\ IF plan_consistent_ledger_write(input[c]) = "none" THEN Answer(c, "refused")
     ELSE Goto(c, "planned")
  /\ EndTx(c)
  /\ UNCHANGED <<input, entries, sums, audits, cutover, faults, toggles>>

\* The runtime writer's transaction locks the wallet first, then the rows.
WriterLockWallet(c) ==
  /\ pc[c] = "planned"
  /\ TakeWallet(c)
  /\ Goto(c, "wallet")
  /\ UNCHANGED <<input, plan, entryLock, entries, sums, audits, cutover, faults, toggles>>

\* Only a refund's lock statement names the source entry.
LocksSource(c) == plan[c] = "apply" /\ input[c].op = "refund"

WriterLockRows(c) ==
  /\ pc[c] = "wallet"
  /\ IF LocksSource(c) THEN TakeEntry(c, input[c].source) ELSE UNCHANGED entryLock
  /\ Goto(c, "rows")
  /\ UNCHANGED <<input, plan, walletLock, entries, sums, audits, cutover, faults, toggles>>

\* The balance assertion compares constants of the plan; only the insert looks
\* at the table, and a key that is there already rolls the writer back.
WriterCommit(c) ==
  /\ pc[c] = "rows"
  /\ EndTx(c)
  /\ IF plan[c] = "apply" /\ Written(runtime_writer_idempotency_key(input[c]))
     THEN Answer(c, FailureAnswer(c)) /\ UNCHANGED <<entries, sums>>
     ELSE /\ Goto(c, "audit")
          /\ IF plan[c] = "apply" THEN Write(c, runtime_writer_idempotency_key(input[c]))
             ELSE UNCHANGED <<entries, sums>>
  /\ UNCHANGED <<input, plan, audits, cutover, faults, toggles>>

\* The runtime writer's audit row, in a transaction of its own.
WriteAudit(c) ==
  /\ pc[c] = "audit"
  /\ audits' = audits \cup {[input |-> input[c], by |-> c]}
  /\ Answer(c, "created")
  /\ UNCHANGED <<input, plan, entryLock, walletLock, entries, sums, cutover, faults, toggles>>

\* A statement fails or the handler dies: the open transaction is rolled back,
\* what earlier transactions of the call committed stays.
Fail(c) ==
  /\ pc[c] \in Places \ {"new", "done"}
  /\ faults < MaxFaults
  /\ faults' = faults + 1
  /\ Answer(c, FailureAnswer(c))
  /\ EndTx(c)
  /\ UNCHANGED <<input, plan, entries, sums, audits, cutover, toggles>>

\* The database commits and the acknowledgement is lost: the rows are there and
\* the call is answered as a failure.
LoseAck(c) ==
  /\ faults < MaxFaults
  /\ faults' = faults + 1
  /\ \/ /\ pc[c] = "checked" /\ ~AlreadyWritten(input[c])
        /\ Write(c, ledger_adjustment_execute_dedupe_key(input[c]))
        /\ audits' = audits \cup {[input |-> input[c], by |-> c]}
     \/ /\ pc[c] = "rows" /\ plan[c] = "apply"
        /\ ~Written(runtime_writer_idempotency_key(input[c]))
        /\ Write(c, runtime_writer_idempotency_key(input[c]))
        /\ UNCHANGED audits
     \/ /\ pc[c] = "audit"
        /\ audits' = audits \cup {[input |-> input[c], by |-> c]}
        /\ UNCHANGED <<entries, sums>>
  /\ Answer(c, FailureAnswer(c))
  /\ EndTx(c)
  /\ UNCHANGED <<input, plan, cutover, toggles>>

\* A handler that holds a source entry waits for the wallet, a writer that
\* holds the wallet waits for that entry: the database aborts one of them.
Waits(c, d) ==
  \/ pc[c] = "entry" /\ walletLock = d
  \/ /\ pc[c] = "wallet" /\ LocksSource(c)
     /\ entryLock[input[c].source] = d

DeadlockAbort(c) ==
  /\ \E d \in Calls \ {c} : Waits(c, d) /\ Waits(d, c)
  /\ Answer(c, FailureAnswer(c))
  /\ EndTx(c)
  /\ UNCHANGED <<input, plan, entries, sums, audits, cutover, faults, toggles>>

\* The operator's switch and rollback of the persistent cutover state.
SwitchWriter ==
  /\ toggles < MaxToggles
  /\ toggles' = toggles + 1
  /\ cutover' = IF cutover = "legacy" THEN "runtime" ELSE "legacy"
  /\ UNCHANGED <<pc, input, plan, answer, entryLock, walletLock, entries, sums,
                 audits, faults>>

Handler(c) ==
  \/ \E i \in Inputs : Begin(c, i)
  \/ LockWallet(c) \/ Replay(c) \/ RefuseOverRemaining(c)
  \/ CheckLegacy(c) \/ CommitLegacy(c)
  \/ PlanRuntime(c) \/ WriterLockWallet(c) \/ WriterLockRows(c)
  \/ WriterCommit(c) \/ WriteAudit(c) \/ DeadlockAbort(c)

Next == (\E c \in Calls : Handler(c) \/ Fail(c) \/ LoseAck(c)) \/ SwitchWriter

\* Calls are requests that have been sent; at "new" they wait for the lock on
\* their entry.  Each handler is a task of the server's runtime, and the database
\* detects lock cycles; faults and operator switches need not happen.
Spec == Init /\ [][Next]_vars /\ \A c \in Calls : WF_vars(Handler(c))

-----------------------------------------------------------------------------
(* Properties. *)

TypeOK ==
  /\ pc \in [Calls -> Places]
  /\ input \in [Calls -> Inputs \cup {NoInput}]
  /\ plan \in [Calls -> {"none", "apply", "idempotent"}]
  /\ answer \in [Calls -> Answers]
  /\ entryLock \in [Sources -> Calls \cup {NoCall}]
  /\ walletLock \in Calls \cup {NoCall}
  /\ entries \subseteq [key : {"legacy", "runtime"} \X Inputs, by : Calls]
  /\ sums \in [Sources -> [credit : Nat, refunded : Nat, debited : Nat]]
  /\ audits \subseteq [input : Inputs, by : Calls]
  /\ cutover \in {"legacy", "runtime"}
  /\ faults \in 0..MaxFaults /\ toggles \in 0..MaxToggles

\* A refund the legacy writer commits leaves the confirmed credits of its
\* source within the source's debit, although the check and the insert are
\* two statements and other calls refund and adjust the same source; also when
\* the caller never hears of the commit.
LegacyRefundWithin ==
  [][\A c \in Calls :
       pc[c] = "checked" /\ entries' # entries /\ pc'[c] = "done" /\ input[c].op = "refund" =>
         sums'[input[c].source].credit <= Debit[input[c].source]]_vars

\* While the operator leaves the writer as it is, copies of one request agree,
\* whether they race, follow each other or repeat one whose commit was reported
\* as a failure: they book one entry between them, and none of them is refused
\* when the legacy writer has booked it, although the first copy has used up
\* what the refund check compares.  (A switch of the writer changes the key, and
\* a repeat after it books again; the runtime writer looks for a repeat only
\* after the refund check.)
RepeatsAgree ==
  toggles = 0 =>
    /\ \A e, f \in entries : e.key[2] = f.key[2] => e = f
    /\ \A c \in Calls : answer[c] = "refused" => ~AlreadyWritten(input[c])

\* What the caller is told is what the ledger holds: "created" comes with an
\* entry under the request's key and an audit row, "replayed" with an earlier
\* entry, a refusal with no entry of its own, and no audit row is orphaned.  An
\* entry may lack its audit row, and a failure says nothing of the ledger.
AnswerMatchesLedger ==
  /\ \A c \in Calls :
       /\ answer[c] = "created" =>
            /\ \E e \in entries : e.key[2] = input[c]
            /\ [input |-> input[c], by |-> c] \in audits
       /\ answer[c] = "replayed" =>
            \E e \in entries : e.key = ledger_adjustment_execute_dedupe_key(input[c])
       /\ answer[c] = "refused" => \A e \in entries : e.by # c
  /\ \A a \in audits : \E e \in entries : e.key[2] = a.input

\* Every call is answered, although the handler locks entry then wallet and
\* the runtime writer wallet then entry.
CallsEnd == \A c \in Calls : <>(pc[c] = "done")

\* The refunds of a debit never exceed it (writer_contract.rs: the remaining
\* amount is recomputed while source and refunds are locked).
RefundsWithinDebit == \A s \in Sources : sums[s].refunded <= Debit[s]

=============================================================================
