---------------------------- MODULE WalletLedger ----------------------------
(***************************************************************************)
(* The rows that the gateway's paid hot path writes in ledger_entries      *)
(* (apps/gateway/src/db.rs), and the SQL that writes and sums them.        *)
(*                                                                         *)
(* A request owns at most one reserve row, one settle row and one refund   *)
(* row: their idempotency keys are functions of the request, and           *)
(* (tenant_id, idempotency_key) is unique.  A row is modelled by what the  *)
(* balance query reads of it: its status for a reserve (its amount is the  *)
(* reserve amount), its amount for a settle and for a refund (both are     *)
(* inserted confirmed and never change status).                            *)
(***************************************************************************)
EXTENDS Integers, FiniteSets, Functions

CONSTANTS
  Requests,      \* request ids
  Projects,      \* projects of the tenant
  Wallets,       \* active wallets
  NoWallet,      \* stands for "no active wallet"
  ProjectOf,     \* the project of the virtual key a request came with
  WalletOf,      \* the wallet a project's requests select (its own, or the tenant's)
  Credit,        \* sum of the active credit grants of a wallet, minus its floor
  ReserveAmount  \* amount frozen per paid request

ASSUME LedgerAssumption ==
  /\ IsFiniteSet(Requests)
  /\ ProjectOf \in [Requests -> Projects]
  /\ NoWallet \notin Wallets
  /\ WalletOf \in [Projects -> Wallets \cup {NoWallet}]
  /\ Credit \in [Wallets -> Int]
  /\ ReserveAmount \in Nat \ {0}

VARIABLES
  reserve,  \* status of the request's reserve row, "none" when there is no row
  settle,   \* amount debited by the settle row, 0 when there is no row
  refund    \* amount returned by the refund row, 0 when there is no row

ledgerVars == <<reserve, settle, refund>>

ReserveStatus == {"none", "pending", "reversed"}

LedgerTypeOK ==
  /\ reserve \in [Requests -> ReserveStatus]
  /\ settle \in [Requests -> Nat]
  /\ refund \in [Requests -> Nat]

LedgerInit ==
  /\ reserve = [r \in Requests |-> "none"]
  /\ settle = [r \in Requests |-> 0]
  /\ refund = [r \in Requests |-> 0]

WalletFor(r) == WalletOf[ProjectOf[r]]

-----------------------------------------------------------------------------
(* Balance *)

\* Reserve rows carry the wallet's id, so a pending one is counted by every
\* project that selects the wallet.
Frozen(w) ==
  ReserveAmount * Cardinality({r \in Requests : reserve[r] = "pending" /\ WalletFor(r) = w})

\* Settle rows carry no wallet id, and a refund row copies its settle's: they
\* are counted through their project only (le.wallet_id is null and
\* le.project_id = $2).
NetSpend(p) ==
  SumFunctionOnSet([r \in Requests |-> settle[r] - refund[r]],
                   {r \in Requests : ProjectOf[r] = p})

\* The balance window of a project: credit_balance + ledger_balance - floor.
Available(p) == Credit[WalletOf[p]] - Frozen(WalletOf[p]) - NetSpend(p)

-----------------------------------------------------------------------------
(* Statements, each one transaction *)

\* Mutant: the insert relies on the balance that pre_authorize has read.
ReserveAppliesUnchecked(r) ==
  /\ WalletFor(r) # NoWallet
  /\ reserve[r] = "none"

\* insert_pending_paid_reserve_ledger_entry inserts the row: a wallet exists,
\* the balance covers the amount and the idempotency key is new.
ReserveApplies(r) ==
  /\ WalletFor(r) # NoWallet
  /\ reserve[r] = "none"
  /\ Available(ProjectOf[r]) >= ReserveAmount

\* The insert did nothing and the read-back finds the request's own live row.
ReserveIdempotent(r) ==
  /\ WalletFor(r) # NoWallet
  /\ reserve[r] = "pending"

InsertReserve(r) ==
  /\ ReserveApplies(r)
  /\ reserve' = [reserve EXCEPT ![r] = "pending"]
  /\ UNCHANGED <<settle, refund>>

\* Mutant: a settle leaves the reserve pending.
ReversedNever(r) == reserve[r]

Reversed(r) == IF reserve[r] = "pending" THEN "reversed" ELSE reserve[r]

\* Mutant: the release finds no row to update.
ReleaseReserveNothing(r) == UNCHANGED ledgerVars

\* Mutant: the release deletes the row.
ReleaseReserveDeleted(r) ==
  /\ reserve' = [reserve EXCEPT ![r] = "none"]
  /\ UNCHANGED <<settle, refund>>

\* release_pending_paid_reserve: only a pending row is touched.
ReleaseReserve(r) ==
  /\ reserve' = [reserve EXCEPT ![r] = Reversed(r)]
  /\ UNCHANGED <<settle, refund>>

\* insert_confirmed_settle_ledger_entry: the insert and the reversal of the
\* pending reserve commit together; a second insert does nothing.
InsertSettle(r, amount) ==
  /\ settle' = [settle EXCEPT ![r] = IF @ = 0 THEN amount ELSE @]
  /\ reserve' = [reserve EXCEPT ![r] = Reversed(r)]
  /\ UNCHANGED refund

\* insert_full_paid_refund_after_settle_ledger_entry: a full refund of what is
\* left of a confirmed settle; a replay finds nothing left and does nothing.
InsertRefund(r) ==
  /\ settle[r] > 0
  /\ refund' = [refund EXCEPT ![r] = settle[r]]
  /\ UNCHANGED <<reserve, settle>>
=============================================================================
