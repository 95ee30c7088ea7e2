---------------------- MODULE ProviderKeyHealthProofs -----------------------
(***************************************************************************)
(* Theorems about ProviderKeyHealth for any number of attempts, probes and *)
(* admin requests.                                                         *)
(***************************************************************************)
EXTENDS ProviderKeyHealth, TLAPS

\* A probe and an admin request that will write have something to write: the
\* status they have read or were given.
Remembers ==
  /\ \A p \in Probes : probe[p] # "idle" => seen[p] # "none"
  /\ \A o \in Operators : operator[o] \in {"patch", "recover", "rotate"} => target[o] # "none"

\* The initial state has its types, and nobody is about to write.
LEMMA KeyInit == Init => TypeOK /\ Remembers
<1> SUFFICES ASSUME Init PROVE TypeOK /\ Remembers
  OBVIOUS
<1>1. status \in KeyStatus /\ until \in {"unset", "future", "past"}
  BY DEF Init, KeyStatus, Routable
<1>2. Remembers
  BY DEF Init, Remembers
<1> QED BY <1>1, <1>2 DEF Init, TypeOK

\* Reading or learning the status comes before writing it.
LEMMA RemembersStep ==
  ASSUME TypeOK, Remembers, [Next]_vars
  PROVE  Remembers'
<1> USE DEF TypeOK, Remembers, probeVars, operatorVars
<1>1. ASSUME NEW p \in Probes, ListCandidate(p) \/ RunProbe(p) \/ PersistProbe(p) PROVE Remembers'
  BY <1>1 DEF ListCandidate, RunProbe, PersistProbe
<1>2. ASSUME NEW o \in Operators, ReadForPatch(o) \/ ReadForRecovery(o) \/ ReadForRotation(o)
      PROVE  Remembers'
  BY <1>2 DEF ReadForPatch, ReadForRecovery, ReadForRotation, KeyStatus, Routable, Withdrawn
<1>3. ASSUME NEW o \in Operators, WriteKey(o) \/ DeleteKey(o) PROVE Remembers'
  BY <1>3 DEF WriteKey, DeleteKey
<1>4. CASE UNCHANGED <<probeVars, operatorVars>>
  BY <1>4
<1> QED
  BY <1>1, <1>2, <1>3, <1>4
     DEF Next, Elapse, SelectKey, OpenKey, Answer, UpdateStatus, vars

\* Every step keeps every variable in its type.
LEMMA KeyTypeStep ==
  ASSUME TypeOK, Remembers, [Next]_vars
  PROVE  TypeOK'
<1> USE DEF TypeOK, rowVars, attemptVars, probeVars, operatorVars
<1>1. CASE Elapse
  BY <1>1 DEF Elapse
<1>2. ASSUME NEW a \in Attempts, SelectKey(a) \/ OpenKey(a) \/ Answer(a) PROVE TypeOK'
  BY <1>2 DEF SelectKey, OpenKey, Answer
<1>3. ASSUME NEW a \in Attempts, UpdateStatus(a) PROVE TypeOK'
  <2>1. StatusFor(error[a]) \in KeyStatus /\ UntilFor(error[a]) \in {"unset", "future"}
    BY DEF StatusFor, UntilFor, KeyStatus, Routable
  <2> QED BY <1>3, <2>1 DEF UpdateStatus
<1>4. ASSUME NEW p \in Probes, ListCandidate(p) \/ RunProbe(p) PROVE TypeOK'
  BY <1>4 DEF ListCandidate, RunProbe
<1>5. ASSUME NEW p \in Probes, PersistProbe(p) PROVE TypeOK'
  <2>1. ProbeStatus(p) \in KeyStatus
    BY <1>5 DEF PersistProbe, ProbeStatus, Remembers, KeyStatus, Routable
  <2> QED BY <1>5, <2>1 DEF PersistProbe
<1>6. ASSUME NEW o \in Operators, ReadForPatch(o) \/ ReadForRecovery(o) \/ ReadForRotation(o)
      PROVE  TypeOK'
  BY <1>6 DEF ReadForPatch, ReadForRecovery, ReadForRotation, KeyStatus, Routable, Withdrawn
<1>7. ASSUME NEW o \in Operators, WriteKey(o) \/ DeleteKey(o) PROVE TypeOK'
  <2>1. status' \in KeyStatus
    BY <1>7 DEF WriteKey, DeleteKey, Remembers, KeyStatus, Withdrawn
  <2> QED BY <1>7, <2>1 DEF WriteKey, DeleteKey
<1>8. CASE UNCHANGED vars
  BY <1>8 DEF vars
<1> QED BY <1>1, <1>2, <1>3, <1>4, <1>5, <1>6, <1>7, <1>8 DEF Next

\* The key's row always holds a status the migrations allow.
THEOREM KeyTypeCorrect == Spec => []TypeOK
<1>1. TypeOK /\ Remembers /\ [Next]_vars => (TypeOK /\ Remembers)'
  BY KeyTypeStep, RemembersStep
<1> QED BY KeyInit, <1>1, PTL DEF Spec

\* However many attempts, probes and admin requests race: a deleted key stays
\* deleted, and a disabled one leaves its status only by an admin request.
THEOREM WithdrawnKeysStay == Spec => WithdrawnStays
<1> DEFINE Kept == /\ status = "deleted" => status' = "deleted"
                   /\ (status = "manual_disabled" /\ status' # status) =>
                        \E o \in Operators : operator[o] # "done" /\ operator'[o] = "done"
<1>1. TypeOK /\ [Next]_vars => [Kept]_vars
  <2> SUFFICES ASSUME TypeOK, Next PROVE Kept
    OBVIOUS
  <2>1. ASSUME NEW a \in Attempts, UpdateStatus(a) PROVE Kept
    BY <2>1 DEF UpdateStatus, Withdrawn, rowVars
  <2>2. ASSUME NEW p \in Probes, PersistProbe(p) PROVE Kept
    BY <2>2 DEF PersistProbe, Withdrawn
  <2>3. ASSUME NEW o \in Operators, WriteKey(o) \/ DeleteKey(o) PROVE Kept
    BY <2>3 DEF WriteKey, DeleteKey, TypeOK
  <2>4. CASE UNCHANGED status
    BY <2>4
  <2> QED
    BY <2>1, <2>2, <2>3, <2>4
       DEF Next, Elapse, SelectKey, OpenKey, Answer, ListCandidate, RunProbe, ReadForPatch,
           ReadForRecovery, ReadForRotation, rowVars
<1> QED BY KeyTypeCorrect, <1>1, PTL DEF Spec, WithdrawnStays
=============================================================================
