------------------------- MODULE CompensationProofs -------------------------
(***************************************************************************)
(* Safety of Compensation for every set of workers and any number of       *)
(* faults.                                                                 *)
(*                                                                         *)
(* CompensatedOnce and InverseLedgerIsTrue rest on OneSender: a worker     *)
(* that may still send is alone and nothing was sent before.  RecordsAgree *)
(* rests on InHand: whoever works on a request works on a claimed one, and *)
(* the step is RUNNING only while the request is claimed.                  *)
(***************************************************************************)
EXTENDS Compensation, TLAPS

\* The flags of the records are Boolean.
FlagsOK ==
    /\ open \in BOOLEAN /\ fresh \in BOOLEAN /\ leased \in BOOLEAN
    /\ live \in BOOLEAN /\ valid \in BOOLEAN /\ applied \in BOOLEAN

\* Records, runs and local variables have their types.
TypeOK ==
    /\ req \in {"none", "AUTHORIZED", "CLAIMED", "COMPLETED", "COMPLETION_UNKNOWN",
                "CONFIRMED_NOT_APPLIED", "ESCALATED"}
    /\ message \in {"none", "open", "published"}
    /\ step \in StepStates \cup {"none"}
    /\ compRun \in RunStates \cup {"none"}
    /\ orig \in RunStates
    /\ effect \in Unknown \cup {"none", "ADMITTED", "COMPLETED", "FAILED",
                                "CONFIRMED_NOT_APPLIED"}
    /\ FlagsOK
    /\ active \subseteq Workers
    /\ work \in [Workers -> [at : Phases, current : BOOLEAN]]
    /\ wire \in {"none", "sent", "answered", "lost"}
    /\ sends \in Nat
    /\ sibling \in {"none", "open", "claimed", "parked", "ended"}
    /\ faults \in Nat

\* What a worker may still send, and what was sent.
OneSender ==
    /\ sends = 0 => wire = "none" /\ ~applied
    /\ effect = "none" =>
          sends = 0 /\ \A w \in Workers : work[w].at \in {"idle", "claimed", "refused"}
    /\ \A w \in Workers :
          /\ work[w].at = "admitted" => sends = 0
          /\ work[w].at = "sent" => sends = 1
          /\ work[w].at = "proved" => sends = 1 /\ wire = "answered"
    /\ \A v, w \in Workers : work[v].at = "admitted" /\ work[w].at = "admitted" => v = w

\* Whose request is in hand, and what it looks like then.
InHand ==
    /\ req \in {"none", "AUTHORIZED"} => effect = "none" /\ \A w \in Workers : work[w] = Idle
    /\ req = "CLAIMED" => compRun = "COMPENSATING"
    /\ step = "RUNNING" => req = "CLAIMED"

\* The inductive invariant.
CompensationInv ==
    TypeOK /\ OneSender /\ InHand /\ CompensatedOnce /\ InverseLedgerIsTrue /\ RecordsAgree

USE CompensationBoundAssumption
USE DEF Idle, Phases, Unknown, StepStates, RunStates, StepTerminal, ledger, remote

-----------------------------------------------------------------------------
\* Before anything is requested the invariant holds.
LEMMA InitInv == Init => CompensationInv
  <1> SUFFICES ASSUME Init PROVE CompensationInv
    OBVIOUS
  <1> USE DEF Init
  <1>1. TypeOK
    BY DEF TypeOK, FlagsOK
  <1>2. OneSender /\ InHand
    BY DEF OneSender, InHand
  <1>3. CompensatedOnce /\ InverseLedgerIsTrue /\ RecordsAgree
    BY DEF CompensatedOnce, InverseLedgerIsTrue, RecordsAgree
  <1> QED
    BY <1>1, <1>2, <1>3 DEF CompensationInv

\* The invariant speaks of these variables only; a step that changes none of
\* the others preserves it.
LEMMA StutterInv ==
    ASSUME CompensationInv, UNCHANGED vars
    PROVE  CompensationInv'
  BY DEF CompensationInv, TypeOK, FlagsOK, OneSender, InHand, CompensatedOnce, InverseLedgerIsTrue,
         RecordsAgree, vars

\* What a worker's await does to its own entry keeps the type of all of them.
LEMMA HandsTyped ==
    ASSUME TypeOK, NEW w \in Workers,
           \/ \E phase \in Phases : work' = [work EXCEPT ![w].at = phase]
           \/ work' = [work EXCEPT ![w] = Idle]
           \/ work' = work
    PROVE  work' \in [Workers -> [at : Phases, current : BOOLEAN]]
  <1>1. ASSUME NEW phase \in Phases, work' = [work EXCEPT ![w].at = phase]
        PROVE  work' \in [Workers -> [at : Phases, current : BOOLEAN]]
    BY <1>1 DEF TypeOK
  <1>2. Idle \in [at : Phases, current : BOOLEAN]
    OBVIOUS
  <1> HIDE DEF Idle, Phases
  <1> QED
    BY <1>1, <1>2 DEF TypeOK

\* A claim writes the entries of all workers.
LEMMA ClaimTyped ==
    ASSUME TypeOK, NEW w \in Workers,
           work' = [v \in Workers |-> IF v = w THEN [at |-> "claimed", current |-> TRUE]
                                       ELSE [work[v] EXCEPT !.current = FALSE]]
    PROVE  work' \in [Workers -> [at : Phases, current : BOOLEAN]]
  <1>1. ASSUME NEW r \in [at : Phases, current : BOOLEAN]
        PROVE  [r EXCEPT !.current = FALSE] \in [at : Phases, current : BOOLEAN]
    OBVIOUS
  <1>2. [at |-> "claimed", current |-> TRUE] \in [at : Phases, current : BOOLEAN]
    OBVIOUS
  <1>3. \A v \in Workers : work[v] \in [at : Phases, current : BOOLEAN]
    BY Zenon DEF TypeOK
  <1> DEFINE next(v) == IF v = w THEN [at |-> "claimed", current |-> TRUE]
                        ELSE [work[v] EXCEPT !.current = FALSE]
  <1>4. \A v \in Workers : next(v) \in [at : Phases, current : BOOLEAN]
    BY <1>1, <1>2, <1>3, Zenon
  <1>5. work' = [v \in Workers |-> next(v)]
    OBVIOUS
  <1> HIDE DEF next
  <1> QED
    BY <1>4, <1>5, Zenon

\* The request, the remote system, the kernel and the sibling.
LEMMA SurroundingsInv ==
    ASSUME CompensationInv,
           RequestCompensation \/ AuthorizationLapses \/ RemoteActs \/ KernelEndsRun \/ SiblingClaims \/ SiblingSettles
    PROVE  CompensationInv'
  <1> USE DEF CompensationInv
  <1>1. CASE RequestCompensation
    <2> USE <1>1 DEF RequestCompensation
    <2>0. FlagsOK'
      BY Zenon DEF TypeOK, FlagsOK
    <2>1. TypeOK'
      BY <2>0 DEF TypeOK
    <2>2. OneSender' /\ CompensatedOnce'
      BY DEF TypeOK, OneSender, CompensatedOnce
    <2>3. InHand'
      BY DEF TypeOK, InHand, RecordsAgree
    <2>4. InverseLedgerIsTrue'
      BY DEF TypeOK, OneSender, InverseLedgerIsTrue
    <2>5. RecordsAgree'
      BY DEF TypeOK, InHand, RecordsAgree
    <2> QED
      BY <2>1, <2>2, <2>3, <2>4, <2>5
  <1>2. CASE AuthorizationLapses
    <2> USE <1>2 DEF AuthorizationLapses
    <2>0. FlagsOK'
      BY Zenon DEF TypeOK, FlagsOK
    <2>1. TypeOK'
      BY <2>0 DEF TypeOK
    <2>2. OneSender' /\ CompensatedOnce'
      BY DEF TypeOK, OneSender, CompensatedOnce
    <2>3. InHand'
      BY DEF TypeOK, InHand, RecordsAgree
    <2>4. InverseLedgerIsTrue'
      BY DEF TypeOK, OneSender, InverseLedgerIsTrue
    <2>5. RecordsAgree'
      BY DEF TypeOK, InHand, RecordsAgree
    <2> QED
      BY <2>1, <2>2, <2>3, <2>4, <2>5
  <1>3. CASE RemoteActs
    <2> USE <1>3 DEF RemoteActs
    <2>0. FlagsOK'
      BY Zenon DEF TypeOK, FlagsOK
    <2>1. TypeOK'
      BY <2>0 DEF TypeOK
    <2>2. OneSender' /\ CompensatedOnce'
      BY DEF TypeOK, OneSender, CompensatedOnce
    <2>3. InHand'
      BY DEF TypeOK, InHand, RecordsAgree
    <2>4. InverseLedgerIsTrue'
      <3>1. applied => applied'
        BY Zenon
      <3>2. effect # "FAILED" /\ (effect = "none" => FALSE)
        BY DEF OneSender, InverseLedgerIsTrue
      <3>3. effect = "COMPLETED" => applied'
        BY <3>1 DEF InverseLedgerIsTrue
      <3>4. effect' = effect
        OBVIOUS
      <3> QED
        BY <3>2, <3>3, <3>4, Zenon DEF InverseLedgerIsTrue
    <2>5. RecordsAgree'
      BY DEF TypeOK, InHand, RecordsAgree
    <2> QED
      BY <2>1, <2>2, <2>3, <2>4, <2>5
  <1>4. CASE KernelEndsRun
    <2> USE <1>4 DEF KernelEndsRun
    <2>0. FlagsOK'
      BY Zenon DEF TypeOK, FlagsOK
    <2>1. TypeOK'
      BY <2>0 DEF TypeOK
    <2>2. OneSender' /\ CompensatedOnce'
      BY DEF TypeOK, OneSender, CompensatedOnce
    <2>3. InHand'
      BY DEF TypeOK, InHand, RecordsAgree
    <2>4. InverseLedgerIsTrue'
      BY DEF TypeOK, OneSender, InverseLedgerIsTrue
    <2>5. RecordsAgree'
      BY DEF TypeOK, InHand, RecordsAgree
    <2> QED
      BY <2>1, <2>2, <2>3, <2>4, <2>5
  <1>5. CASE SiblingClaims
    <2> USE <1>5 DEF SiblingClaims, Mispairs
    <2>0. FlagsOK'
      BY Zenon DEF TypeOK, FlagsOK
    <2>1. TypeOK'
      BY <2>0 DEF TypeOK
    <2>2. OneSender' /\ CompensatedOnce'
      BY DEF TypeOK, OneSender, CompensatedOnce
    <2>3. InHand'
      BY DEF TypeOK, InHand, RecordsAgree
    <2>4. InverseLedgerIsTrue'
      BY DEF TypeOK, OneSender, InverseLedgerIsTrue
    <2>5. RecordsAgree'
      BY DEF TypeOK, InHand, RecordsAgree
    <2> QED
      BY <2>1, <2>2, <2>3, <2>4, <2>5
  <1>6. CASE SiblingSettles
    <2> USE <1>6 DEF SiblingSettles
    <2>0. FlagsOK'
      BY Zenon DEF TypeOK, FlagsOK
    <2>1. TypeOK'
      BY <2>0 DEF TypeOK
    <2>2. OneSender' /\ CompensatedOnce'
      BY DEF TypeOK, OneSender, CompensatedOnce
    <2>3. InHand'
      BY DEF TypeOK, InHand, RecordsAgree
    <2>4. InverseLedgerIsTrue'
      BY DEF TypeOK, OneSender, InverseLedgerIsTrue
    <2>5. RecordsAgree'
      BY DEF TypeOK, InHand, RecordsAgree
    <2> QED
      BY <2>1, <2>2, <2>3, <2>4, <2>5
  <1> QED
    BY <1>1, <1>2, <1>3, <1>4, <1>5, <1>6

\* Expiry, reclaim and pause.
LEMMA LeaseInv ==
    ASSUME CompensationInv,
           Expire \/ Reclaim \/ PauseTenant
    PROVE  CompensationInv'
  <1> USE DEF CompensationInv
  <1>1. CASE Expire
    <2> USE <1>1 DEF Expire
    <2>0. FlagsOK'
      BY Zenon DEF TypeOK, FlagsOK
    <2>1. TypeOK'
      BY <2>0 DEF TypeOK
    <2>2. OneSender' /\ CompensatedOnce'
      BY DEF TypeOK, OneSender, CompensatedOnce
    <2>3. InHand'
      BY DEF TypeOK, InHand, RecordsAgree
    <2>4. InverseLedgerIsTrue'
      BY DEF TypeOK, OneSender, InverseLedgerIsTrue
    <2>5. RecordsAgree'
      BY DEF TypeOK, InHand, RecordsAgree
    <2> QED
      BY <2>1, <2>2, <2>3, <2>4, <2>5
  <1>2. CASE Reclaim
    <2> USE <1>2 DEF Reclaim
    <2>0. FlagsOK'
      BY Zenon DEF TypeOK, FlagsOK
    <2>1. TypeOK'
      BY <2>0 DEF TypeOK
    <2>2. OneSender' /\ CompensatedOnce'
      BY DEF TypeOK, OneSender, CompensatedOnce
    <2>3. InHand'
      BY DEF TypeOK, InHand, RecordsAgree
    <2>4. InverseLedgerIsTrue'
      BY DEF TypeOK, OneSender, InverseLedgerIsTrue
    <2>5. RecordsAgree'
      BY DEF TypeOK, InHand, RecordsAgree
    <2> QED
      BY <2>1, <2>2, <2>3, <2>4, <2>5
  <1>3. CASE PauseTenant
    <2> USE <1>3 DEF PauseTenant
    <2>0. FlagsOK'
      BY Zenon DEF TypeOK, FlagsOK
    <2>1. TypeOK'
      BY <2>0 DEF TypeOK
    <2>2. OneSender' /\ CompensatedOnce'
      BY DEF TypeOK, OneSender, CompensatedOnce
    <2>3. InHand'
      BY DEF TypeOK, InHand, RecordsAgree
    <2>4. InverseLedgerIsTrue'
      BY DEF TypeOK, OneSender, InverseLedgerIsTrue
    <2>5. RecordsAgree'
      BY DEF TypeOK, InHand, RecordsAgree
    <2> QED
      BY <2>1, <2>2, <2>3, <2>4, <2>5
  <1> QED
    BY <1>1, <1>2, <1>3

\* The reconciler.
LEMMA ReconcileInv ==
    ASSUME CompensationInv,
           ReconcileComplete \/ ReconcileNotApplied \/ ReconcileEscalate \/ ReconcileExhausted
    PROVE  CompensationInv'
  <1> USE DEF CompensationInv
  <1>1. CASE ReconcileComplete
    <2> USE <1>1 DEF ReconcileComplete, Queried
    <2>0. FlagsOK'
      BY Zenon DEF TypeOK, FlagsOK
    <2>1. TypeOK'
      BY <2>0 DEF TypeOK
    <2>2. OneSender' /\ CompensatedOnce'
      BY DEF TypeOK, OneSender, CompensatedOnce
    <2>3. InHand'
      BY DEF TypeOK, InHand, RecordsAgree
    <2>4. InverseLedgerIsTrue'
      BY DEF TypeOK, OneSender, InverseLedgerIsTrue
    <2>5. RecordsAgree'
      BY DEF TypeOK, InHand, RecordsAgree
    <2> QED
      BY <2>1, <2>2, <2>3, <2>4, <2>5
  <1>2. CASE ReconcileNotApplied
    <2> USE <1>2 DEF ReconcileNotApplied, Queried
    <2>0. FlagsOK'
      BY Zenon DEF TypeOK, FlagsOK
    <2>1. TypeOK'
      BY <2>0 DEF TypeOK
    <2>2. OneSender' /\ CompensatedOnce'
      BY DEF TypeOK, OneSender, CompensatedOnce
    <2>3. InHand'
      BY DEF TypeOK, InHand, RecordsAgree
    <2>4. InverseLedgerIsTrue'
      BY DEF TypeOK, OneSender, InverseLedgerIsTrue
    <2>5. RecordsAgree'
      BY DEF TypeOK, InHand, RecordsAgree
    <2> QED
      BY <2>1, <2>2, <2>3, <2>4, <2>5
  <1>3. CASE ReconcileEscalate
    <2> USE <1>3 DEF ReconcileEscalate, Queried
    <2>0. FlagsOK'
      BY Zenon DEF TypeOK, FlagsOK
    <2>1. TypeOK'
      BY <2>0 DEF TypeOK
    <2>2. OneSender' /\ CompensatedOnce'
      BY DEF TypeOK, OneSender, CompensatedOnce
    <2>3. InHand'
      BY DEF TypeOK, InHand, RecordsAgree
    <2>4. InverseLedgerIsTrue'
      BY DEF TypeOK, OneSender, InverseLedgerIsTrue
    <2>5. RecordsAgree'
      BY DEF TypeOK, InHand, RecordsAgree
    <2> QED
      BY <2>1, <2>2, <2>3, <2>4, <2>5
  <1>4. CASE ReconcileExhausted
    <2> USE <1>4 DEF ReconcileExhausted, Queried
    <2>0. FlagsOK'
      BY Zenon DEF TypeOK, FlagsOK
    <2>1. TypeOK'
      BY <2>0 DEF TypeOK
    <2>2. OneSender' /\ CompensatedOnce'
      BY DEF TypeOK, OneSender, CompensatedOnce
    <2>3. InHand'
      BY DEF TypeOK, InHand, RecordsAgree
    <2>4. InverseLedgerIsTrue'
      BY DEF TypeOK, OneSender, InverseLedgerIsTrue
    <2>5. RecordsAgree'
      BY DEF TypeOK, InHand, RecordsAgree
    <2> QED
      BY <2>1, <2>2, <2>3, <2>4, <2>5
  <1> QED
    BY <1>1, <1>2, <1>3, <1>4

\* What else becomes of the sibling touches nothing of this request.
LEMMA SiblingInv ==
    ASSUME CompensationInv, SiblingRequested \/ SiblingParks
    PROVE  CompensationInv'
  <1>1. sibling' \in {"open", "parked"} /\ UNCHANGED <<ledger, remote, live, valid, active, work, faults>>
    BY DEF SiblingRequested, SiblingParks
  <1>2. TypeOK'
    BY <1>1 DEF CompensationInv, TypeOK, FlagsOK
  <1> QED
    BY <1>1, <1>2 DEF CompensationInv, OneSender, InHand, CompensatedOnce, InverseLedgerIsTrue,
                      RecordsAgree

\* Workers come and go.
LEMMA RegistrationInv ==
    ASSUME CompensationInv, NEW w \in Workers,
           Register(w) \/ Die(w) \/ Drained(w) \/ ClaimRaises(w)
    PROVE  CompensationInv'
  <1> USE DEF CompensationInv
  <1>1. CASE Register(w)
    <2> USE <1>1 DEF Register, Throw
    <2>0. FlagsOK'
      BY Zenon DEF TypeOK, FlagsOK
    <2>1. TypeOK'
      BY <2>0 DEF TypeOK
    <2>2. OneSender' /\ CompensatedOnce'
      BY DEF TypeOK, OneSender, CompensatedOnce
    <2>3. InHand'
      BY DEF TypeOK, InHand, RecordsAgree
    <2>4. InverseLedgerIsTrue'
      BY DEF TypeOK, OneSender, InverseLedgerIsTrue
    <2>5. RecordsAgree'
      BY DEF TypeOK, InHand, RecordsAgree
    <2> QED
      BY <2>1, <2>2, <2>3, <2>4, <2>5
  <1>2. CASE Die(w)
    <2> USE <1>2 DEF Die, Throw
    <2>0. FlagsOK'
      BY Zenon DEF TypeOK, FlagsOK
    <2>1. TypeOK'
      BY <2>0 DEF TypeOK
    <2>2. OneSender' /\ CompensatedOnce'
      BY DEF TypeOK, OneSender, CompensatedOnce
    <2>3. InHand'
      BY DEF TypeOK, InHand, RecordsAgree
    <2>4. InverseLedgerIsTrue'
      BY DEF TypeOK, OneSender, InverseLedgerIsTrue
    <2>5. RecordsAgree'
      BY DEF TypeOK, InHand, RecordsAgree
    <2> QED
      BY <2>1, <2>2, <2>3, <2>4, <2>5
  <1>3. CASE Drained(w)
    <2> USE <1>3 DEF Drained, Throw
    <2>0. FlagsOK'
      BY Zenon DEF TypeOK, FlagsOK
    <2>1. TypeOK'
      BY <2>0 DEF TypeOK
    <2>2. OneSender' /\ CompensatedOnce'
      BY DEF TypeOK, OneSender, CompensatedOnce
    <2>3. InHand'
      BY DEF TypeOK, InHand, RecordsAgree
    <2>4. InverseLedgerIsTrue'
      BY DEF TypeOK, OneSender, InverseLedgerIsTrue
    <2>5. RecordsAgree'
      BY DEF TypeOK, InHand, RecordsAgree
    <2> QED
      BY <2>1, <2>2, <2>3, <2>4, <2>5
  <1>4. CASE ClaimRaises(w)
    <2> USE <1>4 DEF ClaimRaises, Throw
    <2>0. FlagsOK'
      BY Zenon DEF TypeOK, FlagsOK
    <2>1. TypeOK'
      BY <2>0 DEF TypeOK
    <2>2. OneSender' /\ CompensatedOnce'
      BY DEF TypeOK, OneSender, CompensatedOnce
    <2>3. InHand'
      BY DEF TypeOK, InHand, RecordsAgree
    <2>4. InverseLedgerIsTrue'
      BY DEF TypeOK, OneSender, InverseLedgerIsTrue
    <2>5. RecordsAgree'
      BY DEF TypeOK, InHand, RecordsAgree
    <2> QED
      BY <2>1, <2>2, <2>3, <2>4, <2>5
  <1> QED
    BY <1>1, <1>2, <1>3, <1>4

\* A claim.
LEMMA ClaimInv ==
    ASSUME CompensationInv, NEW w \in Workers,
           Claim(w)
    PROVE  CompensationInv'
  <1> USE DEF CompensationInv
  <1>1. CASE Claim(w)
    <2> USE <1>1 DEF Claim, Claimable
    <2>0. FlagsOK'
      BY Zenon DEF TypeOK, FlagsOK
    <2>1. TypeOK'
      <3>1. work' \in [Workers -> [at : Phases, current : BOOLEAN]]
        BY ClaimTyped
      <3>2. active' \subseteq Workers
        BY DEF TypeOK
      <3> QED
        BY <2>0, <3>1, <3>2 DEF TypeOK
    <2>2. OneSender' /\ CompensatedOnce'
      BY DEF TypeOK, OneSender, CompensatedOnce
    <2>3. InHand'
      BY DEF TypeOK, InHand, RecordsAgree
    <2>4. InverseLedgerIsTrue'
      BY DEF TypeOK, OneSender, InverseLedgerIsTrue
    <2>5. RecordsAgree'
      BY DEF TypeOK, InHand, RecordsAgree
    <2> QED
      BY <2>1, <2>2, <2>3, <2>4, <2>5
  <1> QED
    BY <1>1

\* Admission and the call.
LEMMA AdmissionInv ==
    ASSUME CompensationInv, NEW w \in Workers,
           Consume(w) \/ SendInverse(w) \/ TimedOut(w)
    PROVE  CompensationInv'
  <1> USE DEF CompensationInv
  <1>1. CASE Consume(w)
    <2> USE <1>1 DEF Consume, AdmitOrReplay, HoldsLease, Go, Throw
    <2>0. FlagsOK'
      BY Zenon DEF TypeOK, FlagsOK
    <2>1. TypeOK'
      <3>0. \/ \E phase \in Phases : work' = [work EXCEPT ![w].at = phase]
            \/ work' = [work EXCEPT ![w] = Idle]
        OBVIOUS
      <3>1. work' \in [Workers -> [at : Phases, current : BOOLEAN]]
        BY <3>0, HandsTyped
      <3>2. active' \subseteq Workers
        BY DEF TypeOK
      <3> QED
        BY <2>0, <3>1, <3>2 DEF TypeOK
    <2>2. OneSender' /\ CompensatedOnce'
      BY DEF TypeOK, OneSender, CompensatedOnce
    <2>3. InHand'
      BY DEF TypeOK, InHand, RecordsAgree
    <2>4. InverseLedgerIsTrue'
      BY DEF TypeOK, OneSender, InverseLedgerIsTrue
    <2>5. RecordsAgree'
      BY DEF TypeOK, InHand, RecordsAgree
    <2> QED
      BY <2>1, <2>2, <2>3, <2>4, <2>5
  <1>2. CASE SendInverse(w)
    <2> USE <1>2 DEF SendInverse, AdmitOrReplay, HoldsLease, Go, Throw
    <2>0. FlagsOK'
      BY Zenon DEF TypeOK, FlagsOK
    <2>1. TypeOK'
      BY <2>0 DEF TypeOK
    <2>2. OneSender' /\ CompensatedOnce'
      BY DEF TypeOK, OneSender, CompensatedOnce
    <2>3. InHand'
      BY DEF TypeOK, InHand, RecordsAgree
    <2>4. InverseLedgerIsTrue'
      BY DEF TypeOK, OneSender, InverseLedgerIsTrue
    <2>5. RecordsAgree'
      BY DEF TypeOK, InHand, RecordsAgree
    <2> QED
      BY <2>1, <2>2, <2>3, <2>4, <2>5
  <1>3. CASE TimedOut(w)
    <2> USE <1>3 DEF TimedOut, AdmitOrReplay, HoldsLease, Go, Throw
    <2>0. FlagsOK'
      BY Zenon DEF TypeOK, FlagsOK
    <2>1. TypeOK'
      BY <2>0 DEF TypeOK
    <2>2. OneSender' /\ CompensatedOnce'
      BY DEF TypeOK, OneSender, CompensatedOnce
    <2>3. InHand'
      BY DEF TypeOK, InHand, RecordsAgree
    <2>4. InverseLedgerIsTrue'
      BY DEF TypeOK, OneSender, InverseLedgerIsTrue
    <2>5. RecordsAgree'
      BY DEF TypeOK, InHand, RecordsAgree
    <2> QED
      BY <2>1, <2>2, <2>3, <2>4, <2>5
  <1> QED
    BY <1>1, <1>2, <1>3

\* The answer is proved and recorded.
LEMMA AnswerInv ==
    ASSUME CompensationInv, NEW w \in Workers,
           ProveAnswer(w) \/ RecordAnswer(w) \/ ProveCompletion(w)
    PROVE  CompensationInv'
  <1> USE DEF CompensationInv
  <1>1. CASE ProveAnswer(w)
    <2> USE <1>1 DEF ProveAnswer, EvidenceContext, HoldsLease, Go, Throw
    <2>0. FlagsOK'
      BY Zenon DEF TypeOK, FlagsOK
    <2>1. TypeOK'
      <3>0. \/ \E phase \in Phases : work' = [work EXCEPT ![w].at = phase]
            \/ work' = [work EXCEPT ![w] = Idle]
        OBVIOUS
      <3>1. work' \in [Workers -> [at : Phases, current : BOOLEAN]]
        BY <3>0, HandsTyped
      <3>2. active' \subseteq Workers
        BY DEF TypeOK
      <3> QED
        BY <2>0, <3>1, <3>2 DEF TypeOK
    <2>2. OneSender' /\ CompensatedOnce'
      BY DEF TypeOK, OneSender, CompensatedOnce
    <2>3. InHand'
      BY DEF TypeOK, InHand, RecordsAgree
    <2>4. InverseLedgerIsTrue'
      BY DEF TypeOK, OneSender, InverseLedgerIsTrue
    <2>5. RecordsAgree'
      BY DEF TypeOK, InHand, RecordsAgree
    <2> QED
      BY <2>1, <2>2, <2>3, <2>4, <2>5
  <1>2. CASE RecordAnswer(w)
    <2> USE <1>2 DEF RecordAnswer, EvidenceContext, HoldsLease, Go, Throw
    <2>0. FlagsOK'
      BY Zenon DEF TypeOK, FlagsOK
    <2>1. TypeOK'
      <3>0. \/ \E phase \in Phases : work' = [work EXCEPT ![w].at = phase]
            \/ work' = [work EXCEPT ![w] = Idle]
        OBVIOUS
      <3>1. work' \in [Workers -> [at : Phases, current : BOOLEAN]]
        BY <3>0, HandsTyped
      <3>2. active' \subseteq Workers
        BY DEF TypeOK
      <3> QED
        BY <2>0, <3>1, <3>2 DEF TypeOK
    <2>2. OneSender' /\ CompensatedOnce'
      BY DEF TypeOK, OneSender, CompensatedOnce
    <2>3. InHand'
      BY DEF TypeOK, InHand, RecordsAgree
    <2>4. InverseLedgerIsTrue'
      BY DEF TypeOK, OneSender, InverseLedgerIsTrue
    <2>5. RecordsAgree'
      BY DEF TypeOK, InHand, RecordsAgree
    <2> QED
      BY <2>1, <2>2, <2>3, <2>4, <2>5
  <1>3. CASE ProveCompletion(w)
    <2> USE <1>3 DEF ProveCompletion, EvidenceContext, HoldsLease, Go, Throw
    <2>0. FlagsOK'
      BY Zenon DEF TypeOK, FlagsOK
    <2>1. TypeOK'
      <3>0. \/ \E phase \in Phases : work' = [work EXCEPT ![w].at = phase]
            \/ work' = [work EXCEPT ![w] = Idle]
        OBVIOUS
      <3>1. work' \in [Workers -> [at : Phases, current : BOOLEAN]]
        BY <3>0, HandsTyped
      <3>2. active' \subseteq Workers
        BY DEF TypeOK
      <3> QED
        BY <2>0, <3>1, <3>2 DEF TypeOK
    <2>2. OneSender' /\ CompensatedOnce'
      BY DEF TypeOK, OneSender, CompensatedOnce
    <2>3. InHand'
      BY DEF TypeOK, InHand, RecordsAgree
    <2>4. InverseLedgerIsTrue'
      BY DEF TypeOK, OneSender, InverseLedgerIsTrue
    <2>5. RecordsAgree'
      BY DEF TypeOK, InHand, RecordsAgree
    <2> QED
      BY <2>1, <2>2, <2>3, <2>4, <2>5
  <1> QED
    BY <1>1, <1>2, <1>3

\* Escalation, parking and finalization.
LEMMA SettlementInv ==
    ASSUME CompensationInv, NEW w \in Workers,
           Escalate(w) \/ ParkUnknown(w) \/ Finalize(w)
    PROVE  CompensationInv'
  <1> USE DEF CompensationInv
  <1>1. CASE Escalate(w)
    <2> USE <1>1 DEF Escalate, Owned, Settle, Throw
    <2>0. FlagsOK'
      BY Zenon DEF TypeOK, FlagsOK
    <2>1. TypeOK'
      <3>0. \/ \E phase \in Phases : work' = [work EXCEPT ![w].at = phase]
            \/ work' = [work EXCEPT ![w] = Idle]
        OBVIOUS
      <3>1. work' \in [Workers -> [at : Phases, current : BOOLEAN]]
        BY <3>0, HandsTyped
      <3>2. active' \subseteq Workers
        BY DEF TypeOK
      <3> QED
        BY <2>0, <3>1, <3>2 DEF TypeOK
    <2>2. OneSender' /\ CompensatedOnce'
      BY DEF TypeOK, OneSender, CompensatedOnce
    <2>3. InHand'
      BY DEF TypeOK, InHand, RecordsAgree
    <2>4. InverseLedgerIsTrue'
      BY DEF TypeOK, OneSender, InverseLedgerIsTrue
    <2>5. RecordsAgree'
      BY DEF TypeOK, InHand, RecordsAgree
    <2> QED
      BY <2>1, <2>2, <2>3, <2>4, <2>5
  <1>2. CASE ParkUnknown(w)
    <2> USE <1>2 DEF ParkUnknown, Owned, Settle, Throw
    <2>0. FlagsOK'
      BY Zenon DEF TypeOK, FlagsOK
    <2>1. TypeOK'
      <3>0. \/ \E phase \in Phases : work' = [work EXCEPT ![w].at = phase]
            \/ work' = [work EXCEPT ![w] = Idle]
        OBVIOUS
      <3>1. work' \in [Workers -> [at : Phases, current : BOOLEAN]]
        BY <3>0, HandsTyped
      <3>2. active' \subseteq Workers
        BY DEF TypeOK
      <3> QED
        BY <2>0, <3>1, <3>2 DEF TypeOK
    <2>2. OneSender' /\ CompensatedOnce'
      BY DEF TypeOK, OneSender, CompensatedOnce
    <2>3. InHand'
      BY DEF TypeOK, InHand, RecordsAgree
    <2>4. InverseLedgerIsTrue'
      BY DEF TypeOK, OneSender, InverseLedgerIsTrue
    <2>5. RecordsAgree'
      BY DEF TypeOK, InHand, RecordsAgree
    <2> QED
      BY <2>1, <2>2, <2>3, <2>4, <2>5
  <1>3. CASE Finalize(w)
    <2> USE <1>3 DEF Finalize, Owned, Settle, Throw
    <2>0. FlagsOK'
      BY Zenon DEF TypeOK, FlagsOK
    <2>1. TypeOK'
      <3>0. \/ \E phase \in Phases : work' = [work EXCEPT ![w].at = phase]
            \/ work' = [work EXCEPT ![w] = Idle]
        OBVIOUS
      <3>1. work' \in [Workers -> [at : Phases, current : BOOLEAN]]
        BY <3>0, HandsTyped
      <3>2. active' \subseteq Workers
        BY DEF TypeOK
      <3> QED
        BY <2>0, <3>1, <3>2 DEF TypeOK
    <2>2. OneSender' /\ CompensatedOnce'
      BY DEF TypeOK, OneSender, CompensatedOnce
    <2>3. InHand'
      BY DEF TypeOK, InHand, RecordsAgree
    <2>4. InverseLedgerIsTrue'
      BY DEF TypeOK, OneSender, InverseLedgerIsTrue
    <2>5. RecordsAgree'
      BY DEF TypeOK, InHand, RecordsAgree
    <2> QED
      BY <2>1, <2>2, <2>3, <2>4, <2>5
  <1> QED
    BY <1>1, <1>2, <1>3

\* Every step preserves the invariant.
LEMMA NextInv ==
    ASSUME CompensationInv, [Next]_vars
    PROVE  CompensationInv'
  <1>1. CASE UNCHANGED vars
    BY <1>1, StutterInv
  <1>2. CASE RequestCompensation \/ AuthorizationLapses \/ RemoteActs \/ KernelEndsRun
             \/ SiblingClaims \/ SiblingSettles
    BY <1>2, SurroundingsInv
  <1>3. CASE Expire \/ Reclaim \/ PauseTenant
    BY <1>3, LeaseInv
  <1>4. CASE ReconcileComplete \/ ReconcileNotApplied \/ ReconcileEscalate \/ ReconcileExhausted
    BY <1>4, ReconcileInv
  <1>5. ASSUME NEW w \in Workers,
               Claim(w) \/ ClaimRaises(w) \/ Work(w) \/ Register(w) \/ Die(w) \/ Drained(w)
        PROVE  CompensationInv'
    BY <1>5, ClaimInv, RegistrationInv, AdmissionInv, AnswerInv, SettlementInv DEF Work
  <1>6. CASE SiblingRequested \/ SiblingParks
    BY <1>6, SiblingInv
  <1> QED
    BY <1>1, <1>2, <1>3, <1>4, <1>5, <1>6 DEF Next

(* The inductive invariant holds in every reachable state, for any set of  *)
(* compensation workers and any number of deaths, drains, pauses and late  *)
(* workers.                                                                *)
THEOREM CompensationInvariant == Spec => []CompensationInv
  <1>1. Init => CompensationInv
    BY InitInv
  <1>2. CompensationInv /\ [Next]_vars => CompensationInv'
    BY NextInv
  <1> QED
    BY <1>1, <1>2, PTL DEF Spec

(* Type correctness of the compensation records.                           *)
THEOREM CompensationTypeCorrect == Spec => []TypeOK
  <1>1. CompensationInv => TypeOK
    BY DEF CompensationInv
  <1> QED
    BY <1>1, CompensationInvariant, PTL

(* The inverse call leaves at most once, however often the request is      *)
(* claimed.                                                                *)
THEOREM InverseIsSentOnce == Spec => []CompensatedOnce
  <1>1. CompensationInv => CompensatedOnce
    BY DEF CompensationInv
  <1> QED
    BY <1>1, CompensationInvariant, PTL

(* What the ledger says of the inverse effect is what happened.            *)
THEOREM InverseLedgerIsCorrect == Spec => []InverseLedgerIsTrue
  <1>1. CompensationInv => InverseLedgerIsTrue
    BY DEF CompensationInv
  <1> QED
    BY <1>1, CompensationInvariant, PTL

(* Request, message, step and both runs agree.                             *)
THEOREM CompensationRecordsAgree == Spec => []RecordsAgree
  <1>1. CompensationInv => RecordsAgree
    BY DEF CompensationInv
  <1> QED
    BY <1>1, CompensationInvariant, PTL
=============================================================================
