-------------------------- MODULE Comparison_proofs --------------------------
(* What the Cost page's comparison keeps, for any number of runs and whatever *)
(* the reader, the manifest and the requests do.                              *)
EXTENDS Comparison, TLAPS

Typed ==
    /\ run \in Runs /\ listed \subseteq Runs /\ beside \subseteq Runs
    /\ loaded \subseteq Runs /\ unbilled \subseteq Runs /\ loading \subseteq Runs
    /\ fetching \in [Runs -> Nat]

Inv == Typed /\ TickedIsOnItsWay

(* What want() leaves behind: whatever was in flight still is, one more of all *)
(* that is ticked and has not come, and nothing else is said to be loading.    *)
LEMMA WantAsks ==
    ASSUME NEW inFlight \in [Runs -> Nat], NEW said \in SUBSET Runs,
           Want(inFlight, said), beside' \subseteq Runs
    PROVE  /\ fetching' \in [Runs -> Nat] /\ loading' \subseteq Runs
           /\ \A r \in Runs : fetching'[r] >= inFlight[r]
           /\ \A r \in beside' \cap listed' : r \in loaded' \/ fetching'[r] > 0
           /\ \A r \in loading' : r \in said \/ fetching'[r] > 0
  <1>1. Wanted' \subseteq Runs
    BY DEF Wanted
  <1>2. fetching' = [r \in Runs |-> IF r \in Wanted' THEN inFlight[r] + 1 ELSE inFlight[r]]
    BY DEF Want
  <1>3. fetching' \in [Runs -> Nat]
    BY <1>2
  <1>4. \A r \in Runs : /\ fetching'[r] >= inFlight[r]
                        /\ r \in Wanted' => fetching'[r] > 0
    BY <1>2
  <1>5. loading' = said \cup Wanted'
    BY DEF Want
  <1> QED BY <1>1, <1>3, <1>4, <1>5 DEF Wanted

(* A fetch less of r, and no mention of it, is still the truth of the others.  *)
LEMMA BackIsTrue ==
    ASSUME Inv, NEW r \in Runs, fetching[r] > 0
    PROVE  /\ Back(r) \in [Runs -> Nat] /\ Silent(r) \in SUBSET Runs
           /\ \A o \in Runs \ {r} : Back(r)[o] = fetching[o]
           /\ \A o \in Silent(r) : Back(r)[o] > 0
  BY DEF Inv, Typed, TickedIsOnItsWay, Back, Silent

LEMMA InvInit == ASSUME Init PROVE Inv
  BY DEF Init, Inv, Typed, TickedIsOnItsWay, Nothing

(* The steps after which the effect runs, whatever they changed. *)
LEMMA InvWant ==
    ASSUME Inv, NEW inFlight \in [Runs -> Nat], NEW said \in SUBSET Runs,
           Want(inFlight, said), \A o \in said : inFlight[o] > 0,
           run' \in Runs, listed' \subseteq Runs, beside' \subseteq Runs,
           loaded' \subseteq Runs, unbilled' \subseteq Runs
    PROVE  Inv'
  <1>1. /\ fetching' \in [Runs -> Nat] /\ loading' \subseteq Runs
        /\ \A r \in Runs : fetching'[r] >= inFlight[r]
        /\ \A r \in beside' \cap listed' : r \in loaded' \/ fetching'[r] > 0
        /\ \A r \in loading' : r \in said \/ fetching'[r] > 0
    BY WantAsks
  <1>2. \A r \in loading' : fetching'[r] > 0
    BY <1>1
  <1> QED BY <1>1, <1>2 DEF Inv, Typed, TickedIsOnItsWay

LEMMA InvNext == ASSUME Inv, [Next]_vars PROVE Inv'
  <1> USE DEF Inv, Typed
  <1>0. fetching \in [Runs -> Nat] /\ loading \in SUBSET Runs /\ \A o \in loading : fetching[o] > 0
    BY DEF TickedIsOnItsWay
  <1>1. ASSUME NEW r \in Runs, Tick(r) \/ Untick(r) PROVE Inv'
    <2>1. Want(fetching, loading) /\ beside' \subseteq Runs
      BY <1>1 DEF Tick, Untick, Boxes
    <2>2. UNCHANGED <<run, listed, loaded, unbilled>>
      BY <1>1 DEF Tick, Untick
    <2> QED BY <1>0, <2>1, <2>2, InvWant
  <1>2. ASSUME NEW r \in Runs, OpenRun(r) PROVE Inv'
    BY <1>2 DEF OpenRun, TickedIsOnItsWay
  <1>3. ASSUME NEW runs \in SUBSET Runs, Relisted(runs) PROVE Inv'
    BY <1>3, <1>0, InvWant DEF Relisted
  <1>4. CASE Leave
    BY <1>4 DEF Leave, TickedIsOnItsWay, Nothing
  <1>5. ASSUME NEW r \in Runs, Came(r) PROVE Inv'
    BY <1>5, BackIsTrue, InvWant DEF Came
  <1>6. ASSUME NEW r \in Runs, CameUnbilled(r) PROVE Inv'
    <2>1. /\ fetching' = Back(r) /\ loading' = Silent(r)
          /\ UNCHANGED <<run, listed, beside, loaded>> /\ unbilled' = unbilled \cup {r}
      BY <1>6 DEF CameUnbilled, Quiet
    <2>2. /\ Back(r) \in [Runs -> Nat] /\ Silent(r) \in SUBSET Runs
          /\ \A o \in Runs \ {r} : Back(r)[o] = fetching[o]
          /\ \A o \in Silent(r) : Back(r)[o] > 0
      BY <1>6, BackIsTrue DEF CameUnbilled
    <2>3. \A o \in beside' \cap listed' : o \in loaded' \cup unbilled' \/ fetching'[o] > 0
      BY <2>1, <2>2 DEF TickedIsOnItsWay
    <2> QED BY <2>1, <2>2, <2>3 DEF TickedIsOnItsWay
  <1>7. ASSUME NEW r \in Runs, Failed(r) PROVE Inv'
    <2>1. Want(Back(r), Silent(r)) /\ beside' \subseteq Runs
      BY <1>7 DEF Failed
    <2> QED BY <1>7, <2>1, BackIsTrue, InvWant DEF Failed
  <1>8. CASE UNCHANGED vars
    BY <1>8 DEF vars, TickedIsOnItsWay
  <1> QED BY <1>1, <1>2, <1>3, <1>4, <1>5, <1>6, <1>7, <1>8 DEF Next, Answers

(* Cost.tsx, want(): however ticks, answers, failures and new manifests overlap, *)
(* a box that is ticked has its run, waits for it, or was told that it has no    *)
(* bill, and nothing is said to be loading that is not.                          *)
THEOREM NothingIsForgotten == Spec => []TickedIsOnItsWay
  <1>1. Init => Inv
    BY InvInit
  <1>2. Inv /\ [Next]_vars => Inv'
    BY InvNext
  <1>3. Inv => TickedIsOnItsWay
    BY DEF Inv
  <1> QED BY <1>1, <1>2, <1>3, PTL DEF Spec
=============================================================================
