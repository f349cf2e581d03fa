----------------------------- MODULE Comparison -----------------------------
(* The comparison on the Cost page (viewer/components/console/Cost.tsx): the  *)
(* runs that are ticked beside the one that is open, and the fetches of their *)
(* traces and bills (lib/runs.ts, openUrl).  Ticking fetches nothing; an       *)
(* effect does, each time the ticks, the traces that have come or the list of  *)
(* runs are new, for every run that is ticked and has not come - the ones that *)
(* are on their way included.                                                  *)
EXTENDS Naturals, FiniteSets

CONSTANTS Runs,     \* the names a manifest can list
          Priced,   \* those it gives a cost for
          Steps     \* bound: what the reader, or a new manifest, does

ASSUME ComparisonAssumption ==
    Priced \subseteq Runs /\ Steps \in Nat

VARIABLES
    run,        \* the run that is open
    bill,       \* whether that run has a bill
    listed,     \* the runs of the manifest
    beside,     \* the runs that are ticked
    loaded,     \* those whose trace and bill have come
    fetching,   \* run -> how many fetches of it are in flight
    loading,    \* the runs named in "Loading ..."
    unbilled,   \* history: the runs that came without a bill
    steps

vars == <<run, bill, listed, beside, loaded, fetching, loading, unbilled, steps>>

Nothing == [r \in Runs |-> 0]

-----------------------------------------------------------------------------
(* Mutant of Wanted: what has come as well. *)
WantedAnyway == beside \cap listed

(* want(), called by the effect: a fetch for each run that is ticked and       *)
(* listed and has not come.                                                    *)
Wanted == (beside \cap listed) \ loaded

Want(inFlight, said) ==
    /\ fetching' = [r \in Runs |-> IF r \in Wanted' THEN inFlight[r] + 1 ELSE inFlight[r]]
    /\ loading' = said \cup Wanted'

(* A fetch of r is over, whichever of them it was: it takes every mention of r *)
(* out of "Loading ...".                                                       *)
Back(r) == [fetching EXCEPT ![r] = @ - 1]
Silent(r) == loading \ {r}

Quiet(r) == fetching' = Back(r) /\ loading' = Silent(r)

-----------------------------------------------------------------------------
Pressed == steps < Steps /\ steps' = steps + 1

Init ==
    /\ run \in Runs /\ bill \in BOOLEAN /\ listed \in SUBSET Runs
    /\ beside = {} /\ loaded = {} /\ unbilled = {}
    /\ fetching = Nothing /\ loading = {}
    /\ steps = 0

(* The boxes: every other run that the manifest has a cost for, on a page that *)
(* has a bill to show.                                                         *)
Boxes == IF bill THEN (listed \cap Priced) \ {run} ELSE {}

Tick(r) ==
    /\ Pressed
    /\ r \in Boxes \ beside
    /\ beside' = beside \cup {r}
    /\ UNCHANGED <<run, bill, listed, loaded, unbilled>>
    /\ Want(fetching, loading)

Untick(r) ==
    /\ Pressed
    /\ r \in Boxes \cap beside
    /\ beside' = beside \ {r}
    /\ UNCHANGED <<run, bill, listed, loaded, unbilled>>
    /\ Want(fetching, loading)

(* Another run is opened on this page, which stays as it is: "Open a run", or  *)
(* a step Back.                                                                *)
OpenRun(r) ==
    /\ Pressed
    /\ r \in listed \ {run}
    /\ run' = r /\ bill' \in BOOLEAN
    /\ UNCHANGED <<listed, beside, loaded, fetching, loading, unbilled>>

(* The manifest is read again, and may not answer.                             *)
Relisted(runs) ==
    /\ Pressed
    /\ listed' = runs
    /\ UNCHANGED <<run, bill, beside, loaded, unbilled>>
    /\ Want(fetching, loading)

(* The page is left, and opened again: what was asked for comes back to        *)
(* nobody.                                                                     *)
Leave ==
    /\ Pressed
    /\ beside' = {} /\ loaded' = {} /\ unbilled' = {}
    /\ fetching' = Nothing /\ loading' = {}
    /\ UNCHANGED <<run, bill, listed>>

-----------------------------------------------------------------------------
(* What comes back.  A run that came, however often, is new to the page.       *)
Came(r) ==
    /\ fetching[r] > 0
    /\ loaded' = loaded \cup {r}
    /\ UNCHANGED <<run, bill, listed, beside, unbilled, steps>>
    /\ Want(Back(r), Silent(r))

(* Without a bill it is not kept, and nothing is new.                          *)
CameUnbilled(r) ==
    /\ fetching[r] > 0
    /\ unbilled' = unbilled \cup {r}
    /\ UNCHANGED <<run, bill, listed, beside, loaded, steps>>
    /\ Quiet(r)

(* Mutant of Failed: the box stays as it is. *)
FailedStaysTicked(r) ==
    /\ fetching[r] > 0
    /\ UNCHANGED <<run, bill, listed, beside, loaded, unbilled, steps>>
    /\ Quiet(r)

(* "A run that will not open is a run that stays unticked."                    *)
Failed(r) ==
    /\ fetching[r] > 0
    /\ beside' = beside \ {r}
    /\ UNCHANGED <<run, bill, listed, loaded, unbilled, steps>>
    /\ Want(Back(r), Silent(r))

Answers == \E r \in Runs : Came(r) \/ CameUnbilled(r) \/ Failed(r)

Next ==
    \/ \E r \in Runs : Tick(r) \/ Untick(r) \/ OpenRun(r)
    \/ \E runs \in SUBSET Runs : Relisted(runs)
    \/ Leave
    \/ Answers

Spec == Init /\ [][Next]_vars

(* A request is answered, or given up by the browser. *)
FairSpec == Spec /\ WF_vars(Answers)

-----------------------------------------------------------------------------
(* A box that is ticked is never forgotten: its run has come, is on its way,   *)
(* or came without a bill; and nothing is said to be loading that is not       *)
(* (want, and the effect that calls it).                                       *)
TickedIsOnItsWay ==
    /\ \A r \in beside \cap listed : r \in loaded \cup unbilled \/ fetching[r] > 0
    /\ \A r \in loading : fetching[r] > 0

(* However ticks, failures and new manifests overlap, the fetching that they   *)
(* set off comes to an end: no answer makes the effect ask for ever.           *)
ComesToRest == <>[](fetching = Nothing)
=============================================================================
