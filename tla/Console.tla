------------------------------- MODULE Console -------------------------------
(***************************************************************************)
(* The viewer's console (viewer/lib/console.tsx): the run that is open, the *)
(* view, the address bar and its history, and the build that is followed,   *)
(* with every request it makes in flight at once: the first open, the opens *)
(* by name, the files dropped on the page, the manifest, the lab's project, *)
(* the poll of a build's output and the request that starts a build.  The   *)
(* lab behind the page (dissaly/cli/Serve.java) is one of the actors.       *)
(*                                                                         *)
(* A run is its name; what its trace holds is another module's.  A moment   *)
(* (`t` of the address bar) is abstracted to the run it was read in.        *)
(***************************************************************************)
EXTENDS Naturals, Sequences, FiniteSets

CONSTANTS
    Shipped,      \* the runs the export was built with: name |-> group
    Simulations,  \* the lab's simulations; a run is named as its simulation
    Files,        \* the files somebody may drop on the page
    Nothing,      \* null
    Clicks,       \* bound: what the user, or another page of the lab, does
    Faults        \* bound: how many requests go unanswered

ASSUME ConsoleAssumption ==
    /\ Clicks \in Nat /\ Faults \in Nat
    /\ Nothing \notin DOMAIN Shipped \cup Simulations \cup Files
    /\ Files \cap (DOMAIN Shipped \cup Simulations) = {}

VIEWS == {"runs", "simulations", "overview", "film", "usage", "cost"}
TIMED == {"overview", "usage", "cost"}
Names == DOMAIN Shipped \cup Simulations \cup Files

VARIABLES
    runs,       \* what the gallery lists
    run,        \* the open run, or Nothing
    clockAt,    \* the moment the clock of the open run was put at, or Nothing
    view, busy, error, hasLab,
    wanted,     \* the ref: the last name asked for
    entries, at,  \* the history of the tab, and where it is in it
    opening,    \* opens in flight
    listing,    \* manifests asked for by reload(), with their answers
    building,   \* the simulation whose build is followed, or Nothing
    noticing,   \* the project() of the effect on [watching]
    polling,    \* the output() of the effect on [building]
    looks,      \* answers to Lab's project(), not yet delivered
    labSeen,    \* the simulations Lab shows a "Last run" button for
    starting,   \* run() requests of startBuild, each with the `go` it captured
    lab,        \* the server: its current run and those still on its worker
    disk,       \* the runs it has on disk
    clicks, faults

page     == <<run, clockAt, view, entries, at>>
requests == <<opening, listing, looks, starting>>
server   == <<lab, disk>>
follow   == <<building, noticing, polling>>
vars == <<runs, page, busy, error, hasLab, wanted, requests, follow,
          labSeen, server, clicks, faults>>

------------------------------------------------------------------------------
\* The address bar: run, view and t of the entry the tab is at.  The view `runs`
\* is written as no view at all.

readUrl == entries[at]

Written(name, v) ==
    [entries[at] EXCEPT !.run = name, !.view = IF v = "runs" THEN Nothing ELSE v]

writeUrl(name, v, push) ==
    /\ entries' = IF push THEN Append(SubSeq(entries, 1, at), Written(name, v))
                          ELSE [entries EXCEPT ![at] = Written(name, v)]
    /\ at' = IF push THEN at + 1 ELSE at

\* setRun with setView and writeUrl: a clock of the run's own, put at the moment
\* the address bar names if it names one.
Show(name, shownIn, v, push) ==
    /\ run' = name /\ view' = v
    /\ writeUrl(shownIn, v, push)
    /\ clockAt' = readUrl.t

------------------------------------------------------------------------------
\* The lab.  A run of it is followed by whoever asks for `current`; one that was
\* put on the worker and is not current any more still runs to its end.

NoBuild == [sim |-> Nothing, state |-> "done"]

busyWith == IF lab.current.state = "going" THEN lab.current.sim ELSE Nothing

withTrace == Simulations \cap disk

\* The two requests of the console's effects: at most one of each is of interest,
\* an older one is dropped by the effect's cleanup.
Idle    == [state |-> "idle", busy |-> Nothing]
Asking  == [state |-> "sent", busy |-> Nothing]
Off     == [state |-> "off", done |-> FALSE, ok |-> FALSE]
Polling == [state |-> "sent", done |-> FALSE, ok |-> FALSE]

\* Mutant of said: a run that failed is not done.
saidOfSuccess == [state |-> "answered", done |-> lab.current.state = "done", ok |-> TRUE]

\* What the log of the current run answers: no run at all is done.
said == [state |-> "answered",
         done |-> lab.current.state # "going",
         ok |-> lab.current.state # "failed"]

\* The worker finishes a run: it wrote its trace whether or not it failed.
Finishes ==
    \E failed \in BOOLEAN :
        \/ /\ lab.current.state = "going"
           /\ lab' = [lab EXCEPT !.current.state = IF failed THEN "failed" ELSE "done"]
           /\ disk' = disk \cup {lab.current.sim}
        \/ \E sim \in lab.queue :
              /\ lab' = [lab EXCEPT !.queue = @ \ {sim}]
              /\ disk' = disk \cup {sim}
Worker ==
    /\ Finishes
    /\ UNCHANGED <<runs, page, busy, error, hasLab, wanted, requests, follow,
                   labSeen, clicks, faults>>

\* start(): `current` is looked at, and set, by a thread of its own per request;
\* between the two another request may have passed the same check.
NewCurrent(sim) ==
    [current |-> [sim |-> sim, state |-> "going"],
     queue   |-> lab.queue \cup {s \in {lab.current.sim} : lab.current.state = "going"}]

StartChecked ==
    \E s \in starting :
        /\ s.state = "sent"
        /\ starting' = (starting \ {s}) \cup
              {[s EXCEPT !.state = IF busyWith = Nothing THEN "passed" ELSE "refused"]}
        /\ UNCHANGED <<runs, page, busy, error, hasLab, wanted, opening, listing,
                       looks, follow, labSeen, server, clicks, faults>>

StartSet ==
    \E s \in starting :
        /\ s.state = "passed"
        /\ starting' = (starting \ {s}) \cup {[s EXCEPT !.state = "queued"]}
        /\ lab' = NewCurrent(s.sim)
        /\ UNCHANGED <<runs, page, busy, error, hasLab, wanted, opening, listing,
                       looks, follow, labSeen, disk, clicks, faults>>

------------------------------------------------------------------------------
\* What the user does.  Each costs one of the Clicks.

Click == clicks < Clicks /\ clicks' = clicks + 1

\* load(): the last to ask is wanted.
load(name, next) ==
    /\ wanted' = name /\ busy' = TRUE /\ error' = FALSE
    /\ opening' = opening \cup
          {[id |-> clicks + 1, by |-> "load", name |-> name, next |-> next]}

\* The cards of the gallery, after its group and its text filter.
Groups == {"yours", "suite", "gallery"}
from(name) == IF name \in Simulations THEN "yours" ELSE Shipped[name]
shownCards(only, needle) ==
    {r \in runs : (only = Nothing \/ from(r) = only) /\ (needle = Nothing \/ r = needle)}

open ==
    /\ Click
    /\ view = "runs"
    /\ \E only \in Groups \cup {Nothing}, needle \in runs \cup {Nothing} :
          \E r \in shownCards(only, needle) : load(r, "overview")
    /\ UNCHANGED <<runs, page, hasLab, listing, looks, starting, follow, labSeen,
                   server, faults>>

\* The "Last run" button of a simulation, off while a build is followed.
openAt ==
    /\ Click
    /\ view = "simulations" /\ labSeen # Nothing /\ building = Nothing
    /\ \E sim \in labSeen : load(sim, "overview")
    /\ UNCHANGED <<runs, page, hasLab, listing, looks, starting, follow, labSeen,
                   server, faults>>

\* A file dropped anywhere in the window: read before it is wanted.
openDropped ==
    /\ Click
    /\ busy' = TRUE /\ error' = FALSE
    /\ \E f \in Files : opening' = opening \cup
          {[id |-> clicks + 1, by |-> "drop", name |-> f, next |-> "overview"]}
    /\ UNCHANGED <<runs, page, hasLab, wanted, listing, looks, starting, follow,
                   labSeen, server, faults>>

\* The rail offers the lab's pages, Simulations only with a lab, and the open
\* run's only with a run.
navItems == {"runs"} \cup (IF hasLab THEN {"simulations"} ELSE {})
                     \cup (IF run = Nothing THEN {} ELSE TIMED \cup {"film"})

Goes(next, captured) == view' = next /\ writeUrl(captured, next, TRUE)

go ==
    /\ Click
    /\ \E next \in navItems \ {view} : Goes(next, run)
    /\ UNCHANGED <<runs, run, clockAt, busy, error, hasLab, wanted, requests, follow,
                   labSeen, server, faults>>

\* The film writes where its playhead rests into the entry it is at.
filmParks ==
    /\ Click
    /\ view = "film" /\ run # Nothing
    /\ entries' = [entries EXCEPT ![at].run = run, ![at].t = run]
    /\ UNCHANGED <<runs, run, clockAt, view, at, busy, error, hasLab, wanted,
                   requests, follow, labSeen, server, faults>>

dismiss ==
    /\ error /\ error' = FALSE
    /\ UNCHANGED <<runs, page, busy, hasLab, wanted, requests, follow, labSeen,
                   server, clicks, faults>>

\* The Back and Forward buttons: the view of the entry, and its run if it names
\* one that is listed and is not the last that was asked for.
onPop ==
    /\ Click
    /\ \E to \in {at - 1, at + 1} \cap DOMAIN entries :
          LET asked == entries[to].run  askedView == entries[to].view IN
          /\ at' = to
          /\ view' = IF askedView = Nothing THEN "runs" ELSE askedView
          /\ IF asked # Nothing /\ asked # wanted /\ asked \in runs
             THEN load(asked, IF askedView = Nothing THEN "overview" ELSE askedView)
             ELSE UNCHANGED <<wanted, busy, error, opening>>
    /\ UNCHANGED <<runs, run, clockAt, entries, hasLab, listing, looks, starting,
                   follow, labSeen, server, faults>>

\* Running a simulation: from Lab's row, or once a new one was written.
\* startBuild() asks the lab; the `go` it ends with is the one of this render.
press ==
    /\ Click
    /\ view = "simulations" /\ labSeen # Nothing /\ building = Nothing
    /\ \E sim \in Simulations : starting' = starting \cup
          {[id |-> clicks + 1, sim |-> sim, was |-> run, state |-> "sent"]}
    /\ UNCHANGED <<runs, page, busy, error, hasLab, wanted, opening, listing, looks,
                   follow, labSeen, server, faults>>

\* A request of Lab's: answered by what the lab has now, delivered any time.
looksAgain == looks' = looks \cup {withTrace}

\* A simulation was written over: the effect on [watching] runs again.
nudge ==
    /\ Click
    /\ view = "simulations" /\ labSeen # Nothing
    /\ noticing' = Asking /\ looksAgain
    /\ UNCHANGED <<runs, page, busy, error, hasLab, wanted, opening, listing, starting,
                   building, polling, labSeen, server, faults>>

\* Another page of the same lab starts a run.
otherPage ==
    /\ Click
    /\ busyWith = Nothing
    /\ \E sim \in Simulations : lab' = NewCurrent(sim)
    /\ UNCHANGED <<runs, page, busy, error, hasLab, wanted, requests, follow, labSeen,
                   disk, faults>>

User == open \/ openAt \/ openDropped \/ go \/ filmParks \/ dismiss \/ onPop
        \/ press \/ nudge \/ otherPage

------------------------------------------------------------------------------
\* What comes back.

Fault == faults < Faults /\ faults' = faults + 1
Fine  == UNCHANGED faults

manifest == DOMAIN Shipped \cup disk

\* The first effect: list the runs, and open the one the address bar names, or
\* the first of one's own, or the first.
firstChoice(found) ==
    IF readUrl.run \in found THEN {readUrl.run}
    ELSE IF \E r \in found : from(r) = "yours" THEN {r \in found : from(r) = "yours"}
    ELSE found

firstListed ==
    \E o \in opening :
        /\ o.by = "first" /\ o.name = Nothing
        /\ \/ /\ Fine
              /\ runs' = manifest
              /\ \E name \in firstChoice(manifest) : opening' = (opening \ {o}) \cup
                    {[o EXCEPT !.name = name,
                               !.next = IF readUrl.view # Nothing THEN readUrl.view
                                        ELSE IF readUrl.run # Nothing THEN "overview"
                                        ELSE "runs"]}
              /\ UNCHANGED <<busy, error>>
           \/ /\ Fault
              /\ opening' = opening \ {o} /\ busy' = FALSE
              /\ error' \in {error, TRUE}
              /\ UNCHANGED runs
        /\ UNCHANGED <<page, hasLab, wanted, listing, looks, starting, follow, labSeen,
                       server, clicks>>

firstOpened ==
    \E o \in opening :
        /\ o.by = "first" /\ o.name # Nothing
        /\ opening' = opening \ {o} /\ busy' = FALSE
        /\ \/ Fine /\ Show(o.name, o.name, o.next, FALSE) /\ UNCHANGED error
           \/ Fault /\ error' = TRUE /\ UNCHANGED page
        /\ UNCHANGED <<runs, hasLab, wanted, listing, looks, starting, follow, labSeen,
                       server, clicks>>

\* Mutant of StillBusy: whoever comes back, the page goes on loading.
StillBusyAnyway(o) == busy

\* Only the load that is wanted ends the loading.
StillBusy(o) == busy /\ wanted # o.name

\* load() again: what is not wanted any more is dropped, unless it failed.
loaded ==
    \E o \in opening :
        /\ o.by = "load"
        /\ opening' = opening \ {o}
        /\ busy' = StillBusy(o)
        /\ \/ /\ Fine
              /\ IF wanted = o.name THEN Show(o.name, o.name, o.next, TRUE)
                                    ELSE UNCHANGED page
              /\ UNCHANGED error
           \/ Fault /\ error' = TRUE /\ UNCHANGED page
        /\ UNCHANGED <<runs, hasLab, wanted, listing, looks, starting, follow, labSeen,
                       server, clicks>>

droppedRead ==
    \E o \in opening :
        /\ o.by = "drop"
        /\ opening' = opening \ {o} /\ busy' = FALSE
        /\ \/ /\ Fine
              /\ wanted' = o.name
              /\ Show(o.name, Nothing, "overview", TRUE)
              /\ UNCHANGED error
           \/ Fault /\ error' = TRUE /\ UNCHANGED <<page, wanted>>
        /\ UNCHANGED <<runs, hasLab, listing, looks, starting, follow, labSeen, server,
                       clicks>>

\* reload(): a manifest that is not there is an empty one.
reloaded ==
    \E found \in listing :
        /\ listing' = listing \ {found}
        /\ \/ Fine /\ runs' = found
           \/ Fault /\ runs' \in {runs, {}}
        /\ UNCHANGED <<page, busy, error, hasLab, wanted, opening, looks, starting,
                       follow, labSeen, server, clicks>>

\* Lab's look(): nothing answers when there is no lab.
looked ==
    \E found \in looks :
        /\ looks' = looks \ {found}
        /\ \/ Fine /\ hasLab' = TRUE /\ labSeen' = found
           \/ Fault /\ hasLab' = FALSE /\ UNCHANGED labSeen
        /\ UNCHANGED <<runs, page, busy, error, wanted, opening, listing, starting,
                       follow, server, clicks>>

\* setBuilding: the effect on [building] follows it from the start of its log, and
\* Lab looks again.
setBuilding(sim) ==
    /\ building' = sim
    /\ polling' = IF sim = Nothing THEN Off ELSE Polling
    /\ looksAgain

\* run() comes back, and startBuild's caller goes to Runs either way.
started ==
    \E s \in starting :
        /\ starting' = starting \ {s}
        /\ \/ /\ s.state = "queued" /\ Fine
              /\ setBuilding(s.sim) /\ UNCHANGED error
           \/ /\ (s.state = "refused" /\ Fine) \/ Fault
              /\ error' = TRUE /\ UNCHANGED <<building, polling, looks>>
        /\ Goes("runs", s.was)
        /\ UNCHANGED <<runs, run, clockAt, busy, hasLab, wanted, opening, listing,
                       noticing, labSeen, server, clicks>>

\* The effect on [watching]: the lab is asked, and a build it is busy with is
\* followed unless one is.
noticeServed ==
    /\ noticing = Asking
    /\ \/ Fine /\ noticing' = [state |-> "answered", busy |-> busyWith]
       \/ Fault /\ noticing' = Idle
    /\ UNCHANGED <<runs, page, busy, error, hasLab, wanted, requests, building, polling,
                   labSeen, server, clicks>>

noticed ==
    /\ noticing.state = "answered"
    /\ noticing' = Idle
    /\ IF noticing.busy # Nothing /\ building = Nothing
       THEN setBuilding(noticing.busy)
       ELSE UNCHANGED <<building, polling, looks>>
    /\ UNCHANGED <<runs, page, busy, error, hasLab, wanted, opening, listing, starting,
                   labSeen, server, clicks, faults>>

\* The effect on [building]: ask for the log until it says it is done.
pollServed ==
    /\ polling = Polling
    /\ polling' = said
    /\ UNCHANGED <<runs, page, busy, error, hasLab, wanted, requests, building, noticing,
                   labSeen, server, clicks, faults>>

pulled ==
    /\ polling.state = "answered"
    /\ \/ /\ Fine /\ ~polling.done
          /\ polling' = Polling
          /\ UNCHANGED <<building, listing, looks, error>>
       \/ /\ Fine /\ polling.done
          /\ setBuilding(Nothing)
          /\ listing' = listing \cup {manifest}
          /\ error' = (error \/ ~polling.ok)
       \/ /\ Fault
          /\ setBuilding(Nothing) /\ error' = TRUE /\ UNCHANGED listing
    /\ UNCHANGED <<runs, page, busy, hasLab, wanted, opening, starting, noticing,
                   labSeen, server, clicks>>

Answers == firstListed \/ firstOpened \/ loaded \/ droppedRead \/ reloaded \/ looked
           \/ started \/ noticeServed \/ noticed \/ pollServed \/ pulled

Serving == Worker \/ StartChecked \/ StartSet

------------------------------------------------------------------------------
\* A page opened at any address: none, a run, a view, a moment of that run.
Addresses ==
    [run : {Nothing} \cup DOMAIN Shipped, view : {Nothing, "film", "simulations"}, t : {Nothing}]
    \cup {[run |-> r, view |-> Nothing, t |-> r] : r \in DOMAIN Shipped}

Init ==
    /\ runs = {} /\ run = Nothing /\ clockAt = Nothing
    /\ view = "runs" /\ busy = TRUE /\ error = FALSE /\ hasLab = FALSE
    /\ wanted = Nothing
    /\ entries \in {<<a>> : a \in Addresses} /\ at = 1
    /\ opening = {[id |-> 0, by |-> "first", name |-> Nothing, next |-> "runs"]}
    /\ listing = {} /\ starting = {}
    /\ building = Nothing /\ noticing = Asking /\ polling = Off
    /\ looks = {{}} /\ labSeen = Nothing
    /\ lab = [current |-> NoBuild, queue |-> {}] /\ disk = {}
    /\ clicks = 0 /\ faults = 0

Next == User \/ Answers \/ Serving

Spec == Init /\ [][Next]_vars

\* Every request is answered or fails, and the worker finishes what it is given.
FairSpec == /\ Spec
            /\ WF_vars(Serving) /\ WF_vars(pollServed) /\ WF_vars(pulled)
            /\ WF_vars(firstListed) /\ WF_vars(firstOpened)
            /\ WF_vars(loaded) /\ WF_vars(droppedRead)

------------------------------------------------------------------------------
\* The types of the state.
TypeOK ==
    /\ runs \subseteq Names /\ run \in Names \cup {Nothing}
    /\ clockAt \in Names \cup {Nothing} /\ wanted \in Names \cup {Nothing}
    /\ view \in VIEWS /\ {busy, error, hasLab} \subseteq BOOLEAN
    /\ entries \in Seq([run : Names \cup {Nothing}, view : VIEWS \cup {Nothing},
                        t : Names \cup {Nothing}])
    /\ at \in DOMAIN entries
    /\ opening \subseteq [id : 0 .. Clicks, by : {"first", "load", "drop"},
                          name : Names \cup {Nothing}, next : VIEWS]
    /\ starting \subseteq [id : 1 .. Clicks, sim : Simulations, was : Names \cup {Nothing},
                           state : {"sent", "passed", "queued", "refused"}]
    /\ listing \subseteq SUBSET Names /\ looks \subseteq SUBSET Simulations
    /\ labSeen = Nothing \/ labSeen \subseteq Simulations
    /\ building \in Simulations \cup {Nothing}
    /\ noticing \in [state : {"idle", "sent", "answered"}, busy : Simulations \cup {Nothing}]
    /\ polling \in [state : {"off", "sent", "answered"}, done : BOOLEAN, ok : BOOLEAN]
    /\ lab \in [current : [sim : Simulations \cup {Nothing}, state : {"going", "done", "failed"}],
                queue : SUBSET Simulations]
    /\ disk \subseteq Simulations
    /\ clicks \in 0 .. Clicks /\ faults \in 0 .. Faults

\* While the page says it is loading, a request is in flight whose answer, or
\* failure, ends that: opens that supersede, fail and overtake each other never
\* leave it loading for ever.
BusyHasAnOwner ==
    busy => \E o \in opening : o.by = "load" => o.name = wanted

\* A build that is followed is followed to its end, whoever else starts one and
\* whichever answers are late.
BuildingEnds == (building # Nothing) ~> (building = Nothing)
=============================================================================
