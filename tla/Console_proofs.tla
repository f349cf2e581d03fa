--------------------------- MODULE Console_proofs ---------------------------
(***************************************************************************)
(* What holds of the console for any gallery, any lab, any number of clicks *)
(* and any number of requests that go unanswered.                           *)
(***************************************************************************)
EXTENDS Console, TLAPS

\* What the lab runs, or ran, is a simulation of it.
LabRunsItsOwn == lab.current.state = "going" => lab.current.sim \in Simulations

Entry == [run : Names \cup {Nothing}, view : VIEWS \cup {Nothing}, t : Names \cup {Nothing}]

Opening == [id : 0 .. Clicks, by : {"first", "load", "drop"}, name : Names \cup {Nothing},
            next : VIEWS]

\* What the page shows, and where the tab is.
PageTyped ==
    /\ run \in Names \cup {Nothing} /\ clockAt \in Names \cup {Nothing}
    /\ view \in VIEWS /\ entries \in Seq(Entry) /\ at \in DOMAIN entries

Starting == [id : 1 .. Clicks, sim : Simulations, was : Names \cup {Nothing},
             state : {"sent", "passed", "queued", "refused"}]

\* What is in flight, and what it is for.
AskedTyped ==
    /\ runs \subseteq Names /\ wanted \in Names \cup {Nothing}
    /\ busy \in BOOLEAN /\ error \in BOOLEAN /\ hasLab \in BOOLEAN
    /\ opening \subseteq Opening /\ starting \subseteq Starting
    /\ listing \subseteq SUBSET Names /\ looks \subseteq SUBSET Simulations
    /\ labSeen = Nothing \/ labSeen \subseteq Simulations
    /\ clicks \in 0 .. Clicks /\ faults \in 0 .. Faults

\* The build that is followed, and the lab.
FollowTyped ==
    /\ building \in Simulations \cup {Nothing}
    /\ noticing \in [state : {"idle", "sent", "answered"}, busy : Simulations \cup {Nothing}]
    /\ polling \in [state : {"off", "sent", "answered"}, done : BOOLEAN, ok : BOOLEAN]

LabTyped ==
    /\ lab \in [current : [sim : Simulations \cup {Nothing}, state : {"going", "done", "failed"}],
                queue : SUBSET Simulations]
    /\ disk \subseteq Simulations
    /\ LabRunsItsOwn

Typed == PageTyped /\ AskedTyped /\ FollowTyped /\ LabTyped

LEMMA TypedIsTyped == Typed <=> TypeOK /\ LabRunsItsOwn
  BY DEF Typed, PageTyped, AskedTyped, FollowTyped, LabTyped, TypeOK, Entry, Opening, Starting

\* The entry the tab is at is one of the history.
LEMMA HistoryTyped == ASSUME Typed PROVE entries \in Seq(Entry) /\ at \in 1 .. Len(entries)
  <1>1. entries \in Seq(Entry) /\ at \in DOMAIN entries
    BY DEF Typed, PageTyped
  <1> QED BY <1>1

LEMMA ReadTyped == ASSUME Typed PROVE readUrl \in Entry
  BY HistoryTyped DEF readUrl

\* An entry written to the address bar leaves the tab at an entry.
LEMMA WriteTyped ==
    ASSUME Typed, NEW name \in Names \cup {Nothing}, NEW v \in VIEWS, NEW push \in BOOLEAN,
           writeUrl(name, v, push)
    PROVE  entries' \in Seq(Entry) /\ at' \in DOMAIN entries'
  <1>1. Written(name, v) \in Entry
    BY ReadTyped DEF Written, readUrl, Entry
  <1>2. entries \in Seq(Entry) /\ at \in 1 .. Len(entries)
    BY HistoryTyped
  <1>3. CASE push
    <2>1. SubSeq(entries, 1, at) \in Seq(Entry) /\ Len(SubSeq(entries, 1, at)) = at
      BY <1>2
    <2>2. entries' = Append(SubSeq(entries, 1, at), Written(name, v)) /\ at' = at + 1
      BY <1>3 DEF writeUrl
    <2> QED BY <1>1, <1>2, <2>1, <2>2
  <1>4. CASE ~push
    <2>1. entries' = [entries EXCEPT ![at] = Written(name, v)] /\ at' = at
      BY <1>4 DEF writeUrl
    <2> QED BY <1>1, <1>2, <2>1
  <1> QED BY <1>3, <1>4

\* What is shown, in a view and at a moment, is a run or none.
LEMMA ShowTyped ==
    ASSUME Typed, NEW name \in Names \cup {Nothing}, NEW shownIn \in Names \cup {Nothing}, NEW v \in VIEWS,
           NEW push \in BOOLEAN, Show(name, shownIn, v, push)
    PROVE  PageTyped'
  BY WriteTyped, ReadTyped DEF Show, PageTyped, Entry

LEMMA GoesTyped ==
    ASSUME Typed, NEW next \in VIEWS, NEW captured \in Names \cup {Nothing},
           Goes(next, captured)
    PROVE  view' \in VIEWS /\ entries' \in Seq(Entry) /\ at' \in DOMAIN entries'
  BY WriteTyped DEF Goes

LEMMA LoadTyped ==
    ASSUME Typed, Click, NEW name \in Names, NEW next \in VIEWS, load(name, next)
    PROVE  /\ wanted' \in Names /\ {busy', error'} \subseteq BOOLEAN
           /\ opening' \subseteq Opening /\ clicks' \in 0 .. Clicks
  <1>1. clicks' = clicks + 1 /\ clicks' \in 0 .. Clicks
    BY ConsoleAssumption DEF Typed, AskedTyped, Click
  <1>2. [id |-> clicks + 1, by |-> "load", name |-> name, next |-> next] \in Opening
    BY <1>1 DEF Opening
  <1>3. opening \subseteq Opening
    BY DEF Typed, AskedTyped
  <1> QED BY <1>1, <1>2, <1>3 DEF load

\* What a step leaves alone keeps its type.
LEMMA PageStays == ASSUME Typed, UNCHANGED page PROVE PageTyped'
  BY DEF Typed, PageTyped, page

LEMMA FollowStays == ASSUME Typed, UNCHANGED follow PROVE FollowTyped'
  BY DEF Typed, FollowTyped, follow

LEMMA LabStays == ASSUME Typed, UNCHANGED server PROVE LabTyped'
  BY DEF Typed, LabTyped, LabRunsItsOwn, server

\* A load of any listed run keeps the types, whatever else the click does to the page.
LEMMA LoadKeeps ==
    ASSUME Typed, Click, NEW name \in Names, NEW next \in VIEWS, load(name, next),
           UNCHANGED <<runs, hasLab, listing, looks, starting, labSeen, faults>>
    PROVE  AskedTyped'
  BY LoadTyped DEF Typed, AskedTyped

LEMMA ClickCounts == ASSUME Typed, Click PROVE clicks' = clicks + 1 /\ clicks' \in 1 .. Clicks
  BY ConsoleAssumption DEF Typed, AskedTyped, Click

\* A run that becomes the current one puts the one before it on the worker.
LEMMA NewCurrentTyped ==
    ASSUME Typed, NEW sim \in Simulations, lab' = NewCurrent(sim), disk' = disk
    PROVE  LabTyped'
  BY DEF Typed, LabTyped, LabRunsItsOwn, NewCurrent

\* What the user does, one click after the other.
LEMMA UserTyped == ASSUME Typed, User PROVE Typed'
  <1>1. CASE open
    <2>1. PICK r \in runs : load(r, "overview")
      BY <1>1 DEF open, shownCards
    <2>2. Click /\ r \in Names /\ "overview" \in VIEWS
      BY <1>1 DEF open, Typed, AskedTyped, VIEWS
    <2>3. AskedTyped'
      BY <1>1, <2>1, <2>2, LoadKeeps DEF open
    <2> QED BY <1>1, <2>3, PageStays, FollowStays, LabStays DEF open, Typed, server
  <1>2. CASE openAt
    <2>1. PICK sim \in labSeen : load(sim, "overview")
      BY <1>2 DEF openAt
    <2>2. Click /\ sim \in Names /\ "overview" \in VIEWS
      BY <1>2 DEF openAt, Typed, AskedTyped, VIEWS, Names
    <2>3. AskedTyped'
      BY <1>2, <2>1, <2>2, LoadKeeps DEF openAt
    <2> QED BY <1>2, <2>3, PageStays, FollowStays, LabStays DEF openAt, Typed, server
  <1>3. CASE openDropped
    <2>1. PICK f \in Files : opening' = opening \cup
             {[id |-> clicks + 1, by |-> "drop", name |-> f, next |-> "overview"]}
      BY <1>3 DEF openDropped
    <2>2. clicks' = clicks + 1 /\ clicks' \in 1 .. Clicks
      BY <1>3, ClickCounts DEF openDropped
    <2>3. opening' \subseteq Opening
      BY <2>1, <2>2, ConsoleAssumption DEF Typed, AskedTyped, Opening, VIEWS, Names
    <2>4. /\ UNCHANGED <<runs, hasLab, wanted, listing, looks, starting, labSeen, faults>>
          /\ busy' \in BOOLEAN /\ error' \in BOOLEAN
      BY <1>3 DEF openDropped
    <2>5. AskedTyped'
      BY <2>2, <2>3, <2>4 DEF Typed, AskedTyped
    <2> QED BY <1>3, <2>5, PageStays, FollowStays, LabStays DEF openDropped, Typed, server
  <1>4. CASE go
    <2>1. PICK next \in VIEWS : Goes(next, run)
      BY <1>4 DEF go, navItems, TIMED, VIEWS
    <2>2. PageTyped'
      BY <1>4, <2>1, GoesTyped DEF go, Typed, PageTyped
    <2>3. AskedTyped'
      BY <1>4, ClickCounts DEF go, Typed, AskedTyped, requests
    <2> QED BY <1>4, <2>2, <2>3, FollowStays, LabStays DEF go, Typed
  <1>5. CASE filmParks
    <2>1. entries' = [entries EXCEPT ![at] = [@ EXCEPT !.run = run, !.t = run]] /\ at' = at
      BY <1>5, HistoryTyped DEF filmParks, Entry
    <2>2. [entries[at] EXCEPT !.run = run, !.t = run] \in Entry
      BY ReadTyped DEF readUrl, Entry, Typed, PageTyped
    <2>3. entries' \in Seq(Entry) /\ at' \in DOMAIN entries'
      BY <2>1, <2>2, HistoryTyped
    <2>4. PageTyped'
      BY <1>5, <2>3 DEF filmParks, Typed, PageTyped
    <2>5. AskedTyped'
      BY <1>5, ClickCounts DEF filmParks, Typed, AskedTyped, requests
    <2> QED BY <1>5, <2>4, <2>5, FollowStays, LabStays DEF filmParks, Typed
  <1>6. CASE dismiss
    <2>1. AskedTyped'
      BY <1>6 DEF dismiss, Typed, AskedTyped, requests
    <2> QED BY <1>6, <2>1, PageStays, FollowStays, LabStays DEF dismiss, Typed
  <1>7. CASE onPop
    <2>0. Click /\ UNCHANGED <<runs, hasLab, listing, looks, starting, labSeen, faults>>
      BY <1>7 DEF onPop
    <2>1. PICK to \in {at - 1, at + 1} \cap DOMAIN entries :
             LET asked == entries[to].run  askedView == entries[to].view IN
             /\ at' = to
             /\ view' = IF askedView = Nothing THEN "runs" ELSE askedView
             /\ IF asked # Nothing /\ asked # wanted /\ asked \in runs
                THEN load(asked, IF askedView = Nothing THEN "overview" ELSE askedView)
                ELSE UNCHANGED <<wanted, busy, error, opening>>
      BY <1>7 DEF onPop
    <2>2. entries[to] \in Entry
      BY HistoryTyped
    <2>3. /\ entries[to].run \in Names \cup {Nothing}
          /\ entries[to].view \in VIEWS \cup {Nothing}
      BY <2>2 DEF Entry
    <2>4. PageTyped'
      BY <1>7, <2>1, <2>3 DEF onPop, Typed, PageTyped, VIEWS
    <2>5. ASSUME entries[to].run \in Names,
                 load(entries[to].run,
                      IF entries[to].view = Nothing THEN "overview" ELSE entries[to].view)
          PROVE  AskedTyped'
      <3>1. (IF entries[to].view = Nothing THEN "overview" ELSE entries[to].view) \in VIEWS
        BY <2>3 DEF VIEWS
      <3> QED BY <2>0, <2>5, <3>1, LoadKeeps
    <2>6. ASSUME UNCHANGED <<wanted, busy, error, opening>> PROVE AskedTyped'
      BY <2>0, <2>6, ClickCounts DEF Typed, AskedTyped
    <2>7. AskedTyped'
      <3>1. CASE entries[to].run # Nothing /\ entries[to].run # wanted /\ entries[to].run \in runs
        <4>1. entries[to].run \in Names
          BY <2>3, <3>1
        <4> QED BY <2>1, <2>5, <3>1, <4>1
      <3>2. CASE ~(entries[to].run # Nothing /\ entries[to].run # wanted
                   /\ entries[to].run \in runs)
        BY <2>1, <2>6, <3>2
      <3> QED BY <3>1, <3>2
    <2> QED BY <1>7, <2>4, <2>7, FollowStays, LabStays DEF onPop, Typed
  <1>8. CASE press
    <2>1. PICK sim \in Simulations : starting' = starting \cup
             {[id |-> clicks + 1, sim |-> sim, was |-> run, state |-> "sent"]}
      BY <1>8 DEF press
    <2>2. clicks' = clicks + 1 /\ clicks' \in 1 .. Clicks
      BY <1>8, ClickCounts DEF press
    <2>3. starting' \subseteq Starting
      BY <2>1, <2>2 DEF Typed, AskedTyped, PageTyped, Starting
    <2>4. AskedTyped'
      BY <1>8, <2>2, <2>3 DEF press, Typed, AskedTyped
    <2> QED BY <1>8, <2>4, PageStays, FollowStays, LabStays DEF press, Typed
  <1>9. CASE nudge
    <2>1. looks' \subseteq SUBSET Simulations
      BY <1>9 DEF nudge, looksAgain, withTrace, Typed, AskedTyped
    <2>2. AskedTyped'
      BY <1>9, <2>1, ClickCounts DEF nudge, Typed, AskedTyped
    <2>3. FollowTyped'
      BY <1>9 DEF nudge, Typed, FollowTyped, Asking
    <2> QED BY <1>9, <2>2, <2>3, PageStays, LabStays DEF nudge, Typed
  <1>10. CASE otherPage
    <2>1. PICK sim \in Simulations : lab' = NewCurrent(sim)
      BY <1>10 DEF otherPage
    <2>2. LabTyped'
      BY <1>10, <2>1, NewCurrentTyped DEF otherPage
    <2>3. AskedTyped'
      BY <1>10, ClickCounts DEF otherPage, Typed, AskedTyped, requests
    <2> QED BY <1>10, <2>2, <2>3, PageStays, FollowStays DEF otherPage, Typed
  <1> QED BY <1>1, <1>2, <1>3, <1>4, <1>5, <1>6, <1>7, <1>8, <1>9, <1>10 DEF User

\* A build that is followed, or given up, is one of a simulation.
LEMMA SetBuildingTyped ==
    ASSUME Typed, NEW sim \in Simulations \cup {Nothing}, setBuilding(sim),
           noticing' \in [state : {"idle", "sent", "answered"}, busy : Simulations \cup {Nothing}]
    PROVE  FollowTyped' /\ looks' \subseteq SUBSET Simulations
  BY DEF Typed, AskedTyped, FollowTyped, setBuilding, looksAgain, withTrace, Off, Polling

\* A request that goes unanswered is one more of the faults.
LEMMA FaultsCounted == ASSUME Typed, Fine \/ Fault PROVE faults' \in 0 .. Faults
  BY ConsoleAssumption DEF Typed, AskedTyped, Fine, Fault

\* What the lab says it is busy with is a simulation of it, and so is what is on its disk.
LEMMA ServerNames ==
    ASSUME Typed
    PROVE  busyWith \in Simulations \cup {Nothing} /\ manifest \subseteq Names
  BY DEF Typed, LabTyped, LabRunsItsOwn, busyWith, manifest, Names

\* Only a request in flight is answered, and what comes back names a run that is listed,
\* a file that was dropped or a simulation of the lab.
LEMMA AnswersTyped == ASSUME Typed, Answers PROVE Typed'
  <1>0. readUrl \in Entry
    BY ReadTyped
  <1>1. CASE firstListed
    <2> DEFINE next == IF readUrl.view # Nothing THEN readUrl.view
                       ELSE IF readUrl.run # Nothing THEN "overview" ELSE "runs"
    <2>1. PICK o \in opening :
             \/ /\ runs' = manifest
                /\ \E name \in firstChoice(manifest) :
                      opening' = (opening \ {o}) \cup {[o EXCEPT !.name = name, !.next = next]}
                /\ UNCHANGED <<busy, error>>
             \/ /\ opening' = opening \ {o} /\ busy' = FALSE
                /\ error' \in {error, TRUE}
                /\ UNCHANGED runs
      BY <1>1 DEF firstListed
    <2>2. /\ UNCHANGED <<page, hasLab, wanted, listing, looks, starting, follow, labSeen,
                         server, clicks>>
          /\ faults' \in 0 .. Faults
      BY <1>1, FaultsCounted DEF firstListed
    <2>3. runs' \subseteq Names /\ busy' \in BOOLEAN /\ error' \in BOOLEAN
      BY <2>1, ServerNames DEF Typed, AskedTyped
    <2>4. next \in VIEWS
      BY <1>0 DEF Entry, VIEWS
    <2>5. ASSUME NEW name \in firstChoice(manifest) PROVE name \in Names
      BY ServerNames DEF firstChoice
    <2> HIDE DEF next
    <2>6. ASSUME NEW name \in Names
          PROVE  [o EXCEPT !.name = name, !.next = next] \in Opening
      <3>1. o \in [id : 0 .. Clicks, by : {"first", "load", "drop"}, name : Names \cup {Nothing},
                   next : VIEWS]
        BY DEF Typed, AskedTyped, Opening
      <3> QED BY <2>4, <3>1 DEF Opening
    <2>7. opening' \subseteq Opening
      <3>1. opening \subseteq Opening
        BY DEF Typed, AskedTyped
      <3>2. CASE opening' = opening \ {o}
        BY <3>1, <3>2
      <3>3. ASSUME NEW name \in firstChoice(manifest),
                   opening' = (opening \ {o}) \cup {[o EXCEPT !.name = name, !.next = next]}
            PROVE  opening' \subseteq Opening
        <4>1. [o EXCEPT !.name = name, !.next = next] \in Opening
          BY <2>5, <2>6
        <4> QED BY <3>1, <3>3, <4>1
      <3> QED BY <2>1, <3>2, <3>3
    <2>8. AskedTyped'
      BY <2>2, <2>3, <2>7 DEF Typed, AskedTyped
    <2> QED BY <2>2, <2>8, PageStays, FollowStays, LabStays DEF Typed
  <1>2. CASE firstOpened
    <2>1. PICK o \in opening :
             /\ o.by = "first" /\ o.name # Nothing
             /\ opening' = opening \ {o} /\ busy' = FALSE
             /\ \/ Fine /\ Show(o.name, o.name, o.next, FALSE) /\ UNCHANGED error
                \/ Fault /\ error' = TRUE /\ UNCHANGED page
      BY <1>2 DEF firstOpened
    <2>2. /\ UNCHANGED <<runs, hasLab, wanted, listing, looks, starting, follow, labSeen,
                         server, clicks>>
          /\ faults' \in 0 .. Faults
      BY <1>2, FaultsCounted DEF firstOpened
    <2>3. o.name \in Names /\ o.next \in VIEWS
      BY <2>1 DEF Typed, AskedTyped, Opening
    <2>4. PageTyped'
      BY <2>1, <2>3, ShowTyped, PageStays
    <2>5. opening' \subseteq Opening /\ busy' \in BOOLEAN /\ error' \in BOOLEAN
      BY <2>1 DEF Typed, AskedTyped
    <2>6. AskedTyped'
      BY <2>2, <2>5 DEF Typed, AskedTyped
    <2> QED BY <2>2, <2>4, <2>6, FollowStays, LabStays DEF Typed
  <1>3. CASE loaded
    <2>1. PICK o \in opening :
             /\ o.by = "load"
             /\ opening' = opening \ {o}
             /\ busy' = StillBusy(o)
             /\ \/ /\ Fine
                   /\ IF wanted = o.name THEN Show(o.name, o.name, o.next, TRUE)
                                         ELSE UNCHANGED page
                   /\ UNCHANGED error
                \/ Fault /\ error' = TRUE /\ UNCHANGED page
      BY <1>3 DEF loaded
    <2>2. /\ UNCHANGED <<runs, hasLab, wanted, listing, looks, starting, follow, labSeen,
                         server, clicks>>
          /\ faults' \in 0 .. Faults
      BY <1>3, FaultsCounted DEF loaded
    <2>3. o.name \in Names \cup {Nothing} /\ o.next \in VIEWS
      BY <2>1 DEF Typed, AskedTyped, Opening
    <2>4. PageTyped'
      BY <2>1, <2>3, ShowTyped, PageStays
    <2>5. opening' \subseteq Opening /\ busy' \in BOOLEAN /\ error' \in BOOLEAN
      BY <2>1 DEF Typed, AskedTyped, StillBusy
    <2>6. AskedTyped'
      BY <2>2, <2>5 DEF Typed, AskedTyped
    <2> QED BY <2>2, <2>4, <2>6, FollowStays, LabStays DEF Typed
  <1>4. CASE droppedRead
    <2>1. PICK o \in opening :
             /\ opening' = opening \ {o} /\ busy' = FALSE
             /\ \/ /\ wanted' = o.name
                   /\ Show(o.name, Nothing, "overview", TRUE)
                   /\ UNCHANGED error
                \/ error' = TRUE /\ UNCHANGED <<page, wanted>>
      BY <1>4 DEF droppedRead
    <2>2. /\ UNCHANGED <<runs, hasLab, listing, looks, starting, follow, labSeen, server, clicks>>
          /\ faults' \in 0 .. Faults
      BY <1>4, FaultsCounted DEF droppedRead
    <2>3. o.name \in Names \cup {Nothing} /\ "overview" \in VIEWS
      BY <2>1 DEF Typed, AskedTyped, Opening, VIEWS
    <2>4. PageTyped'
      BY <2>1, <2>3, ShowTyped, PageStays
    <2>5. /\ opening' \subseteq Opening /\ busy' \in BOOLEAN /\ error' \in BOOLEAN
          /\ wanted' \in Names \cup {Nothing}
      BY <2>1, <2>3 DEF Typed, AskedTyped
    <2>6. AskedTyped'
      BY <2>2, <2>5 DEF Typed, AskedTyped
    <2> QED BY <2>2, <2>4, <2>6, FollowStays, LabStays DEF Typed
  <1>5. CASE reloaded
    <2>1. PICK found \in listing :
             /\ listing' = listing \ {found}
             /\ runs' = found \/ runs' \in {runs, {}}
      BY <1>5 DEF reloaded
    <2>2. /\ UNCHANGED <<page, busy, error, hasLab, wanted, opening, looks, starting,
                         follow, labSeen, server, clicks>>
          /\ faults' \in 0 .. Faults
      BY <1>5, FaultsCounted DEF reloaded
    <2>3. runs' \subseteq Names /\ listing' \subseteq SUBSET Names
      BY <2>1 DEF Typed, AskedTyped
    <2>4. AskedTyped'
      BY <2>2, <2>3 DEF Typed, AskedTyped
    <2> QED BY <2>2, <2>4, PageStays, FollowStays, LabStays DEF Typed
  <1>6. CASE looked
    <2>1. PICK found \in looks :
             /\ looks' = looks \ {found}
             /\ hasLab' \in BOOLEAN /\ labSeen' \in {found, labSeen}
      BY <1>6 DEF looked
    <2>2. /\ UNCHANGED <<runs, page, busy, error, wanted, opening, listing, starting,
                         follow, server, clicks>>
          /\ faults' \in 0 .. Faults
      BY <1>6, FaultsCounted DEF looked
    <2>3. /\ looks' \subseteq SUBSET Simulations
          /\ labSeen' = Nothing \/ labSeen' \subseteq Simulations
      BY <2>1 DEF Typed, AskedTyped
    <2>4. AskedTyped'
      BY <2>1, <2>2, <2>3 DEF Typed, AskedTyped
    <2> QED BY <2>2, <2>4, PageStays, FollowStays, LabStays DEF Typed
  <1>7. CASE started
    <2>1. PICK s \in starting :
             /\ starting' = starting \ {s}
             /\ \/ setBuilding(s.sim) /\ UNCHANGED error
                \/ error' = TRUE /\ UNCHANGED <<building, polling, looks>>
             /\ Goes("runs", s.was)
      BY <1>7 DEF started
    <2>2. /\ UNCHANGED <<runs, run, clockAt, busy, hasLab, wanted, opening, listing,
                         noticing, labSeen, server, clicks>>
          /\ faults' \in 0 .. Faults
      BY <1>7, FaultsCounted DEF started
    <2>3. s.sim \in Simulations /\ s.was \in Names \cup {Nothing} /\ "runs" \in VIEWS
      BY DEF Typed, AskedTyped, Starting, VIEWS
    <2>4. PageTyped'
      BY <2>1, <2>2, <2>3, GoesTyped DEF Typed, PageTyped
    <2>5. FollowTyped' /\ looks' \subseteq SUBSET Simulations
      <3>1. noticing' \in [state : {"idle", "sent", "answered"},
                           busy : Simulations \cup {Nothing}]
        BY <2>2 DEF Typed, FollowTyped
      <3>2. CASE setBuilding(s.sim)
        BY <2>3, <3>1, <3>2, SetBuildingTyped
      <3>3. CASE UNCHANGED <<building, polling, looks>>
        BY <3>1, <3>3 DEF Typed, FollowTyped, AskedTyped
      <3> QED BY <2>1, <3>2, <3>3
    <2>6. starting' \subseteq Starting /\ error' \in BOOLEAN
      BY <2>1 DEF Typed, AskedTyped
    <2>7. AskedTyped'
      BY <2>2, <2>5, <2>6 DEF Typed, AskedTyped
    <2> QED BY <2>2, <2>4, <2>5, <2>7, LabStays DEF Typed
  <1>8. CASE noticeServed
    <2>1. /\ UNCHANGED <<runs, page, busy, error, hasLab, wanted, requests, building, polling,
                         labSeen, server, clicks>>
          /\ faults' \in 0 .. Faults
      BY <1>8, FaultsCounted DEF noticeServed
    <2>2. noticing' = [state |-> "answered", busy |-> busyWith] \/ noticing' = Idle
      BY <1>8 DEF noticeServed
    <2>3. FollowTyped'
      BY <2>1, <2>2, ServerNames DEF Typed, FollowTyped, Idle
    <2>4. AskedTyped'
      BY <2>1 DEF Typed, AskedTyped, requests
    <2> QED BY <2>1, <2>3, <2>4, PageStays, LabStays DEF Typed
  <1>9. CASE noticed
    <2>1. /\ UNCHANGED <<runs, page, busy, error, hasLab, wanted, opening, listing, starting,
                         labSeen, server, clicks, faults>>
          /\ noticing' = Idle
          /\ setBuilding(noticing.busy) \/ UNCHANGED <<building, polling, looks>>
      BY <1>9 DEF noticed
    <2>2. /\ noticing' \in [state : {"idle", "sent", "answered"},
                            busy : Simulations \cup {Nothing}]
          /\ noticing.busy \in Simulations \cup {Nothing}
      BY <2>1 DEF Typed, FollowTyped, Idle
    <2>3. FollowTyped' /\ looks' \subseteq SUBSET Simulations
      <3>1. CASE setBuilding(noticing.busy)
        BY <2>2, <3>1, SetBuildingTyped
      <3>2. CASE UNCHANGED <<building, polling, looks>>
        BY <2>2, <3>2 DEF Typed, FollowTyped, AskedTyped
      <3> QED BY <2>1, <3>1, <3>2
    <2>4. AskedTyped'
      BY <2>1, <2>3 DEF Typed, AskedTyped
    <2> QED BY <2>1, <2>3, <2>4, PageStays, LabStays DEF Typed
  <1>10. CASE pollServed
    <2>1. AskedTyped'
      BY <1>10 DEF pollServed, Typed, AskedTyped, requests
    <2>2. FollowTyped'
      BY <1>10 DEF pollServed, said, Typed, FollowTyped
    <2> QED BY <1>10, <2>1, <2>2, PageStays, LabStays DEF pollServed, Typed
  <1>11. CASE pulled
    <2>1. /\ UNCHANGED <<runs, page, busy, hasLab, wanted, opening, starting, noticing,
                         labSeen, server, clicks>>
          /\ faults' \in 0 .. Faults
      BY <1>11, FaultsCounted DEF pulled
    <2>2. /\ listing' \in {listing, listing \cup {manifest}} /\ error' \in BOOLEAN
          /\ \/ setBuilding(Nothing)
             \/ polling' = Polling /\ UNCHANGED <<building, looks>>
      BY <1>11 DEF pulled, Typed, AskedTyped
    <2>3. FollowTyped' /\ looks' \subseteq SUBSET Simulations
      <3>1. noticing' \in [state : {"idle", "sent", "answered"},
                           busy : Simulations \cup {Nothing}]
        BY <2>1 DEF Typed, FollowTyped
      <3>2. CASE setBuilding(Nothing)
        BY <3>1, <3>2, SetBuildingTyped
      <3>3. CASE polling' = Polling /\ UNCHANGED <<building, looks>>
        BY <3>1, <3>3 DEF Typed, FollowTyped, AskedTyped, Polling
      <3> QED BY <2>2, <3>2, <3>3
    <2>4. listing' \subseteq SUBSET Names
      BY <2>2, ServerNames DEF Typed, AskedTyped
    <2>5. AskedTyped'
      BY <2>1, <2>2, <2>3, <2>4 DEF Typed, AskedTyped
    <2> QED BY <2>1, <2>3, <2>5, PageStays, LabStays DEF Typed
  <1> QED BY <1>1, <1>2, <1>3, <1>4, <1>5, <1>6, <1>7, <1>8, <1>9, <1>10, <1>11 DEF Answers

\* The lab's side of a request, and its worker.
LEMMA ServingTyped == ASSUME Typed, Serving PROVE Typed'
  <1>1. CASE Worker
    <2>1. UNCHANGED <<runs, page, busy, error, hasLab, wanted, requests, follow,
                      labSeen, clicks, faults>>
      BY <1>1 DEF Worker
    <2>2. AskedTyped'
      BY <2>1 DEF Typed, AskedTyped, requests
    <2>3. LabTyped'
      <3>1. CASE \E failed \in BOOLEAN :
                    /\ lab.current.state = "going"
                    /\ lab' = [lab EXCEPT !.current.state = IF failed THEN "failed" ELSE "done"]
                    /\ disk' = disk \cup {lab.current.sim}
        BY <3>1 DEF Typed, LabTyped, LabRunsItsOwn
      <3>2. CASE \E sim \in lab.queue :
                    /\ lab' = [lab EXCEPT !.queue = @ \ {sim}]
                    /\ disk' = disk \cup {sim}
        BY <3>2 DEF Typed, LabTyped, LabRunsItsOwn
      <3> QED BY <1>1, <3>1, <3>2 DEF Worker, Finishes
    <2> QED BY <2>1, <2>2, <2>3, PageStays, FollowStays DEF Typed
  <1>2. CASE StartChecked
    <2>1. UNCHANGED <<runs, page, busy, error, hasLab, wanted, opening, listing,
                      looks, follow, labSeen, server, clicks, faults>>
      BY <1>2 DEF StartChecked
    <2>2. PICK s \in starting, to \in {"passed", "refused"} :
             starting' = (starting \ {s}) \cup {[s EXCEPT !.state = to]}
      BY <1>2 DEF StartChecked
    <2>3. starting' \subseteq Starting
      BY <2>2 DEF Typed, AskedTyped, Starting
    <2>4. AskedTyped'
      BY <2>1, <2>3 DEF Typed, AskedTyped
    <2> QED BY <2>1, <2>4, PageStays, FollowStays, LabStays DEF Typed
  <1>3. CASE StartSet
    <2>1. UNCHANGED <<runs, page, busy, error, hasLab, wanted, opening, listing,
                      looks, follow, labSeen, disk, clicks, faults>>
      BY <1>3 DEF StartSet
    <2>2. PICK s \in starting :
             /\ starting' = (starting \ {s}) \cup {[s EXCEPT !.state = "queued"]}
             /\ lab' = NewCurrent(s.sim)
      BY <1>3 DEF StartSet
    <2>3. starting' \subseteq Starting /\ s.sim \in Simulations
      BY <2>2 DEF Typed, AskedTyped, Starting
    <2>4. LabTyped'
      BY <2>1, <2>2, <2>3, NewCurrentTyped
    <2>5. AskedTyped'
      BY <2>1, <2>3 DEF Typed, AskedTyped
    <2> QED BY <2>1, <2>4, <2>5, PageStays, FollowStays DEF Typed
  <1> QED BY <1>1, <1>2, <1>3 DEF Serving

LEMMA InitTyped == Init => Typed
  <1> SUFFICES ASSUME Init PROVE Typed
    OBVIOUS
  <1>1. PICK a \in Addresses : entries = <<a>> /\ at = 1
    BY DEF Init
  <1>2. a \in Entry
    BY DEF Addresses, Entry, Names, VIEWS
  <1>3. PageTyped
    BY <1>1, <1>2 DEF Init, PageTyped, VIEWS
  <1>4. AskedTyped
    <2>1. 0 \in 0 .. Clicks /\ 0 \in 0 .. Faults /\ "runs" \in VIEWS
      BY ConsoleAssumption DEF VIEWS
    <2>2. opening \subseteq Opening
      BY <2>1 DEF Init, Opening
    <2>3. /\ busy \in BOOLEAN /\ error \in BOOLEAN /\ hasLab \in BOOLEAN
          /\ clicks \in 0 .. Clicks /\ faults \in 0 .. Faults
      BY <2>1 DEF Init
    <2>4. /\ runs \subseteq Names /\ wanted \in Names \cup {Nothing} /\ starting \subseteq Starting
          /\ listing \subseteq SUBSET Names /\ looks \subseteq SUBSET Simulations
          /\ labSeen = Nothing
      BY DEF Init
    <2> QED BY <2>2, <2>3, <2>4 DEF AskedTyped
  <1>5. FollowTyped
    BY DEF Init, FollowTyped, Asking, Off
  <1>6. LabTyped
    BY DEF Init, LabTyped, LabRunsItsOwn, NoBuild
  <1> QED BY <1>3, <1>4, <1>5, <1>6 DEF Typed

LEMMA StepTyped == Typed /\ [Next]_vars => Typed'
  <1> SUFFICES ASSUME Typed, [Next]_vars PROVE Typed'
    OBVIOUS
  <1>1. CASE UNCHANGED vars
    <2>1. AskedTyped'
      BY <1>1 DEF vars, requests, Typed, AskedTyped
    <2> QED BY <1>1, <2>1, PageStays, FollowStays, LabStays DEF vars, Typed
  <1> QED BY <1>1, UserTyped, AnswersTyped, ServingTyped DEF Next

\* The state of the page and of the lab keeps its types, whatever comes back and whenever.
THEOREM ConsoleTypeCorrect == Spec => []TypeOK
  <1> QED BY InitTyped, StepTyped, TypedIsTyped, PTL DEF Spec

------------------------------------------------------------------------------
\* The flag belongs to the load that is wanted, to the first open or to a file: whatever ends
\* one of those ends the loading, and nothing else takes the owner away.
LEMMA BusyStep == Typed /\ BusyHasAnOwner /\ [Next]_vars => BusyHasAnOwner'
  <1> SUFFICES ASSUME Typed, BusyHasAnOwner, [Next]_vars PROVE BusyHasAnOwner'
    OBVIOUS
  <1>1. ASSUME NEW name, NEW next, load(name, next) PROVE BusyHasAnOwner'
    <2>1. [id |-> clicks + 1, by |-> "load", name |-> name, next |-> next] \in opening'
      BY <1>1 DEF load
    <2>2. wanted' = name
      BY <1>1 DEF load
    <2> QED BY <2>1, <2>2 DEF BusyHasAnOwner
  <1>2. ASSUME UNCHANGED <<busy, opening, wanted>> PROVE BusyHasAnOwner'
    BY <1>2 DEF BusyHasAnOwner
  <1>3. ASSUME busy' = FALSE PROVE BusyHasAnOwner'
    BY <1>3 DEF BusyHasAnOwner
  <1>4. CASE open \/ openAt
    BY <1>1, <1>4 DEF open, openAt
  <1>5. CASE openDropped
    <2>1. PICK f \in Files :
             [id |-> clicks + 1, by |-> "drop", name |-> f, next |-> "overview"] \in opening'
      BY <1>5 DEF openDropped
    <2> QED BY <2>1 DEF BusyHasAnOwner
  <1>6. CASE onPop
    BY <1>1, <1>2, <1>6 DEF onPop
  <1>7. CASE go \/ filmParks \/ dismiss \/ press \/ nudge \/ otherPage
    BY <1>2, <1>7 DEF go, filmParks, dismiss, press, nudge, otherPage, requests
  \* The first manifest came: the request goes on under the name it chose.
  <1>8. CASE firstListed
    <2>1. PICK o \in opening :
             /\ o.by = "first"
             /\ \/ /\ \E name, next : opening' = (opening \ {o}) \cup
                          {[o EXCEPT !.name = name, !.next = next]}
                   /\ UNCHANGED <<busy, wanted>>
                \/ busy' = FALSE
      BY <1>8 DEF firstListed
    <2>2. CASE busy' = FALSE
      BY <1>3, <2>2
    <2>3. ASSUME NEW name, NEW next,
                 opening' = (opening \ {o}) \cup {[o EXCEPT !.name = name, !.next = next]}
          PROVE  BusyHasAnOwner'
      <3>1. o \in [id : 0 .. Clicks, by : {"first", "load", "drop"},
                   name : Names \cup {Nothing}, next : VIEWS]
        BY DEF Typed, AskedTyped, Opening
      <3>2. [o EXCEPT !.name = name, !.next = next].by = "first"
        BY <2>1, <3>1
      <3> QED BY <2>3, <3>2 DEF BusyHasAnOwner
    <2> QED BY <2>1, <2>2, <2>3
  <1>9. CASE firstOpened \/ droppedRead
    BY <1>3, <1>9 DEF firstOpened, droppedRead
  \* A load that is not wanted is not the one that owns the flag.
  <1>10. CASE loaded
    <2>1. PICK o \in opening :
             /\ o.by = "load" /\ opening' = opening \ {o}
             /\ busy' = (busy /\ wanted # o.name) /\ wanted' = wanted
      BY <1>10 DEF loaded, StillBusy
    <2>2. CASE busy /\ wanted # o.name
      <3>1. PICK p \in opening : p.by = "load" => p.name = wanted
        BY <2>2 DEF BusyHasAnOwner
      <3>2. p # o
        BY <2>1, <2>2, <3>1
      <3> QED BY <2>1, <3>1, <3>2 DEF BusyHasAnOwner
    <2>3. CASE ~(busy /\ wanted # o.name)
      BY <1>3, <2>1, <2>3
    <2> QED BY <2>2, <2>3
  <1>11. CASE reloaded \/ looked \/ started \/ noticeServed \/ noticed \/ pollServed \/ pulled
    BY <1>2, <1>11 DEF reloaded, looked, started, noticeServed, noticed, pollServed, pulled,
                       requests
  <1>12. CASE Serving
    BY <1>2, <1>12 DEF Serving, Worker, StartChecked, StartSet, requests
  <1>13. CASE UNCHANGED vars
    BY <1>2, <1>13 DEF vars, requests
  <1> QED BY <1>4, <1>5, <1>6, <1>7, <1>8, <1>9, <1>10, <1>11, <1>12, <1>13
          DEF Next, User, Answers

\* The page never says it is loading with nothing in flight that ends it, for any number of
\* opens, drops and steps Back that supersede, fail and overtake each other (load, openDropped
\* and the first effect of ConsoleProvider, each with a `finally` of its own).
THEOREM LoadingHasAnOwner == Spec => []BusyHasAnOwner
  <1>1. Init => BusyHasAnOwner
    BY DEF Init, BusyHasAnOwner
  <1> QED BY <1>1, InitTyped, StepTyped, BusyStep, PTL DEF Spec

------------------------------------------------------------------------------
\* A build is followed exactly while its log is asked for: the effect on [building] and the
\* state it is keyed on never come apart, so a build that is shown as going is one whose end
\* will be heard of, and one that is over is not asked about.
FollowedIsPolled == (building = Nothing) <=> (polling.state = "off")

LEMMA FollowedStep == Typed /\ FollowedIsPolled /\ [Next]_vars => FollowedIsPolled'
  <1> SUFFICES ASSUME Typed, FollowedIsPolled, [Next]_vars PROVE FollowedIsPolled'
    OBVIOUS
  <1>1. ASSUME UNCHANGED <<building, polling>> PROVE FollowedIsPolled'
    BY <1>1 DEF FollowedIsPolled
  <1>2. ASSUME NEW sim, setBuilding(sim) PROVE FollowedIsPolled'
    <2>1. Off.state = "off" /\ Polling.state = "sent"
      BY DEF Off, Polling
    <2>2. building' = sim /\ polling' = IF sim = Nothing THEN Off ELSE Polling
      BY <1>2 DEF setBuilding
    <2>3. CASE sim = Nothing BY <2>1, <2>2, <2>3 DEF FollowedIsPolled
    <2>4. CASE sim # Nothing BY <2>1, <2>2, <2>4 DEF FollowedIsPolled
    <2> QED BY <2>3, <2>4
  <1>3. CASE User
    BY <1>1, <1>3 DEF User, open, openAt, openDropped, go, filmParks, dismiss, onPop, press,
                      nudge, otherPage, follow
  <1>4. CASE firstListed \/ firstOpened \/ loaded \/ droppedRead \/ reloaded \/ looked
             \/ noticeServed
    BY <1>1, <1>4 DEF firstListed, firstOpened, loaded, droppedRead, reloaded, looked,
                      noticeServed, follow
  <1>5. CASE started BY <1>1, <1>2, <1>5 DEF started
  <1>6. CASE noticed BY <1>1, <1>2, <1>6 DEF noticed
  <1>7. CASE pollServed
    BY <1>7 DEF pollServed, said, Polling, FollowedIsPolled
  <1>8. CASE pulled
    <2>1. CASE polling.state = "answered" /\ polling' = Polling /\ UNCHANGED building
      BY <2>1 DEF Polling, FollowedIsPolled
    <2> QED BY <1>2, <1>8, <2>1 DEF pulled
  <1>9. CASE Serving
    BY <1>1, <1>9 DEF Serving, Worker, StartChecked, StartSet, follow
  <1>10. CASE UNCHANGED vars
    BY <1>1, <1>10 DEF vars, follow
  <1> QED BY <1>3, <1>4, <1>5, <1>6, <1>7, <1>8, <1>9, <1>10 DEF Next, Answers

\* What the liveness of a followed build (BuildingEnds) rests on, for any lab and any page.
THEOREM BuildIsFollowed == Spec => []FollowedIsPolled
  <1>1. Init => FollowedIsPolled
    BY DEF Init, FollowedIsPolled, Off
  <1> QED BY <1>1, InitTyped, StepTyped, FollowedStep, PTL DEF Spec
=============================================================================
