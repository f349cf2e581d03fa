------------------------------- MODULE Player ------------------------------
(* A run that is open in the viewer: the Overview page with the console's    *)
(* clock (components/console/Overview.tsx, Transport.tsx, components/          *)
(* Spans.tsx) and the Film page with a clock of its own (components/Film.tsx,  *)
(* components/console/FilmView.tsx, lib/record.ts).  What either page draws is *)
(* read off the trace by the operators of Frame, Spans, Ledger, Layout and     *)
(* Stage, at the instant its clock stands at.                                  *)
(*                                                                             *)
(* One page is mounted at a time.  A page that is left forgets its state; the  *)
(* address bar keeps the moment, the node, the key and the filters a link can  *)
(* carry, and the console's clock runs on.                                     *)
EXTENDS Stage, Spans, Ledger, Usage, Clock

CONSTANTS History,         \* run -> what the engine recorded of it
          Bill,            \* run -> the bill beside its trace
          Frames,          \* how many pictures a recording takes
          Boxes,           \* the sizes a stage can have, FrameBox among them
          Presses,         \* bound: how often the reader does something
          ServiceRank,     \* the order of two sets of services, by name
          NameRank         \* the order of two nodes, by name

FrameBox == <<1240, 560>>

ASSUME PlayerAssumption ==
    /\ Frames \in Nat \ {0, 1}
    /\ Boxes \subseteq Nat \X Nat /\ FrameBox \in Boxes

Runs == DOMAIN History

(* Half the stage each when two runs are up. *)
Half(box) == <<box[1] \div 2, box[2]>>

Stages    == Boxes \cup {Half(b) : b \in Boxes}

(* What opening a run computes, once (openUrl, RunIndex, SpanTree, Layout).    *)
Opened == [r \in Runs |-> Parsed(Written(History[r]))]
Index  == [r \in Runs |-> IndexOf(Opened[r])]
Tree   == [r \in Runs |-> TreeOf(Opened[r])]
Roles  == [r \in Runs |-> Columns(Opened[r], ServiceRank, NameRank)]
Plan   == [r \in Runs |-> [box \in Stages |->
              Place(Opened[r], Roles[r], Ascending(Zones(Opened[r])), box)]]
AsLong == Max({Duration(Opened[r]) : r \in Runs})

(* frameAt(), for every instant a clock can stand at. *)
FrameAt == [r \in Runs |-> [box \in Stages |-> [t \in 0 .. AsLong |->
               [vm \in NodeNames(Opened[r]) |->
                   NodeAt(Index[r], Opened[r], Plan[r][box], vm, t)]]]]

ASSUME TraceAssumption ==
    /\ IsFiniteSet(Runs)
    /\ \A r \in Runs : WellFormed(Opened[r]) /\ Duration(Opened[r]) < Forever

ASSUME RankAssumption ==
    /\ ServiceRank \in Injection(DOMAIN ServiceRank, Nat)
    /\ NameRank \in Injection(DOMAIN NameRank, Nat)
    /\ \A r \in Runs : \A m \in Range(Opened[r].nodes) :
           Range(m.serves) \in DOMAIN ServiceRank /\ m.name \in DOMAIN NameRank

ASSUME BillAssumption == \A r \in Runs : IsBill(Bill[r])

VARIABLES
    run,          \* the run that is open
    page,         \* "overview" or "film"
    clock,        \* the console's clock
    film,         \* the film's own clock, while the film is mounted
    url,          \* [t, m, show, sv, fail, method] of the address bar
    ui,           \* the film's: [pinned, hovered, held, zone, role, task, box]
    faces,        \* node -> [drawn, look, pin]: its face as it was last drawn
    against,      \* the run being compared with, or Nobody
    comparing,    \* the runs whose fetch compare() is waiting for
    recording,    \* [state, frame, shown] of the download and the stills
    spans,        \* the Spans page: [collapsed, node, slower, crit, by, selected, w0, w1]
    presses       \* bound: what the reader may still do

vars == <<run, page, clock, film, url, ui, faces, against, comparing, recording, spans, presses>>

filmVars  == <<film, ui, recording>>
tr        == Opened[run]
NoMoment  == -1
Idle      == [state |-> "idle", frame |-> 0, shown |-> FALSE]
NewUi     == [pinned |-> Nobody, hovered |-> Nobody, held |-> <<>>, zone |-> 0, role |-> 0,
              task |-> -1, box |-> FrameBox]
Nodes     == NodeNames(tr)
Keys(r)   == {k[2] : k \in DOMAIN Index[r].reveals}
Present(b) == b = TRUE

NewSpans(r) ==
    [collapsed |-> {}, node |-> Nobody, slower |-> 0, crit |-> FALSE, by |-> "method",
     selected |-> 0, w0 |-> 0, w1 |-> Duration(Opened[r])]

ClockOf(r, at) ==
    IF at = NoMoment THEN NewClock(Duration(Opened[r]))
    ELSE Seek(NewClock(Duration(Opened[r])), at)

Longest(r, other) ==
    IF other = Nobody THEN Duration(Opened[r])
    ELSE Max({Duration(Opened[r]), Duration(Opened[other])})

-----------------------------------------------------------------------------
(* What is on the stage.  A node is drawn again when its look has changed, and *)
(* keeps until then the handler it was drawn with, which knows what was pinned *)
(* at that time.                                                               *)
StageBox  == IF against = Nobody THEN ui.box ELSE Half(ui.box)
Pictured  == Plan[run][StageBox]
Dense     == Fit(Pictured, StageBox) < 400
Muted     == SetAside(tr, Roles[run], ui)
InFocus   == IF ui.pinned # Nobody THEN ui.pinned ELSE ui.hovered
Moment    == FrameAt[run][StageBox][film.d]

Portrait(m, dim, dense) ==
    [drawn |-> Face(m, url.show, dim, dense), look |-> Look(m, url.show, dim, dense),
     pin   |-> ui.pinned]

Drawing(vm) == Portrait(Moment[vm], DimNode(Muted, InFocus, vm), Dense)
Anew        == IF page = "film" THEN [vm \in Nodes |-> Drawing(vm)] ELSE <<>>

Redrawn(before, now) == IF before.look = now.look THEN before ELSE now

Painted == faces' = [vm \in DOMAIN faces |-> Redrawn(faces[vm], Drawing(vm)')]

(* The film writes where it stands when it is parked. *)
Parked(c, u, m) ==
    IF Present(c.playing) THEN u ELSE [u EXCEPT !.t = c.d, !.m = m]

(* Mounting a film: a clock as long as the longer run, put at the moment the   *)
(* address bar names, with the node and the key it names if this run has them. *)
Mount(r, other, u) ==
    LET fresh == NewClock(Longest(r, other))
        at    == IF u.t = NoMoment THEN fresh
                 ELSE Seek(fresh, Min({u.t, fresh.total}))
        m     == IF u.m \in NodeNames(Opened[r]) THEN u.m ELSE Nobody
        show  == IF u.show \in Keys(r) THEN u.show ELSE Nobody
    IN  /\ film' = at
        /\ ui' = [NewUi EXCEPT !.pinned = m]
        /\ recording' = Idle
        /\ url' = Parked(at, [u EXCEPT !.show = show], m)

Unmount ==
    /\ film' = NewClock(0)
    /\ ui' = NewUi
    /\ recording' = Idle

Init ==
    /\ run \in Runs
    /\ page \in {"overview", "film"}
    /\ clock = ClockOf(run, NoMoment)
    /\ film = NewClock(IF page = "film" THEN Longest(run, Nobody) ELSE 0)
    /\ url = [t |-> IF page = "film" THEN 0 ELSE NoMoment, m |-> Nobody, show |-> Nobody,
              sv |-> "waterfall", fail |-> FALSE, method |-> Nobody]
    /\ ui = NewUi
    /\ against = Nobody
    /\ comparing = {}
    /\ recording = Idle
    /\ spans = NewSpans(run)
    /\ faces = Anew
    /\ presses = Presses

Pressed == presses > 0 /\ presses' = presses - 1

-----------------------------------------------------------------------------
(* Going from page to page, and to another run (Back, or a file dropped).      *)

GoFilm ==
    /\ Pressed /\ page = "overview"
    /\ page' = "film"
    /\ Mount(run, Nobody, url)
    /\ spans' = NewSpans(run)
    /\ UNCHANGED <<run, clock, against, comparing>>
    /\ faces' = Anew'

GoOverview ==
    /\ Pressed /\ page = "film"
    /\ page' = "overview"
    /\ Unmount
    /\ against' = Nobody
    /\ comparing' = {}
    /\ UNCHANGED <<run, clock, url, spans>>
    /\ faces' = <<>>

(* The console's clock is rebuilt at the moment of the address bar, whichever  *)
(* run that was written for; the Spans page keeps what was collapsed and asked *)
(* for and only shows the whole length again; a film is mounted anew.          *)
OpenRun(r) ==
    /\ Pressed /\ r # run
    /\ run' = r
    /\ clock' = ClockOf(r, url.t)
    /\ IF page = "film"
       THEN Mount(r, against, url) /\ spans' = NewSpans(r)
       ELSE /\ spans' = [spans EXCEPT !.w0 = 0, !.w1 = Duration(Opened[r])]
            /\ UNCHANGED <<filmVars, url>>
    /\ UNCHANGED <<page, against, comparing>>
    /\ faces' = Anew'

-----------------------------------------------------------------------------
(* Either playbar: the same buttons, rates and keys on the clock of the page.  *)

Shown == IF page = "film" THEN film ELSE clock

Drive(c) ==
    IF page = "film"
    THEN /\ film' = c
         /\ url' = Parked(c, url, ui.pinned)
         /\ UNCHANGED clock
    ELSE clock' = c /\ UNCHANGED <<film, url>>

Others == <<run, page, ui, against, comparing, recording, spans>>

(* ] and [: the film's reach from half a millisecond on, the console's from    *)
(* one.                                                                        *)
Stops == {e.t : e \in Range(Index[run].notable)}
Beyond(now)  == IF page = "film" THEN {x \in Stops : x >= now + 1}
                                 ELSE {x \in Stops : x > now + 1}
Behind(now)  == IF page = "film" THEN {x \in Stops : x =< now - 1}
                                 ELSE {x \in Stops : x < now - 1}

Key ==
    /\ Pressed
    /\ \/ Drive(Toggle(Shown))
       \/ \E n \in {-10, -1, 1, 10} : Drive(Step(Shown, n))
       \/ Beyond(Shown.d) # {} /\ Drive(Seek(Pause(Shown), Min(Beyond(Shown.d))))
       \/ Behind(Shown.d) # {} /\ Drive(Seek(Pause(Shown), Max(Behind(Shown.d))))
       \/ \E r \in Rates : Drive(SetRate(Shown, r))
       \/ Drive(FitIn(Shown))
    /\ UNCHANGED Others
    /\ Painted

(* The scrubber of a page is as long as the run that is open; its marks are    *)
(* the events.                                                                 *)
Scrub ==
    /\ Pressed
    /\ \E t \in (0 .. Duration(tr)) \cup Stops : Drive(Seek(Pause(Shown), t))
    /\ UNCHANGED Others
    /\ Painted

(* A clock that plays moves on, whichever page is being looked at. *)
Ticks(c) == c.playing = TRUE

ConsoleTick ==
    /\ Ticks(clock)
    /\ \E n \in 1..2 : clock' = Tick(clock, n)
    /\ UNCHANGED <<film, url, faces, presses>>
    /\ UNCHANGED Others

FilmTick ==
    /\ page = "film" /\ Ticks(film)
    /\ \E n \in 1..2 : film' = Tick(film, n)
    /\ url' = Parked(film', url, ui.pinned)
    /\ UNCHANGED <<clock, presses>>
    /\ UNCHANGED Others
    /\ Painted

-----------------------------------------------------------------------------
(* The film: what is pointed at, pinned, set aside, held and compared with.    *)

Onstage == Pressed /\ page = "film"
Rest    == <<run, page, clock, film, against, comparing, recording, spans>>

Hover ==
    /\ Onstage
    /\ \E vm \in Nodes \cup {Nobody} : ui' = [ui EXCEPT !.hovered = vm]
    /\ UNCHANGED <<Rest, url>>
    /\ Painted

(* A press on a node calls the handler it was last drawn with.                 *)
Pin(vm) ==
    /\ Onstage /\ ui.hovered = vm
    /\ ui' = [ui EXCEPT !.pinned = IF faces[vm].pin = vm THEN Nobody ELSE vm]
    /\ url' = Parked(film, url, ui'.pinned)
    /\ UNCHANGED Rest
    /\ Painted

(* The buttons of the panel, which a pointer reaches when it is pinned.        *)
ClosePanel ==
    /\ Onstage /\ ui.pinned # Nobody
    /\ ui' = [ui EXCEPT !.pinned = Nobody, !.hovered = Nobody]
    /\ url' = Parked(film, url, Nobody)
    /\ UNCHANGED Rest
    /\ Painted

Nominate(key) ==
    /\ Onstage
    /\ url' = [url EXCEPT !.show = key]
    /\ UNCHANGED <<Rest, ui>>
    /\ Painted

SetFilter ==
    /\ Onstage
    /\ \/ \E zone \in Zones(tr) \cup {0} : ui' = [ui EXCEPT !.zone = zone]
       \/ \E role \in DOMAIN Roles[run] \cup {0} : ui' = [ui EXCEPT !.role = role]
       \/ \E task \in Range(Index[run].tasks) \cup {-1} : ui' = [ui EXCEPT !.task = task]
    /\ UNCHANGED <<Rest, url>>
    /\ Painted

Clear ==
    /\ Onstage
    /\ ui.zone # 0 \/ ui.role # 0 \/ ui.task # -1 \/ url.show # Nobody
    /\ ui' = [ui EXCEPT !.zone = 0, !.role = 0, !.task = -1]
    /\ url' = [url EXCEPT !.show = Nobody]
    /\ UNCHANGED Rest
    /\ Painted

(* The stage has another shape: the arrangement is searched anew.              *)
Resize(box) ==
    /\ Onstage
    /\ ui' = [ui EXCEPT !.box = box]
    /\ UNCHANGED <<Rest, url>>
    /\ Painted

HoldMessage ==
    /\ Onstage
    /\ \E f \in Flights(Index[run], film.d) :
           LET message == <<f.id, f.stage = "back">>
           IN  ui' = [ui EXCEPT !.held = IF @ = message THEN <<>> ELSE message]
    /\ UNCHANGED <<Rest, url, faces>>

Escape ==
    /\ Onstage
    /\ ui' = [ui EXCEPT !.held = <<>>, !.pinned = IF ui.held = <<>> THEN Nobody ELSE @]
    /\ url' = Parked(film, url, ui'.pinned)
    /\ UNCHANGED Rest
    /\ Painted

(* compare(): the last answer to arrive is the one that is shown, whichever    *)
(* run was picked last; the film is mounted anew for two.                      *)
Compare(other) ==
    /\ Pressed /\ page = "film" /\ other # run
    /\ comparing' = comparing \cup {other}
    /\ UNCHANGED <<run, page, clock, film, url, ui, against, recording, spans, faces>>

Remounted(other) ==
    /\ against' = other
    /\ IF against = other THEN UNCHANGED <<filmVars, url, faces>>
       ELSE Mount(run, other, url) /\ faces' = Anew'

CompareNone ==
    /\ Pressed /\ page = "film"
    /\ UNCHANGED <<run, page, clock, comparing, spans>>
    /\ Remounted(Nobody)

CompareAnswered(other) ==
    /\ other \in comparing
    /\ comparing' = comparing \ {other}
    /\ UNCHANGED <<run, page, clock, spans, presses>>
    /\ Remounted(other)

CompareFailed(other) ==
    /\ other \in comparing
    /\ comparing' = comparing \ {other}
    /\ UNCHANGED <<run, page, clock, spans, presses, against, filmVars, url, faces>>

-----------------------------------------------------------------------------
(* Saving the film, one picture after the other, on the clock that is on the   *)
(* screen; and a still.                                                        *)

MaySave == page = "film" /\ recording.state = "idle"

Download ==
    /\ Pressed /\ MaySave
    /\ film' = Pause(film)
    /\ url' = Parked(film', url, ui.pinned)
    /\ recording' = [state |-> "film", frame |-> 0, shown |-> FALSE]
    /\ UNCHANGED <<run, page, clock, ui, against, comparing, spans, faces>>

ShowFrame ==
    /\ recording.state = "film" /\ ~recording.shown
    /\ film' = Seek(film, (recording.frame * film.total) \div (Frames - 1))
    /\ url' = Parked(film', url, ui.pinned)
    /\ recording' = [recording EXCEPT !.shown = TRUE]
    /\ UNCHANGED <<run, page, clock, ui, against, comparing, spans, presses>>
    /\ Painted

(* Mutant of DrawFrame: a picture is waited for until the clock is back at it.  *)
DrawFrameInPlace ==
    /\ recording.state = "film" /\ recording.shown
    /\ film.d = (recording.frame * film.total) \div (Frames - 1)
    /\ recording' = IF recording.frame + 1 = Frames THEN Idle
                    ELSE [recording EXCEPT !.frame = @ + 1, !.shown = FALSE]
    /\ UNCHANGED <<run, page, clock, film, url, ui, against, comparing, spans, presses, faces>>

DrawFrame ==
    /\ recording.state = "film" /\ recording.shown
    /\ recording' = IF recording.frame + 1 = Frames THEN Idle
                    ELSE [recording EXCEPT !.frame = @ + 1, !.shown = FALSE]
    /\ UNCHANGED <<run, page, clock, film, url, ui, against, comparing, spans, presses, faces>>

Still ==
    /\ Pressed /\ MaySave
    /\ recording' = [Idle EXCEPT !.state = "still"]
    /\ UNCHANGED <<run, page, clock, film, url, ui, against, comparing, spans, faces>>

StillSaved ==
    /\ recording.state = "still"
    /\ recording' = Idle
    /\ UNCHANGED <<run, page, clock, film, url, ui, against, comparing, spans, presses, faces>>

(* No codec, a picture that cannot be drawn, no room: the buttons stay as they *)
(* were while it was being saved.                                              *)
SaveFails ==
    /\ recording.state \in {"film", "still"}
    /\ recording' = [Idle EXCEPT !.state = "failed"]
    /\ UNCHANGED <<run, page, clock, film, url, ui, against, comparing, spans, presses, faces>>

-----------------------------------------------------------------------------
(* The Spans page.                                                             *)

Asks == <<run, page, clock, film, ui, against, comparing, recording>>
OnSpans == page = "overview" /\ Pressed

(* The filter, and the rows of the waterfall. *)
Asked == spans.node # Nobody \/ url.method # Nobody \/ url.fail \/ spans.slower > 0 \/ spans.crit

Keeps(i) ==
    LET s == Tree[run].span[i]
    IN  \/ ~Asked
        \/ /\ spans.node # Nobody => spans.node \in {s.vm, s.to}
           /\ url.method # Nobody => s.label = url.method
           /\ url.fail => ~s.ok
           /\ Lasts(Tree[run], i) >= spans.slower
           /\ spans.crit => i \in Critical(Tree[run])

RowsShown == Rows(Tree[run], spans.collapsed, {i \in Drawable(Tree[run]) : Keeps(i)})

Collapse(i) ==
    /\ OnSpans /\ url.sv = "waterfall"
    /\ i \in Range(RowsShown) /\ Tree[run].kids[i] # <<>>
    /\ spans' = [spans EXCEPT !.collapsed = IF i \in @ THEN @ \ {i} ELSE @ \cup {i}]
    /\ UNCHANGED <<Asks, url, faces>>

Filter ==
    /\ OnSpans
    /\ \/ /\ url.sv # "rollup"
          /\ \/ \E vm \in Nodes \cup {Nobody} : spans' = [spans EXCEPT !.node = vm]
             \/ \E least \in {0, 3} : spans' = [spans EXCEPT !.slower = least]
             \/ spans' = [spans EXCEPT !.crit = ~@]
          /\ UNCHANGED url
       \/ /\ url.sv = "rollup"
          /\ \E by \in {"method", "node", "zone", "task"} : spans' = [spans EXCEPT !.by = by]
          /\ UNCHANGED url
       \/ /\ url.sv # "rollup"
          /\ \/ url' = [url EXCEPT !.fail = ~@]
             \/ \E q \in {s.label : s \in SpanSet(tr)} \cup {Nobody} : url' = [url EXCEPT !.method = q]
          /\ UNCHANGED spans
       \/ /\ \E v \in {"waterfall", "swimlanes", "rollup"} : url' = [url EXCEPT !.sv = v]
          /\ UNCHANGED spans
    /\ UNCHANGED <<Asks, faces>>

(* A press on a bar selects it, or no longer, and moves the clock to where it  *)
(* begins; two presses between the bars move it to where they are.             *)
Bars == IF url.sv = "waterfall" THEN Range(RowsShown)
        ELSE IF url.sv = "swimlanes" THEN UNION {Range(Lane(Tree[run], vm)) : vm \in Nodes}
        ELSE {}

Select(i) ==
    /\ OnSpans /\ i \in Bars
    /\ spans' = [spans EXCEPT !.selected = IF @ = i THEN 0 ELSE i]
    /\ clock' = Seek(Pause(clock), Tree[run].span[i].t0)
    /\ UNCHANGED <<run, page, film, url, ui, against, comparing, recording, faces>>

DoubleClick(at) ==
    /\ OnSpans /\ url.sv = "waterfall" /\ at \in spans.w0 .. spans.w1
    /\ clock' = Seek(Pause(clock), at)
    /\ UNCHANGED <<run, page, film, url, ui, against, comparing, recording, spans, faces>>

Long == Duration(tr)

(* Mutant of ZoomTo: as narrow as it comes. *)
ZoomAnywhere(a, b) == [spans EXCEPT !.w0 = a, !.w1 = b]

(* Zoom about the cursor, by half or to double; too narrow is refused.         *)
ZoomTo(a, b) ==
    IF 5000 * (b - a) > Long THEN [spans EXCEPT !.w0 = a, !.w1 = b] ELSE spans

Zoom(at) ==
    /\ OnSpans /\ at \in spans.w0 .. spans.w1
    /\ \/ spans' = ZoomTo(at - (at - spans.w0) \div 2, at + (spans.w1 - at) \div 2)
       \/ spans' = ZoomTo(Max({0, at - 2 * (at - spans.w0)}), Min({Long, at + 2 * (spans.w1 - at)}))
    /\ UNCHANGED <<Asks, url, faces>>

(* Pan by up to half of what is shown. *)
Pan ==
    /\ OnSpans
    /\ \E by \in {-1, 1} :
           LET on == by * ((spans.w1 - spans.w0) \div 2)
           IN  spans' = [spans EXCEPT !.w0 = Max({0, @ + on}), !.w1 = Min({Long, @ + on})]
    /\ UNCHANGED <<Asks, url, faces>>

ShowAll ==
    /\ OnSpans /\ (spans.w0 > 0 \/ spans.w1 < Long)
    /\ spans' = [spans EXCEPT !.w0 = 0, !.w1 = Long]
    /\ UNCHANGED <<Asks, url, faces>>

-----------------------------------------------------------------------------
Next ==
    \/ GoFilm \/ GoOverview
    \/ \E r \in Runs : OpenRun(r) \/ Compare(r) \/ CompareAnswered(r) \/ CompareFailed(r)
    \/ CompareNone
    \/ Key \/ Scrub \/ ConsoleTick \/ FilmTick
    \/ Hover
    \/ \E vm \in Nodes : Pin(vm)
    \/ ClosePanel
    \/ \E key \in {Nobody} \cup UNION {Keys(r) : r \in {run, against} \cap Runs} : Nominate(key)
    \/ SetFilter \/ Clear
    \/ \E box \in Boxes : Resize(box)
    \/ HoldMessage \/ Escape
    \/ Download \/ ShowFrame \/ DrawFrame \/ Still \/ StillSaved \/ SaveFails
    \/ \E i \in DOMAIN Tree[run].span : Collapse(i) \/ Select(i)
    \/ Filter
    \/ \E at \in 0 .. Long : Zoom(at) \/ DoubleClick(at)
    \/ Pan \/ ShowAll

Spec == Init /\ [][Next]_vars

(* The browser paints what is being recorded. *)
FairSpec == Spec /\ WF_vars(ShowFrame) /\ WF_vars(DrawFrame) /\ WF_vars(StillSaved)
-----------------------------------------------------------------------------
TypeOK ==
    /\ run \in Runs /\ page \in {"overview", "film"}
    /\ clock.d \in 0 .. clock.total /\ film.d \in 0 .. film.total
    /\ url.t \in -1 .. Max({Duration(Opened[r]) : r \in Runs})
    /\ against \in Runs \cup {Nobody} /\ comparing \subseteq Runs
    /\ ui.pinned \in Nodes \cup {Nobody} /\ ui.box \in Boxes
    /\ DOMAIN faces = IF page = "film" THEN Nodes ELSE {}
    /\ recording.frame \in 0 .. Frames - 1
    /\ 0 <= spans.w0 /\ spans.w0 < spans.w1 /\ spans.w1 <= Duration(tr)

(* The next four are about what a page reads off a trace: facts of a run and   *)
(* an instant or a stage, computed for all of them once and asked for those    *)
(* that are being looked at.                                                   *)

(* The index answers what a scan of the whole trace would, wherever either     *)
(* clock stands: the spans it draws, and of every node the value that is newest *)
(* by its instant - of those of one instant, the one noted down last - which    *)
(* is what the sort of frame.ts:239-242 is for.  It is not always the last that *)
(* the file has: IndexIsRevealedAt.                                            *)
NewestOf(r, vm, key, t) ==
    LET events  == Opened[r].events
        said(u) == {i \in DOMAIN events :
                      /\ events[i].kind = "state" /\ IsReveal(events[i].value)
                      /\ events[i].vm = vm /\ events[i].key = key /\ events[i].t = u}
        last == {u \in 0 .. t : said(u) # {}}
    IN  IF last = {} THEN Nobody ELSE events[Max(said(Max(last)))].value

IndexIsTheScan(r, t) ==
    /\ Drawn(Index[r], t) = SpansAt(Opened[r], t, "rpc") \cup SpansAt(Opened[r], t, "handler")
    /\ \A vm \in NodeNames(Opened[r]), key \in Keys(r) :
           RevealedOf(Index[r], vm, key, t) = NewestOf(r, vm, key, t)

(* Every point of a chart but the one it ends with is a reading, at the        *)
(* instant it was taken, and the value it ends with is one the node really had, *)
(* less than a stride of samples ago - in a run short enough to be drawn whole,  *)
(* the one it has now; in a longer one it need not be (ChartsHoldWhatIsNow).   *)
(* What is drawn stays at or below the ruler, but for a disk: a machine counts *)
(* the write it refuses (Machine.wroteDisk), and the ruler ends at 100.        *)
ChartsAreTheReadings(r, now) ==
    LET of       == Opened[r]
        n        == Len(of.times)
        since(i) == {j \in DOMAIN of.times : of.times[i] < of.times[j] /\ of.times[j] <= now}
        read     == {i \in DOMAIN of.times :
                        of.times[i] <= now /\ Cardinality(since(i)) < Stride(n)}
    IN  \A vm \in NodeNames(of), metric \in have(of) :
            LET pts == upTo(whole(of, vm, metric), now)
            IN  /\ \A k \in 1 .. Len(pts) - 1 : \E i \in DOMAIN of.times :
                       pts[k] = <<of.times[i], Series(of, vm, metric, i)>>
                /\ read # {} => Last(pts)[2] \in {Series(of, vm, metric, i) : i \in read}
                /\ n <= CAP => pts = <<>> \/ Last(pts)[2] = Channel(of, vm, metric, now)
                /\ \A p \in Range(pts) :
                       p[1] <= now /\ (metric # "diskPct" => p[2] <= tops(of, metric))

ReadsTheTrace == [r \in Runs |-> [t \in 0 .. AsLong |->
                     IndexIsTheScan(r, t) /\ ChartsAreTheReadings(r, t)]]

EveryPageReadsTheTrace == ReadsTheTrace[run][Shown.d]

(* Usage.tsx:73, of what a chart draws: "The part of it that has happened, plus *)
(* the value it is holding right now."                                         *)
ChartsHoldWhatIsNow ==
    \A vm \in NodeNames(tr), metric \in have(tr) :
        LET pts == upTo(whole(tr, vm, metric), Shown.d)
        IN  pts = <<>> \/ Last(pts)[2] = Channel(tr, vm, metric, Shown.d)

(* stops.ts:180-183 holds the index to Trace.revealedAt(), the scan of every   *)
(* event: "Everything the slow way found is on the picture, with the same      *)
(* value" (stops.ts:231).                                                      *)
IndexIsRevealedAt ==
    \A vm \in Nodes, key \in Keys(run) :
        RevealedOf(Index[run], vm, key, Shown.d) = RevealedAt(tr, vm, key, Shown.d)

(* No two nodes of a picture cover one another, and every node lies in the     *)
(* band of its zone, above the band of the next one.                           *)
Apart(plan, x, y) ==
    LET size == plan.size
        p    == plan.at[x]
        q    == plan.at[y]
        gap(k) == IF p[k] > q[k] THEN p[k] - q[k] ELSE q[k] - p[k]
    IN  \E k \in {1, 2} : 2 * gap(k) >= size[x][k] + size[y][k]

Legible(r, plan) ==
    LET bands == plan.bands
        zones == Ascending(Zones(Opened[r]))
        names == NodeNames(Opened[r])
    IN  /\ \A x, y \in names : x # y => Apart(plan, x, y)
        /\ \A z \in DOMAIN zones, vm \in names : NodeOf(Opened[r], vm).zone = zones[z] =>
               LET half == plan.size[vm][2] \div 2
                   y    == plan.at[vm][2]
               IN  y + half <= bands[z][1] /\ y - half >= bands[z][2]
        /\ \A z \in DOMAIN zones \ {1} : bands[z][1] <= bands[z - 1][2]

LegibleOn == [r \in Runs |-> {box \in Stages : Legible(r, Plan[r][box])}]

ThePictureIsLegible == StageBox \in LegibleOn[run]

(* However calls overlap and whatever outlives its caller: the own times of a  *)
(* span and of everything under it account for all of the time it was open;    *)
(* gathered by whatever key, the own times are divided up exactly once; and at *)
(* every instant of a call that was answered it was doing one thing, which     *)
(* lies within its bar if the handler that answered it does.                   *)
Under(tree, i) == {k \in Drawable(tree) : i \in tree.up[k]}
OwnTime(tree, set) == SumFunction([k \in set |-> SelfMs(tree, k)])

DividedOnce(r, by) ==
    LET tree == Tree[r]
        key  == [i \in Drawable(tree) |-> KeyOf(Opened[r], tree, Index[r].tasks, by, i)]
        gathered == Rollup(tree, key)
    IN  SumFunction([k \in DOMAIN gathered |-> gathered[k].self])
            + OwnTime(tree, {i \in Drawable(tree) : key[i] = <<>>}) = OwnTime(tree, Drawable(tree))

PartsTile(tree, i) ==
    LET parts     == Segments(tree, i)
        within(p) == tree.span[i].t0 <= p[2] /\ p[2] <= tree.end[i] /\ p[3] <= tree.end[i]
        answered  == {p \in parts : p[1] = "working"}
    IN  answered # {} =>
            /\ \A t \in tree.span[i].t0 .. tree.end[i] - 1 :
                   Cardinality({p \in parts : p[2] <= t /\ t < p[3]}) = 1
            /\ (\A p \in answered : within(p)) => \A p \in parts : within(p)

Accounted ==
    {r \in Runs :
        /\ \A i \in Drawable(Tree[r]) : /\ OwnTime(Tree[r], Under(Tree[r], i)) >= Lasts(Tree[r], i)
                                        /\ PartsTile(Tree[r], i)
        /\ \A by \in {"method", "node", "zone", "task"} : DividedOnce(r, by)}

TimeIsAccountedFor == run \in Accounted

(* spans.ts:41-42, of the parts of a call: "they are measured by subtraction   *)
(* rather than by matching up events, so they sum to the bar exactly".         *)
PartsSumToTheBar ==
    \A i \in Drawable(Tree[run]) :
        LET parts == Segments(Tree[run], i)
        IN  (\E p \in parts : p[1] = "working") =>
                SumFunction([p \in parts |-> p[3] - p[2]]) = Lasts(Tree[run], i)

(* The Cost page: however the money is cut, its parts are all of what has been *)
(* spent, and the nodes are never answerable for more than that between them.  *)
AddsUp == [r \in Runs |-> [t \in 0 .. AsLong |-> \A dim \in DIMS :
              LET parts == Cut(Opened[r], Bill[r], dim, t)
              IN  SumFunction(parts) = Cost(Opened[r], Bill[r], t)]]

EveryCutAddsUp == AddsUp[run][Shown.d]

(* A message goes out, is worked on, comes back and is gone: while the film    *)
(* runs on, none turns round or is on the wire a second time, and no line of   *)
(* the bill takes money back.                                                  *)
OnlyForward ==
    \A s \in {o \in SpanSet(tr) : o.kind = "rpc"} :
        Journey(Index[run], s, film.d) <= Journey(Index[run], s, film'.d)

BillOnlyGrows ==
    LET bill == Bill[run]
    IN  /\ \A k \in DOMAIN bill.lines :
               SoFar(tr, bill, bill.lines[k], film.d) <= SoFar(tr, bill, bill.lines[k], film'.d)
        /\ \A k \in DOMAIN bill.counted :
               CountShape(tr, bill, bill.counted[k], film.d)
                   <= CountShape(tr, bill, bill.counted[k], film'.d)

RunsForward == [][(FilmTick /\ against = Nobody) => (OnlyForward /\ BillOnlyGrows)]_vars

(* A download comes to its end whatever the reader does to the clock.          *)
SavingEnds == (recording.state \in {"film", "still"}) ~> (recording.state \in {"idle", "failed"})

(* Dataflow.tsx: a node that is not drawn again looks as if it had been: what   *)
(* its face shows is what the frame says, whatever was dragged, filtered,      *)
(* compared or played since, to the words of its headroom and the number of    *)
(* slots that are lit, which are compared in coarser steps than they are drawn *)
(* in.  Two colours do lag behind: see the next two.                           *)
Told(face) == [part \in DOMAIN face \ {"colours", "alarmed"} |-> face[part]]

FacesAreFresh == \A vm \in DOMAIN faces : Told(faces[vm].drawn) = Told(Drawing(vm).drawn)

(* Dataflow.tsx:751, of a comparison that leaves a node as it was drawn: "Has  *)
(* this node's *appearance* changed?"  A lit slot has the colour of the task   *)
(* that is in it.                                                              *)
SlotsAreFresh == \A vm \in DOMAIN faces : faces[vm].drawn.colours = Drawing(vm).drawn.colours

(* design.ts:84: "WARN_AT = 0.75; // of cap. Below this a node is simply       *)
(* holding things."  From there on what is left is written in alarm.           *)
AlarmIsFresh == \A vm \in DOMAIN faces : faces[vm].drawn.alarmed = Drawing(vm).drawn.alarmed

(* Film.tsx:441, of a press on a node: "Clicking the one already pinned closes *)
(* it".                                                                        *)
PressClosesIt ==
    [][\A vm \in Nodes : (ui.pinned = vm /\ Pin(vm)) => ui'.pinned = Nobody]_vars

=============================================================================
