------------------------------- MODULE Stage -------------------------------
(* How the film draws a frame (src/viewer/components/Dataflow.tsx): the face  *)
(* of every node and what makes React draw it again, the messages on the      *)
(* wire, and what the filters set aside.                                      *)
EXTENDS Frame, Layout

(* frameAt(): a node at an instant. *)
NodeAt(ix, tr, plan, vm, t) ==
    LET used == Channel(tr, vm, "diskMb", t)
        cap  == ix.diskCap[vm]
    IN  [name |-> vm, place |-> plan.at[vm], size |-> plan.size[vm],
         state |-> StateOf(tr, vm, t), used |-> used, cap |-> cap, free |-> Max({0, cap - used}),
         busy |-> Channel(tr, vm, "busyPct", t), queued |-> Channel(tr, vm, "queued", t),
         work |-> WorkOf(ix, vm, t), serves |-> NodeOf(tr, vm).serves,
         vcpu |-> NodeOf(tr, vm).vcpu, instance |-> NodeOf(tr, vm).instance,
         revealed |-> [key \in {k[2] : k \in {r \in DOMAIN ix.reveals : r[1] = vm}} |->
                          RevealedOf(ix, vm, key, t)]]

(* Above WARN_AT of its disk a node says what is left in the colour of alarm. *)
Warned(m) == 4 * m.used >= 3 * m.cap

(* mb(): a size, in as few digits as say which one it is.                      *)
mb(v) ==
    CASE v >= 1024000 -> <<Nearest(v, 10240), "tenths of GB">>
      [] v >= 102400 /\ v < 1024000 -> <<Nearest(v, 1024), "hundredths of GB">>
      [] v >= 10000 /\ v < 102400 -> <<Nearest(v, 100), "MB">>
      [] v >= 1000 /\ v < 10000 -> <<Nearest(v, 10), "tenths of MB">>
      [] v < 1000 -> <<v, "hundredths of MB">>

(* The slots under a node (Lanes): as many as it has virtual CPUs, up to eight, *)
(* those of them that are lit, and the task whose colour a lit one has.        *)
Slots(m) == Max({1, Min({m.vcpu, 8})})
Lit(m)   == {i \in 1 .. Slots(m) : i <= Nearest(Slots(m) * m.busy, 100 * Percent)}

TaskIn(m, i) ==
    IF m.work = <<>> THEN 0 ELSE Max({0, m.work[((i - 1) % Len(m.work)) + 1].task})

(* What a face shows: what it is working on or else its name, its state, the  *)
(* nominated value - none, not yet, or the value -, the services and the type *)
(* unless it is dense, its slots and what waits for one, and the room left on *)
(* its disk with the colour it is written in.                                 *)
Face(m, show, dim, dense) ==
    [title     |-> IF m.work = <<>> THEN <<m.name>>
                   ELSE <<m.work[1].method, m.work[1].task, Len(m.work) - 1>>,
     place     |-> m.place,
     size      |-> m.size,
     dashed    |-> m.state \in {"dead", "frozen"},
     struck    |-> m.state = "dead",
     hatched   |-> m.state = "degraded",
     nominated |-> IF show \in DOMAIN m.revealed THEN <<m.revealed[show]>> ELSE <<>>,
     labels    |-> IF dense THEN <<>> ELSE <<m.serves, m.instance>>,
     slots     |-> Slots(m),
     lit       |-> Lit(m),
     colours   |-> [i \in Lit(m) |-> TaskIn(m, i)],
     waiting   |-> IF m.queued > 0 THEN <<m.queued>> ELSE <<>>,
     headroom  |-> IF m.cap > 0 THEN <<mb(m.free)>> ELSE <<>>,
     alarmed   |-> m.cap > 0 /\ Warned(m),
     dim       |-> dim]

Bucket(m)    == IF m.cap = 0 THEN 0 ELSE Nearest(24 * Min({m.used, m.cap}), m.cap)
Label(m)     == IF m.work = <<>> THEN <<>>
                 ELSE <<Len(m.work), m.work[1].method, m.work[1].task>>

(* Mutant of Look: where a node stands is not compared. *)
LookAnywhere(m, show, dim, dense) ==
    <<m.size, m.state, Bucket(m), Nearest(m.busy, 12 * Percent), m.queued, Label(m), mb(m.free),
      m.revealed, show, dim, dense>>

(* same(), and what memo compares beside it: as long as none of this changes  *)
(* a node is not drawn again.                                                 *)
Look(m, show, dim, dense) ==
    <<m.place, m.size, m.state, Bucket(m), Nearest(m.busy, 12 * Percent), m.queued, Label(m), mb(m.free),
      m.revealed, show, dim, dense>>

-----------------------------------------------------------------------------
(* What the filters set aside, and what the pointer does. *)
SetAside(tr, columns, chosen) ==
    {vm \in NodeNames(tr) :
        \/ chosen.zone # 0 /\ NodeOf(tr, vm).zone # chosen.zone
        \/ chosen.role # 0 /\ vm \notin Range(columns[chosen.role])}

DimNode(muted, shown, vm) == vm \in muted \/ (shown # Nobody /\ shown # vm)

(* A message: from where to where, on which wire, whether it is shown to      *)
(* arrive, the mark where it died, and whether it is the one being followed.  *)
Packet(tr, f, muted, shown, task) ==
    [from  |-> IF f.stage = "back" THEN f.to ELSE f.from,
     to    |-> IF f.stage = "back" THEN f.from ELSE f.to,
     zones |-> NodeOf(tr, f.from).zone # NodeOf(tr, f.to).zone,
     arrow |-> ~f.lost,
     died  |-> f.stage = "dying",
     alarm |-> f.failed,
     dim   |-> \/ {f.from, f.to} \cap muted # {}
               \/ shown # Nobody /\ shown \notin {f.from, f.to}
               \/ task # -1 /\ f.task # task]
=============================================================================
