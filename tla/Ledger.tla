------------------------------- MODULE Ledger ------------------------------
(* The bill of a run, as it stands while the film runs                        *)
(* (src/viewer/lib/ledger.ts): the shape every line accrues in, the counts    *)
(* beside the money, and which node is answerable for what; and the cuts of    *)
(* it that the Cost page shows (components/console/Cost.tsx).                  *)
(*                                                                            *)
(* A bill is [lines, counted, minimum, sla]: lines are [bucket, of, what,     *)
(* amount] with what in {"node", "egress", "storage", "build", "unknown"} as  *)
(* classify() tells them apart and of the node a reservation is for; counted  *)
(* are [what, quantity].  A shape is in parts of Whole.                       *)
EXTENDS Trace

Whole == 1200

Clamp(part) == Max({0, Min({Whole, part})})
Share(t, of) == Clamp((Whole * t) \div of)

BUCKETS == {"build", "capacity", "consumption"}

(* classify(): a bucket this viewer does not know is of no known kind. *)
Classify(line) ==
    CASE line.bucket = "capacity"    -> "node"
      [] line.bucket = "consumption" -> IF line.what = "storage" THEN "storage" ELSE "egress"
      [] line.bucket = "build"       -> "build"
      [] OTHER                       -> "unknown"

-----------------------------------------------------------------------------
(* Series, over the whole cluster. *)

Level(tr, metric, i) ==
    SumFunction([vm \in NodeNames(tr) |-> Series(tr, vm, metric, i)])

(* Twice the area under the series up to its i-th sample. *)
Area(tr, metric, i) ==
    SumFunction([k \in 2..i |-> (Level(tr, metric, k) + Level(tr, metric, k - 1))
                                * (tr.times[k] - tr.times[k - 1])])

(* sampleAt(), as a share of the last value: straight between two samples,    *)
(* flat before the first and after the last; what ends at nothing is divided  *)
(* by one.                                                                    *)
Follow(tr, value, t) ==
    LET n    == Len(tr.times)
        end  == IF value[n] = 0 THEN 1 ELSE value[n]
        lo   == Max({i \in 1..n : tr.times[i] <= t})
        gap  == tr.times[lo + 1] - tr.times[lo]
    IN  IF n = 0 THEN 0
        ELSE IF t <= tr.times[1] THEN Clamp((Whole * value[1]) \div end)
        ELSE IF t >= tr.times[n] THEN Clamp((Whole * value[n]) \div end)
        ELSE Clamp((Whole * (value[lo] * gap + (value[lo + 1] - value[lo]) * (t - tr.times[lo])))
                   \div (gap * end))

Cumulative(tr, t) == Follow(tr, [i \in DOMAIN tr.times |-> Level(tr, "bytesOutMb", i)], t)
Integral(tr, t)   == Follow(tr, [i \in DOMAIN tr.times |-> Area(tr, "diskMb", i)], t)

(* The bytes that have left, or a straight line where no series follows them. *)
Egress(tr, t) ==
    IF Cumulative(tr, Duration(tr)) > 0 THEN Cumulative(tr, t) ELSE Share(t, Duration(tr))

-----------------------------------------------------------------------------
(* How much of a line has arrived by t. *)
Shape(tr, bill, line, t) ==
    LET kind   == Classify(line)
        billed == Max({bill.minimum, BilledRefMs(tr)})
    IN  CASE kind = "node"    -> Share(Max({bill.minimum, t}), billed)
          [] kind = "egress"  -> Egress(tr, t)
          [] kind = "storage" -> Integral(tr, t)
          [] OTHER            -> Share(t, Duration(tr))

SoFar(tr, bill, line, t) == (line.amount * Shape(tr, bill, line, t)) \div Whole

(* COUNTS, and how much of a counted line had happened by t. *)
Counts == [timeouts |-> {"rpc_timeout"}, lost |-> {"kill", "spot_notice"},
           filled |-> {"oom", "disk_full"}]

CountShape(tr, bill, what, t) ==
    LET over == BilledRefMs(tr) - bill.sla
        seen == {i \in DOMAIN tr.events : tr.events[i].kind \in Counts[what]}
    IN  CASE what = "late"    -> IF over <= 0 THEN Whole ELSE Clamp((Whole * (t - bill.sla)) \div over)
          [] what = "traffic" -> Egress(tr, t)
          [] what = "unknown" -> Share(t, Duration(tr))
          [] OTHER -> IF seen = {} THEN Whole
                      ELSE (Whole * Cardinality({i \in seen : tr.events[i].t <= t}))
                               \div Cardinality(seen)

-----------------------------------------------------------------------------
(* Who is answerable, in parts of Whole: a node for its reservation, the      *)
(* nodes for the bytes each sent across zones, the one that held the most     *)
(* disk for the storage, and for a service everyone that offers it.           *)
(* Mutant of WorstDisk: everyone that held anything. *)
AnyDisk(tr) == {m.name : m \in {o \in Range(tr.nodes) : o.disk > 0}}

WorstDisk(tr) ==
    LET held(k)  == tr.nodes[k].disk
        worst    == {k \in DOMAIN tr.nodes : held(k) > 0 /\
                        \A j \in DOMAIN tr.nodes : held(j) < held(k) \/ (held(j) = held(k) /\ j >= k)}
    IN  {tr.nodes[k].name : k \in worst}

OfferedBy(tr, service) == {k \in DOMAIN tr.nodes : service \in Range(tr.nodes[k].serves)}
Services(tr) == UNION {Range(m.serves) : m \in Range(tr.nodes)}

Blame(tr, line, vm) ==
    LET kind    == Classify(line)
        node    == NodeOf(tr, vm)
        crossed == SumFunction([k \in DOMAIN tr.nodes |-> tr.nodes[k].crossed])
        count   == Max({1, Cardinality(Services(tr))})
    IN  CASE kind = "node"    -> IF line.of = vm THEN Whole ELSE 0
          [] kind = "egress"  -> IF crossed = 0 THEN 0 ELSE (Whole * node.crossed) \div crossed
          [] kind = "storage" -> IF vm \in WorstDisk(tr) THEN Whole ELSE 0
          [] kind = "build"   -> SumFunction([s \in Range(node.serves) |->
                                     Whole \div (Cardinality(OfferedBy(tr, s)) * count)])
          [] OTHER            -> 0

(* A bill charges, and never pays anything back. *)
IsBill(bill) ==
    /\ IsList(bill.lines) /\ IsList(bill.counted)
    /\ bill.minimum \in Nat /\ bill.sla \in Nat
    /\ \A i \in DOMAIN bill.lines : bill.lines[i].amount \in Nat

(* at(): the money so far, of everyone and of the node being pointed at; what *)
(* is in a bucket this viewer does not know is left out.                      *)
Known(bill) == {i \in DOMAIN bill.lines : bill.lines[i].bucket \in BUCKETS}

Cost(tr, bill, t) == SumFunction([i \in Known(bill) |-> SoFar(tr, bill, bill.lines[i], t)])

Mine(tr, bill, t, vm) ==
    SumFunction([i \in Known(bill) |->
        (SoFar(tr, bill, bill.lines[i], t) * Blame(tr, bill.lines[i], vm)) \div Whole])

-----------------------------------------------------------------------------
(* cut(): the money so far by bucket, or by what the nodes that are            *)
(* answerable for it have in common; what is nobody's is under <<>>.           *)
DIMS == {"bucket", "node", "zone", "instance"}

KindOf(m, dim) ==
    <<CASE dim = "node" -> m.name [] dim = "zone" -> m.zone [] OTHER -> m.instance>>

ByBucket(tr, bill, t) ==
    [b \in BUCKETS |-> SumFunction([i \in {k \in Known(bill) : bill.lines[k].bucket = b} |->
                                       SoFar(tr, bill, bill.lines[i], t)])]

ByNodes(tr, bill, dim, t) ==
    LET mine    == [k \in DOMAIN tr.nodes |-> Mine(tr, bill, t, tr.nodes[k].name)]
        of      == [k \in DOMAIN tr.nodes |-> KindOf(tr.nodes[k], dim)]
        paying  == {k \in DOMAIN tr.nodes : mine[k] > 0}
        rest    == Cost(tr, bill, t) - SumFunctionOnSet(mine, paying)
        kinds   == {of[k] : k \in paying} \cup (IF rest > 0 THEN {<<>>} ELSE {})
    IN  [kind \in kinds |->
            IF kind = <<>> THEN rest
            ELSE SumFunctionOnSet(mine, {k \in paying : of[k] = kind})]

Cut(tr, bill, dim, t) ==
    IF dim = "bucket" THEN ByBucket(tr, bill, t) ELSE ByNodes(tr, bill, dim, t)
=============================================================================
