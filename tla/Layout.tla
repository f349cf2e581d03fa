------------------------------ MODULE Layout -------------------------------
(* Where the film draws every node (src/viewer/lib/layout.ts): roles are     *)
(* columns, zones are bands, and the depth a cell is stacked to is the one    *)
(* that fills the frame best.  Lengths are in hundredths of a drawing unit;   *)
(* a drawing is not centred here, which moves every node by the same amount.  *)
EXTENDS Trace

NODE_W == 205
NODE_H == 102

(* sizeOf(): a node against the median of its cluster, between SIZE_MIN and   *)
(* SIZE_MAX; here a node is smaller than, as large as or larger than it.      *)
Scaled(value, middle, normal) ==
    IF value = 0 \/ middle = 0 \/ value = middle THEN normal
    ELSE IF value < middle THEN (normal * 37) \div 50
    ELSE (normal * 3) \div 2

Median(seq, none) ==
    LET known == SortSeq(SelectSeq(seq, LAMBDA v : v # 0), <)
    IN  IF known = <<>> THEN none ELSE known[Len(known) \div 2 + 1]

Sizes(tr) ==
    LET memory == Median([k \in DOMAIN tr.nodes |-> tr.nodes[k].cap], 1)
        cores  == Median([k \in DOMAIN tr.nodes |-> tr.nodes[k].vcpu], 2)
    IN  [vm \in NodeNames(tr) |->
            <<Scaled(NodeOf(tr, vm).cap, memory, NODE_W),
              Scaled(NodeOf(tr, vm).vcpu, cores, NODE_H)>>]

-----------------------------------------------------------------------------
(* Columns. *)

(* When each node was first spoken to, where it was. *)
CallsTo(tr, vm) == {s.t0 : s \in {o \in SpanSet(tr) : o.kind = "rpc" /\ o.to = vm}}
FirstCall(tr, vm) == IF CallsTo(tr, vm) = {} THEN 0 ELSE Min(CallsTo(tr, vm))

(* Where the system is entered: the node that served Run, or the one the      *)
(* trace names, or every node nobody called.                                  *)
Drivers(tr) ==
    LET entry == IF HasRoot(tr) /\ Root(tr)[1].vm # Nobody THEN Root(tr)[1].vm ELSE tr.entry
        named == Where(tr.nodes, LAMBDA m : m.name = entry)
        uncalled == Where(tr.nodes, LAMBDA m : CallsTo(tr, m.name) = {})
        at == Ascending(IF named # {} THEN named ELSE uncalled)
    IN  [k \in DOMAIN at |-> tr.nodes[at[k]].name]

Offers(tr, vm) == Range(NodeOf(tr, vm).serves)

(* When a role was at work on average, as a fraction; Infinity for never.     *)
Working(tr, role) ==
    LET at == {s \in SpanSet(tr) : s.kind = "handler" /\ s.vm \in role}
    IN  [n |-> Cardinality(at), sum |-> SumFunctionOnSet([s \in at |-> s.t0], at)]

Earlier(a, b) == \/ a.n > 0 /\ b.n = 0
                 \/ a.n > 0 /\ b.n > 0 /\ a.sum * b.n < b.sum * a.n

(* A role is the nodes that offer the same; of two that were at work equally  *)
(* early the order is that of what they offer.                                *)
RolesOf(tr, nodes) == {{o \in nodes : Offers(tr, o) = Offers(tr, vm)} : vm \in nodes}

RoleOrder(tr, rank, roles) ==
    LET offer(role) == rank[Offers(tr, CHOOSE vm \in role : TRUE)]
    IN  {p \in roles \X roles :
            \/ Earlier(Working(tr, p[1]), Working(tr, p[2]))
            \/ /\ ~Earlier(Working(tr, p[2]), Working(tr, p[1]))
               /\ offer(p[1]) < offer(p[2])}

(* Of the nodes of a role the first is who was called first, then by name.    *)
CallOrder(tr, rank, role) ==
    {p \in role \X role :
        \/ FirstCall(tr, p[1]) < FirstCall(tr, p[2])
        \/ FirstCall(tr, p[1]) = FirstCall(tr, p[2]) /\ rank[p[1]] < rank[p[2]]}

(* A column for each role, in their order, behind that of the drivers.         *)
ByRole(tr, nameRank, ranked) ==
    [k \in DOMAIN ranked |-> InOrder(ranked[k], CallOrder(tr, nameRank, ranked[k]))]

RolesInOrder(tr, serviceRank, roles) == InOrder(roles, RoleOrder(tr, serviceRank, roles))

InColumns(tr, serviceRank, nameRank, drivers) ==
    (IF drivers = <<>> THEN <<>> ELSE <<drivers>>)
    \o ByRole(tr, nameRank,
           RolesInOrder(tr, serviceRank, RolesOf(tr, NodeNames(tr) \ Range(drivers))))

Columns(tr, serviceRank, nameRank) == InColumns(tr, serviceRank, nameRank, Drivers(tr))

-----------------------------------------------------------------------------
(* One arrangement, its cells stacked depth deep. *)

Large(tr) == Len(tr.nodes) > 13
PAD       == 16
Below(tr) == IF Large(tr) THEN 51 ELSE 73
Above(tr) == IF Large(tr) THEN 14 ELSE 34
Aside(tr) == IF Large(tr) THEN 22 ELSE 34
GapX(tr)  == Aside(tr) + 80
GapY(tr)  == Above(tr) + 30

Zones(tr) == {m.zone : m \in Range(tr.nodes)}

(* The nodes of a column that are in a zone, in their order. *)
Cell(tr, column, zone) ==
    LET at == Ascending(Where(column, LAMBDA vm : NodeOf(tr, vm).zone = zone))
    IN  [k \in DOMAIN at |-> column[at[k]]]

(* Mutant of CeilDiv: a remainder gets no column of its own. *)
FloorDiv(a, b) == a \div b

CeilDiv(a, b) == (a + b - 1) \div b

(* How many sub-columns a role needs: its fullest zone decides. *)
Subs(tr, column, depth) ==
    Max({1} \cup {CeilDiv(Len(Cell(tr, column, z)), depth) : z \in Zones(tr)})

WidthOf(size, column) ==
    IF column = <<>> THEN NODE_W ELSE Max({size[vm][1] : vm \in Range(column)})

(* Where a column starts, and where the first one that is not drawn would.    *)
StartOf(tr, size, columns, depth, i) ==
    LET span(j) == Subs(tr, columns[j], depth) * (WidthOf(size, columns[j]) + GapX(tr))
    IN  SumFunctionOnSet([j \in DOMAIN columns |-> span(j)], 1..(i - 1))

RowsUsed(tr, columns, zone, depth) ==
    Max({1} \cup {Min({depth, Len(Cell(tr, columns[i], zone))}) : i \in DOMAIN columns})

Pitch(tr, size, zone) ==
    LET here == {m.name : m \in {o \in Range(tr.nodes) : o.zone = zone}}
    IN  (IF here = {} THEN NODE_H ELSE Max({size[vm][2] : vm \in here})) + GapY(tr)

BandHeight(tr, size, columns, zone, depth) ==
    RowsUsed(tr, columns, zone, depth) * Pitch(tr, size, zone) - GapY(tr)
    + Below(tr) + Above(tr) + 2 * PAD

(* The plan of one depth: every node's middle, every zone's band [top, bottom]*)
(* with y growing upward, and how large the drawing is.                       *)
Arrange(tr, size, columns, zones, depth) ==
    LET height  == [z \in DOMAIN zones |-> BandHeight(tr, size, columns, zones[z], depth)]
        top(z)  == 0 - SumFunctionOnSet(height, 1..(z - 1))
        indexIn(seq, vm) == CHOOSE k \in DOMAIN seq : seq[k] = vm
        place(vm) ==
            LET i    == CHOOSE c \in DOMAIN columns : vm \in Range(columns[c])
                zone == NodeOf(tr, vm).zone
                z    == indexIn(zones, zone)
                k    == indexIn(Cell(tr, columns[i], zone), vm) - 1
                w    == WidthOf(size, columns[i])
                col  == Min({k \div depth, Subs(tr, columns[i], depth) - 1})
            IN  <<StartOf(tr, size, columns, depth, i) + w \div 2 + col * (w + GapX(tr)),
                  top(z) - PAD - Above(tr) - (k % depth) * Pitch(tr, size, zone)
                         - size[vm][2] \div 2>>
    IN  [at     |-> [vm \in NodeNames(tr) |-> place(vm)],
         size   |-> size,
         bands  |-> [z \in DOMAIN zones |-> <<top(z), top(z) - height[z]>>],
         width  |-> Max({1, StartOf(tr, size, columns, depth, Len(columns) + 1) - GapX(tr)}),
         height |-> Max({1, 0 - top(Len(zones) + 1)})]

(* How well a plan fills the frame, in thousandths; scaleFor is this, bounded  *)
(* above.                                                                      *)
Fit(plan, frame) ==
    Min({(frame[1] * 1000) \div (plan.width + 90), (frame[2] * 1000) \div (plan.height + 70)})

(* place(): the depth that fills the frame best, the shallower of two equals. *)
Best(plans, frame) ==
    LET fit(d) == Fit(plans[d], frame)
    IN  plans[CHOOSE d \in DOMAIN plans : \A e \in DOMAIN plans :
                  fit(e) < fit(d) \/ (fit(e) = fit(d) /\ d <= e)]

Place(tr, columns, zones, frame) ==
    LET deepest == Max({1} \cup {Len(Cell(tr, columns[i], z)) :
                                   i \in DOMAIN columns, z \in Zones(tr)})
    IN  Best([d \in 1..deepest |-> Arrange(tr, Sizes(tr), columns, zones, d)], frame)
=============================================================================
