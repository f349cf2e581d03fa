------------------------------- MODULE Spans -------------------------------
(* The tree of the spans of a trace (src/viewer/lib/spans.ts): who called     *)
(* whom, how long each was at work itself, what a call was doing part by      *)
(* part, and the rows, lanes and sums the Spans page draws from it.           *)
EXTENDS Trace

(* The spans by their ids.                                                    *)
ById(tr) ==
    LET ids == {s.id : s \in SpanSet(tr)}
    IN  [i \in ids |-> CHOOSE s \in SpanSet(tr) : s.id = i]

(* The children of each in the order they began.  Span 0 is the parent of the *)
(* roots; a span whose parent is not in the trace is in no list.              *)
KidsOf(span) ==
    LET ids   == DOMAIN span
        order == {p \in ids \X ids : Before(span[p[1]], span[p[2]])}
    IN  [i \in ids \cup {0} |-> InOrder({c \in ids : span[c].parent = i}, order)]

(* The ancestors of each and itself, as far up as the trace goes.             *)
UpFrom(span) ==
    LET up[i \in DOMAIN span \cup {0}] ==
            IF i = 0 THEN {}
            ELSE IF span[i].parent \in DOMAIN span \cup {0} THEN {i} \cup up[span[i].parent]
            ELSE {i}
    IN  up

(* Each and all that is under it, in the order of the waterfall.              *)
WalkFrom(kids) ==
    LET walk[i \in DOMAIN kids] ==
            <<i>> \o FlattenSeq([k \in DOMAIN kids[i] |-> walk[kids[i][k]]])
    IN  walk

(* A tree is [span, kids, up, end, flat]: besides these, where a span is drawn *)
(* to end, and the rows of the waterfall, which are all that is under span 0.  *)
TreeOf(tr) ==
    LET span == ById(tr)
        kids == KidsOf(span)
    IN  [span |-> span,
         kids |-> kids,
         up   |-> UpFrom(span),
         end  |-> [i \in DOMAIN span |-> IF span[i].t1 < 0 THEN Duration(tr) ELSE span[i].t1],
         flat |-> Tail(WalkFrom(kids)[0])]

Drawable(tree) == Range(tree.flat)
Lasts(tree, i) == tree.end[i] - tree.span[i].t0

(* Mutant of Union: a gap between two is covered as well. *)
GapsToo(tree, list) ==
    IF list = <<>> THEN 0
    ELSE Max({tree.end[c] : c \in Range(list)}) - tree.span[list[1]].t0

(* union(): how much wall clock a list of spans in the order they began       *)
(* covers, overlap counted once.                                              *)
Union(tree, list) ==
    LET begin(k) == tree.span[list[k]].t0
        end(k)   == tree.end[list[k]]
        swept[k \in DOMAIN list] ==
            IF k = 1 THEN [total |-> 0, start |-> begin(k), end |-> end(k)]
            ELSE IF begin(k) > swept[k - 1].end
            THEN [total |-> swept[k - 1].total + swept[k - 1].end - swept[k - 1].start,
                  start |-> begin(k), end |-> end(k)]
            ELSE [swept[k - 1] EXCEPT !.end = Max({@, end(k)})]
        all == swept[Len(list)]
    IN  IF list = <<>> THEN 0 ELSE all.total + all.end - all.start

(* Its own time: what its children do not cover. *)
SelfMs(tree, i) == Max({0, Lasts(tree, i) - Union(tree, tree.kids[i])})

(* The critical path: from DISSALy's own call, or without one from the root   *)
(* that ends last, always the child that ends last (the first of them).       *)
LastOf(tree, list) ==
    SelectInSeq(list, LAMBDA c : \A d \in Range(list) : tree.end[d] <= tree.end[c])

Critical(tree) ==
    LET roots == tree.kids[0]
        named == SelectSeq(roots, LAMBDA r : tree.span[r].label = RUN)
        head  == IF named # <<>> THEN named[1] ELSE roots[LastOf(tree, roots)]
        next(i) == tree.kids[i][LastOf(tree, tree.kids[i])]
        path[i \in Drawable(tree)] ==
            {i} \cup (IF tree.kids[i] = <<>> THEN {} ELSE path[next(i)])
    IN  IF roots = <<>> THEN {} ELSE path[head]

(* rows(): a filter keeps a span and its ancestors, a collapsed span hides    *)
(* what is under it.                                                          *)
Rows(tree, collapsed, kept) ==
    LET visible == UNION {tree.up[i] : i \in kept}
    IN  SelectSeq(tree.flat, LAMBDA i :
            i \in visible /\ (tree.up[i] \ {i}) \cap collapsed = {})

(* lanes(): a call that has something under it is drawn by what answered it. *)
Lane(tree, vm) ==
    SelectSeq(tree.flat, LAMBDA i :
        /\ tree.span[i].vm = vm
        /\ ~(tree.span[i].kind = "rpc" /\ tree.kids[i] # <<>>))

(* What a span is gathered under: nothing for DISSALy's own call, which is a   *)
(* bracket over the time of others.  A handler works on the task of its call.  *)
TaskOf(tree, tasks, i) ==
    LET above == tree.span[i].parent
    IN  IF i \in DOMAIN tasks THEN tasks[i]
        ELSE IF above \in DOMAIN tasks THEN tasks[above] ELSE -1

KeyOf(tr, tree, tasks, by, i) ==
    LET s == tree.span[i]
    IN  IF s.label = RUN THEN <<>>
        ELSE CASE by = "method" -> <<s.label>>
               [] by = "node"   -> <<s.vm>>
               [] by = "zone"   -> <<NodeOf(tr, s.vm).zone>>
               [] OTHER         -> <<TaskOf(tree, tasks, i)>>

(* rollup(): time, own time, calls and failures, by key.                      *)
Rollup(tree, by) ==
    LET of(k) == {i \in Drawable(tree) : by[i] = k}
    IN  [k \in {by[i] : i \in Drawable(tree)} \ {<<>>} |->
            [total  |-> SumFunction([i \in of(k) |-> Lasts(tree, i)]),
             self   |-> SumFunction([i \in of(k) |-> SelfMs(tree, i)]),
             calls  |-> Cardinality(of(k)),
             failed |-> Cardinality({i \in of(k) : ~tree.span[i].ok})]]

-----------------------------------------------------------------------------
(* segmentsOf(): what a call was doing, by subtraction, as <<part, t0, t1>>. *)
Segments(tree, i) ==
    LET s        == tree.span[i]
        t1       == tree.end[i]
        handlers == Where(tree.kids[i], LAMBDA c : tree.span[c].kind = "handler")
        h        == tree.kids[i][Min(handlers)]
        h0       == tree.span[h].t0
        h1       == tree.end[h]
        leg      == Max({0, Min({s.net \div 2, h0 - s.t0})})
    IN  IF s.kind # "rpc" THEN {}
        ELSE IF handlers = {}
             THEN IF s.net > 0 THEN {<<"out", s.t0, Min({t1, s.t0 + s.net \div 2})>>} ELSE {}
        ELSE {<<"working", h0, h1>>}
             \cup (IF leg > 0 THEN {<<"out", s.t0, s.t0 + leg>>} ELSE {})
             \cup (IF h0 > s.t0 + leg THEN {<<"queue", s.t0 + leg, h0>>} ELSE {})
             \cup (IF t1 > h1 THEN {<<"back", h1, t1>>} ELSE {})
=============================================================================
