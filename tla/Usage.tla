-------------------------------- MODULE Usage -------------------------------
(* The charts of the Usage page (components/console/Usage.tsx): every series  *)
(* whole, thinned to what a path can carry, and the part of it that has        *)
(* happened.  A chart is a sequence of points <<t, value>>.                    *)
EXTENDS Trace

CONSTANT CAP               \* at most so many points of a series, and the last

ASSUME CapAssumption == CAP \in Nat \ {0}

METRICS == {"busyPct", "bytesOutMb", "inflight", "queued", "diskPct"}

(* The metrics a trace has of any node. *)
have(tr) == {c[2] : c \in DOMAIN tr.channels} \cap METRICS

Stride(n) == Max({1, (n + CAP - 1) \div CAP})

whole(tr, vm, metric) ==
    LET n    == Len(tr.times)
        kept == {i \in 1..n : (i - 1) % Stride(n) = 0}
        at   == Ascending(IF n = 0 THEN {} ELSE kept \cup {n})
    IN  [k \in DOMAIN at |-> <<tr.times[at[k]], Series(tr, vm, metric, at[k])>>]

(* The part that has happened, and the value it holds now; before the first    *)
(* sample, the first.                                                          *)
upTo(pts, now) ==
    LET k == Cardinality({i \in DOMAIN pts : pts[i][1] <= now})
    IN  SubSeq(pts, 1, k) \o
        (IF pts = <<>> \/ k = Len(pts) THEN <<>>
         ELSE IF k > 0 THEN << <<now, pts[k][2]>> >>
         ELSE << <<Min({now, pts[1][1]}), pts[1][2]>> >>)

(* The axis top of a metric: a share's is all there is, the others have the    *)
(* whole run's.                                                                *)
tops(tr, metric) ==
    IF metric \in {"busyPct", "diskPct"} THEN 100 * Percent
    ELSE Max({0} \cup UNION {{p[2] : p \in Range(whole(tr, vm, metric))} : vm \in NodeNames(tr)})
=============================================================================
