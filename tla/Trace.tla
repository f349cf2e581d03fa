------------------------------- MODULE Trace -------------------------------
(* The trace as the viewer reads it (src/viewer/lib/trace.ts), and what the  *)
(* engine wrote into the file it is read from (Telemetry.encode, Trace.json, *)
(* Values.render).  A trace is a record                                       *)
(*   nodes     sequence of [name, zone, serves, cap, vcpu, instance, disk,    *)
(*             crossed]                                                     *)
(*   spans     sequence of [id, parent, vm, to, kind, label, t0, t1, net,     *)
(*             task, lost, ok, arg, result]; t1 = Open while nothing closed it*)
(*   events    sequence of [kind, t, vm, key, value]                          *)
(*   times     the instants of the samples                                    *)
(*   channels  <<vm, metric>> -> the values, one per sample                   *)
(*   job       meta.durationRefMs;  entry  meta.entry                         *)
(* Times are whole reference milliseconds; the amounts of a disk and of bytes  *)
(* are in hundredths of a megabyte and percentages in tenths of a per cent,    *)
(* which is what Telemetry.quantise keeps of them.                             *)
EXTENDS Integers, Sequences, FiniteSets, SequencesExt, FiniteSetsExt, Functions

CONSTANT MaxEntries        \* how many entries of a collection the trace keeps

ASSUME MaxEntriesAssumption == MaxEntries \in Nat \ {0}

Open   == -1
Nobody == "-"              \* spanTo() of a span that is not addressed, an empty vm
RUN    == "dissaly.Job.Run"
Percent == 10              \* a per cent, as a series holds it

(* A quotient, to the nearest whole. *)
Nearest(n, d) == (2 * n + d) \div (2 * d)

(* A finite set in an order, which is a set of pairs: the k-th is the one that *)
(* k - 1 others come before.                                                  *)
InOrder(S, order) ==
    [k \in 1 .. Cardinality(S) |->
        CHOOSE x \in S : Cardinality({y \in S : <<y, x>> \in order}) = k - 1]

Ascending(S) == InOrder(S, {p \in S \X S : p[1] < p[2]})

(* The indices of what satisfies a test: what a filter keeps. *)
Where(seq, Test(_)) == {i \in DOMAIN seq : Test(seq[i])}

-----------------------------------------------------------------------------
(* Series: the three forms of the file.                                      *)

(* A stretch of equal values, as [value, count]. *)
RunsOf(v) ==
    LET starts == {i \in DOMAIN v : i = 1 \/ v[i] # v[i - 1]}
        at     == Ascending(starts)
        next(k) == IF k = Len(at) THEN Len(v) + 1 ELSE at[k + 1]
    IN  [k \in DOMAIN at |-> <<v[at[k]], next(k) - at[k]>>]

Shortest(v, runs) ==
    IF Len(runs) = 1 THEN [form |-> "constant", value |-> v[1], ticks |-> Len(v)]
    ELSE IF Len(runs) * 14 < Len(v) * 7 THEN [form |-> "runs", runs |-> runs]
    ELSE [form |-> "raw", raw |-> v]

Encode(v) ==
    IF v = <<>> THEN [form |-> "constant", value |-> 0, ticks |-> 0]
    ELSE Shortest(v, RunsOf(v))

Decode(ch) ==
    CASE ch.form = "constant" -> [i \in 1..ch.ticks |-> ch.value]
      [] ch.form = "runs"     -> FlattenSeq([k \in DOMAIN ch.runs |->
                                    [i \in 1..ch.runs[k][2] |-> ch.runs[k][1]]])
      [] OTHER                -> ch.raw

-----------------------------------------------------------------------------
(* Payloads.  A payload is a set of fields; a field that holds a collection   *)
(* is [of, size]: what its entries are and how many there are.  What the file *)
(* keeps of it is [of, kept, more]: kept entries and the "+n more" behind     *)
(* them.                                                                      *)

Kinds == {"pairs", "messages", "words"}

Render(field) ==
    [of   |-> field.of,
     kept |-> IF field.size <= MaxEntries THEN field.size ELSE MaxEntries,
     more |-> IF field.size <= MaxEntries THEN 0 ELSE field.size - MaxEntries]

(* entries(): a string in a list is taken for the marker, so of a list of     *)
(* words only the marker counts; of everything else what was kept counts too. *)
Total(written) ==
    (IF written.of = "words" THEN 0 ELSE written.kept) + written.more

(* weigh(): the largest collection of a message, by its total. *)
Weigh(payload) == Max({0} \cup {Total(f) : f \in payload})

-----------------------------------------------------------------------------
(* The file, and the trace read back from it.                                *)

Written(h) ==
    [h EXCEPT !.channels = [c \in DOMAIN h.channels |-> Encode(h.channels[c])],
              !.spans    = [i \in DOMAIN h.spans |->
                  [h.spans[i] EXCEPT !.arg = {Render(f) : f \in @},
                                     !.result = {Render(f) : f \in @}]]]

Parsed(file) ==
    [file EXCEPT !.channels = [c \in DOMAIN file.channels |-> Decode(file.channels[c])]]

-----------------------------------------------------------------------------
SpanSet(tr)  == Range(tr.spans)
NodeNames(tr) == {m.name : m \in Range(tr.nodes)}
NodeOf(tr, name) == CHOOSE m \in Range(tr.nodes) : m.name = name

Duration(tr) ==
    Max({1, tr.job} \cup {s.t1 : s \in SpanSet(tr)}
                    \cup {e.t : e \in Range(tr.events)}
                    \cup (IF tr.times = <<>> THEN {} ELSE {Last(tr.times)}))

BilledRefMs(tr) == Max({1, tr.job})

(* The first handler in the file that serves DISSALy's own call. *)
Root(tr) ==
    SelectSeq(tr.spans, LAMBDA s : s.kind = "handler" /\ s.label = RUN)

HasRoot(tr) == Root(tr) # <<>>

LiveAt(s, t) == s.t0 <= t /\ (s.t1 >= 0 => t <= s.t1)

SpansAt(tr, t, kind) == {s \in SpanSet(tr) : s.kind = kind /\ LiveAt(s, t)}

(* One node's one number at an instant, held between samples. *)
Channel(tr, vm, metric, t) ==
    LET c == <<vm, metric>>
        v == tr.channels[c]
        before == {i \in DOMAIN tr.times : tr.times[i] <= t}
    IN  IF c \notin DOMAIN tr.channels \/ tr.times = <<>> THEN 0
        ELSE IF v = <<>> THEN 0
        ELSE IF before = {} THEN v[1]
        ELSE v[Min({Max(before), Len(v)})]

(* The value of a series at its i-th sample: the last one where it is short,  *)
(* nothing where it is missing.                                               *)
Series(tr, vm, metric, i) ==
    IF <<vm, metric>> \notin DOMAIN tr.channels THEN 0
    ELSE LET v == tr.channels[<<vm, metric>>]
         IN  IF v = <<>> THEN 0 ELSE v[Min({i, Len(v)})]

(* What the file says in its own order: the last word on a key up to t. *)
RevealedAt(tr, vm, key, t) ==
    LET said == SelectSeq(tr.events, LAMBDA e :
                    e.kind = "state" /\ e.t <= t /\ e.vm = vm /\ e.key = key)
    IN  IF said = <<>> THEN Nobody ELSE Last(said).value

-----------------------------------------------------------------------------
(* What an engine's file is, once it is read back: lists, nodes of different  *)
(* names, spans that are numbered from 1 on in the order they were opened in,  *)
(* each after the one it is under (Telemetry.openUnder), whole instants from   *)
(* the beginning of the run on, a span that is over after it began, samples    *)
(* one after the other, and series of numbers: the bytes that have left are    *)
(* counted up (Machine.bytesOut), busyPct is the share of the virtual CPUs of  *)
(* a type of the catalogue that is in use and is cut off at a hundred          *)
(* (Machine.sample), and none but the two that are of the handlers using a     *)
(* core, of which finish() may take back one that onHalfClose() never counted  *)
(* (ServerSide), are below nought.                                             *)
IsList(s) == Len(s) \in Nat /\ s = [i \in 1 .. Len(s) |-> s[i]]

SIGNED == {"inflight", "busyPct"}

VCPUS == {1, 2, 4, 8, 16}  \* of the types of the catalogue

(* What busyPct can be on so many virtual CPUs. *)
BusyShare(vcpu, x) == x < 0 \/ \E k \in 0 .. vcpu : x = Nearest(100 * Percent * k, vcpu)

Measured(metric, v) ==
    /\ IsList(v) /\ \A i \in DOMAIN v : v[i] \in Int
    /\ metric \notin SIGNED => \A i \in DOMAIN v : v[i] >= 0
    /\ metric = "bytesOutMb" => \A i, j \in DOMAIN v : i < j => v[i] <= v[j]
    /\ metric = "busyPct" => \A i \in DOMAIN v : v[i] <= 100 * Percent

WellFormed(tr) ==
    /\ IsList(tr.nodes) /\ IsList(tr.spans) /\ IsList(tr.events) /\ IsList(tr.times)
    /\ \A j, k \in DOMAIN tr.nodes : tr.nodes[j].name = tr.nodes[k].name => j = k
    /\ \A m \in Range(tr.nodes) : /\ IsList(m.serves) /\ m.zone \in Nat \ {0}
                                 /\ m.disk \in Nat /\ m.crossed \in Nat /\ m.vcpu \in VCPUS
    /\ tr.job \in Nat
    /\ \A s \in SpanSet(tr) : s.id \in Nat \ {0} /\ s.parent \in Nat /\ s.parent < s.id
    /\ \A s \in SpanSet(tr) : s.t0 \in Nat /\ s.t1 \in Nat \cup {Open}
                            /\ (s.t1 # Open => s.t0 <= s.t1) /\ s.net \in Nat
    /\ \A e \in Range(tr.events) : e.t \in Nat
    /\ \A i \in DOMAIN tr.times : tr.times[i] \in Nat
    /\ \A i, j \in DOMAIN tr.times : i < j => tr.times[i] < tr.times[j]
    /\ \A c \in DOMAIN tr.channels : Measured(c[2], tr.channels[c])
    /\ \A m \in Range(tr.nodes) : <<m.name, "busyPct">> \in DOMAIN tr.channels =>
           LET v == tr.channels[<<m.name, "busyPct">>]
           IN  \A i \in DOMAIN v : BusyShare(m.vcpu, v[i])

-----------------------------------------------------------------------------
(* Which unit of work a call belongs to: what its payload says (task >= 0),   *)
(* or how many calls without a task of their own come before it under the     *)
(* same parent.                                                               *)
Before(a, b) ==
    \/ a.t0 < b.t0
    \/ a.t0 = b.t0 /\ a.id < b.id

Tasks(tr) ==
    LET rpcs == {s \in SpanSet(tr) : s.kind = "rpc"}
        silent(s) == {o \in rpcs : o.parent = s.parent /\ o.task < 0 /\ Before(o, s)}
    IN  [i \in {s.id : s \in rpcs} |->
            LET s == CHOOSE o \in rpcs : o.id = i
            IN  IF s.task >= 0 THEN s.task ELSE Cardinality(silent(s))]
=============================================================================
