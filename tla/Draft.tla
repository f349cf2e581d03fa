-------------------------------- MODULE Draft --------------------------------
(***************************************************************************)
(* A simulation as the authoring form holds it (viewer/lib/author.ts), the  *)
(* file toYaml writes of it, and what the lab makes of that file: what the  *)
(* loader refuses and the machines it deals out (dissaly/sim/Loader.java),  *)
(* and the draft it is read back into (dissaly/cli/Draft.java).             *)
(*                                                                         *)
(* A file is its parsed tree: a key that is not written is Nothing.  A name *)
(* is a word and the numbers put behind it, so that a prefix and a number   *)
(* make the name they make in the code: w and 0 make <<"w", <<0>>>>.        *)
(* Numbers are small and unrounded.                                         *)
(***************************************************************************)
EXTENDS Naturals, Sequences, FiniteSets, SequencesExt, FiniteSetsExt

CONSTANTS
    Nothing,    \* null, and a key that is not in the file
    services,   \* the palette: what the code offers, in order
    instances,  \* the instance types, in order
    regions,    \* the regions, in order, with their continents and zones
    Codes       \* the gRPC status codes the loader knows

JOB == "dissaly.Job"

FAILURE_KINDS == <<"kill", "freeze", "degrade", "restart", "spotReclaim", "partition", "heal">>
PAIRED   == {"partition", "heal"}
RATEABLE == {"kill", "freeze", "degrade"}
RPC_FAILURE_KINDS == <<"status", "slow", "drop">>
NETS == {"sameZone", "crossZone", "jitter", "loss"}

------------------------------------------------------------------------------
\* What a draft is, and the file beside it: the same records, in which what a key
\* need not say may be Nothing.  Pools have as many nodes as one of counts.

\* Any text.  The words the form writes by itself are named because a prover does
\* not know of any string that it is in STRING.
Text == STRING \cup {"", "item", "data", "authored", "entry", "workers", "pool"}
Name == Text \X Seq(Nat)
noName == <<"", <<>>>>
Opt(S) == {Nothing} \cup S

Status == Codes \cup {"OK", ""}

AFailure == [kind : ToSet(FAILURE_KINDS), at : Nat, per : Nat, other : Name, for : Nat,
             factor : Nat, notice : Nat, restartAfter : Nat]
FailureEntry == [kind : ToSet(FAILURE_KINDS), at : Opt(Nat), per : Opt(Nat), other : Opt(Name),
                 for : Opt(Nat), factor : Opt(Nat), notice : Opt(Nat), restartAfter : Opt(Nat)]

ARpcFailure == [rpc : Text, kind : ToSet(RPC_FAILURE_KINDS), perCalls : Nat,
                status : Status, factor : Nat]
RpcFailureEntry == [rpc : Text, kind : ToSet(RPC_FAILURE_KINDS), per : Nat,
                    status : Opt(Status), factor : Opt(Nat)]

RunsWith(failures) == [service : Text, file : Text, failures : Seq(failures)]

OverrideWith(failures) == [node : Name, instance : Opt(Text), zone : Opt(Text),
                           memoryMb : Opt(Nat), diskMb : Opt(Nat), failures : failures]
AnOverride    == OverrideWith(Seq(AFailure))
OverrideEntry == OverrideWith(Opt(Seq(FailureEntry)))

someZones == Seq(Text) \ {<<>>}

APool(counts) ==
    [name : Name, count : counts, prefix : Name, instance : Text, zones : someZones,
     runs : Seq(RunsWith(ARpcFailure)), failures : Seq(AFailure),
     memoryMb : Opt(Nat), diskMb : Opt(Nat), overrides : Seq(AnOverride)]
PoolEntry(counts) ==
    [name : Name, count : Opt(counts), prefix : Opt(Name), instance : Text,
     zone : Opt(someZones), runs : Seq(RunsWith(RpcFailureEntry)), failures : Seq(FailureEntry),
     memoryMb : Opt(Nat), diskMb : Opt(Nat), overrides : Seq(OverrideEntry)]

RetryWith(multiplier) == [method : Text \X Text, attempts : Nat, backoff : Nat,
                          multiplier : multiplier, unsafe : BOOLEAN]
Price == [runs : Text, rpc : Text, fixed : Nat, perUnit : Nat]
InputWith(source) == [source : source, unit : Text, count : Nat]

\* Loss is a probability.
Net(numbers) == {n \in [NETS -> numbers] : n["loss"] \in Opt(0 .. 1)}

ADraft(counts) ==
    [name : Text, scale : Nat \ {0}, net : Net(Nat),
     pools : Seq(APool(counts)) \ {<<>>}, retries : Seq(RetryWith(Nat)),
     simulatedDuration : SUBSET Price, input : InputWith(Text)]
AFile(counts) ==
    [scale : Opt(Nat \ {0}), net : Net(Opt(Nat)),
     nodes : Seq(PoolEntry(counts)), retries : Seq(RetryWith(Opt(Nat))),
     simulatedDuration : SUBSET Price, input : InputWith(Opt(Text))]

\* The palette: what the code offers, of which an entry is whatever serves JOB.
AService == [file : Text, service : Text, entry : BOOLEAN,
             rpcs : Seq([name : Text, idempotent : BOOLEAN])]

ASSUME PaletteAssumption ==
    /\ services \in Seq(AService)
    /\ \A k \in DOMAIN services : services[k].entry = (services[k].service = JOB)
    /\ instances \in Seq([name : Text, perHour : Nat]) \ {<<>>}
    /\ regions \in Seq([name : Text, continent : Text, zones : someZones]) \ {<<>>}
    /\ "UNAVAILABLE" \in Codes

\* Nothing is not anything that can be said.
ASSUME NothingAssumption ==
    /\ Nothing \notin Nat /\ Nothing \notin Text /\ Nothing \notin Status
    /\ Nothing \notin Name /\ Nothing \notin someZones /\ Nothing \notin Seq(FailureEntry)
    /\ Nothing \notin AnOverride /\ Nothing \notin OverrideEntry

------------------------------------------------------------------------------
\* What is looked up.

first(s, Test(_)) == LET at == SelectInSeq(s, Test) IN IF at = 0 THEN Nothing ELSE s[at]

service(file) == first(services, LAMBDA s : s.file = file)

filesOf(draft) == {r.file : r \in UNION {ToSet(p.runs) : p \in ToSet(draft.pools)}}

------------------------------------------------------------------------------
\* The nodes a draft would produce, as the form says them.

\* A name with a number behind it.
follow(name, n) == <<name[1], Append(name[2], n)>>

numbered(p) == p.count > 1 \/ p.prefix # p.name

\* Mutant of nodeNames: the nodes of a pool counted from one.
nodeNamesFromOne(p) == [i \in 1 .. p.count |->
                          IF numbered(p) THEN follow(p.prefix, i) ELSE p.name]

nodeNames(p) == [i \in 1 .. p.count |->
                    IF numbered(p) THEN follow(p.prefix, i - 1) ELSE p.name]

dealt(zones, i) == zones[((i - 1) % Len(zones)) + 1]

nodesOf(p) ==
    [i \in 1 .. p.count |->
        LET name == nodeNames(p)[i]
            over == first(p.overrides, LAMBDA o : o.node = name) IN
        [name     |-> name,
         instance |-> IF over # Nothing /\ over.instance # Nothing THEN over.instance
                      ELSE p.instance,
         zone     |-> IF over # Nothing /\ over.zone # Nothing THEN over.zone
                      ELSE dealt(p.zones, i)]]

nodes(draft) == FlattenSeq([i \in DOMAIN draft.pools |-> nodesOf(draft.pools[i])])

regionOf(zone) ==
    LET r == first(regions, LAMBDA x : zone \in ToSet(x.zones)) IN
    IF r = Nothing THEN zone ELSE r.name

continentOf(region) ==
    LET r == first(regions, LAMBDA x : x.name = region) IN
    IF r = Nothing THEN Nothing ELSE r.continent

linkOf(a, b) ==
    LET ra == regionOf(a)  rb == regionOf(b) IN
    CASE a = b -> "same zone"
      [] a # b /\ ra = rb -> "same region"
      [] OTHER -> IF continentOf(ra) # Nothing /\ continentOf(ra) = continentOf(rb)
                  THEN "same continent" ELSE "across an ocean"

\* How many pairs of nodes are at each distance.
distances(ms) ==
    [link \in {"same zone", "same region", "same continent", "across an ocean"} |->
        Cardinality({ij \in (DOMAIN ms) \X (DOMAIN ms) :
            ij[1] < ij[2] /\ linkOf(ms[ij[1]].zone, ms[ij[2]].zone) = link})]

\* The catalogue's price of the nodes, an hour.
perHour(ms) == FoldSeq(LAMBDA m, total : total +
                   (LET i == first(instances, LAMBDA x : x.name = m.instance) IN
                    IF i = Nothing THEN 0 ELSE i.perHour), 0, ms)

unplaced(draft) == SelectSeq(services, LAMBDA s : s.file \notin filesOf(draft))

entryOf(draft) == \E p \in ToSet(draft.pools) : \E r \in ToSet(p.runs) : r.service = JOB

------------------------------------------------------------------------------
\* toYaml: each kind of failure writes only what it obeys, a key at its default
\* is left out, and a pool of one that is called as its node writes no count.

unless(absent, value) == IF absent THEN Nothing ELSE value

failureLine(f) ==
    [kind   |-> f.kind,
     factor |-> unless(f.kind # "degrade", f.factor),
     other  |-> unless(f.kind \notin PAIRED, f.other),
     per    |-> unless(f.per = 0, f.per),
     at     |-> unless(f.per > 0, f.at),
     for    |-> unless(f.kind # "freeze", f.for),
     notice |-> unless(f.kind # "spotReclaim", f.notice),
     restartAfter |-> unless(f.kind \notin {"kill", "spotReclaim"} \/ f.restartAfter = 0,
                             f.restartAfter)]

rpcFailureLine(f) ==
    [rpc |-> f.rpc, kind |-> f.kind, per |-> f.perCalls,
     status |-> unless(f.kind # "status", f.status),
     factor |-> unless(f.kind # "slow", f.factor)]

lines(fs, Line(_)) == [k \in DOMAIN fs |-> Line(fs[k])]

overrideLine(o) ==
    [node |-> o.node, instance |-> o.instance, zone |-> o.zone,
     memoryMb |-> o.memoryMb, diskMb |-> o.diskMb,
     failures |-> unless(o.failures = <<>>, lines(o.failures, failureLine))]

poolLines(p) ==
    [name |-> p.name, instance |-> p.instance, zone |-> p.zones,
     count  |-> unless(~numbered(p), p.count),
     prefix |-> unless(~numbered(p), p.prefix),
     runs |-> [k \in DOMAIN p.runs |->
                 [p.runs[k] EXCEPT !.failures = lines(@, rpcFailureLine)]],
     memoryMb |-> p.memoryMb, diskMb |-> p.diskMb,
     failures |-> lines(p.failures, failureLine),
     overrides |-> lines(p.overrides, overrideLine)]

priced(c) == c.fixed > 0 \/ c.perUnit > 0

toYaml(draft) ==
    [scale |-> unless(draft.scale <= 1, draft.scale),
     net   |-> [k \in NETS |-> unless(draft.net[k] = 0, draft.net[k])],
     nodes |-> [i \in DOMAIN draft.pools |-> poolLines(draft.pools[i])],
     input |-> [draft.input EXCEPT !.source = unless(@ = "", @)],
     retries |-> [i \in DOMAIN draft.retries |->
                    [draft.retries[i] EXCEPT !.multiplier = unless(@ = 1, @)]],
     simulatedDuration |-> {c \in draft.simulatedDuration : priced(c)}]

------------------------------------------------------------------------------
\* Loader.of: the machines of a file, and what it refuses.

or(key, default) == IF key = Nothing THEN default ELSE key

overrideFor(spec, name) ==
    IF spec.count = Nothing THEN Nothing
    ELSE first(spec.overrides, LAMBDA o : o.node = name)

machinesOf(spec) ==
    [i \in 1 .. or(spec.count, 1) |->
        LET name == IF spec.count = Nothing THEN spec.name
                    ELSE follow(or(spec.prefix, spec.name), i - 1)
            over == overrideFor(spec, name) IN
        [name     |-> name,
         instance |-> IF over = Nothing THEN spec.instance ELSE or(over.instance, spec.instance),
         zone     |-> IF over = Nothing THEN dealt(spec.zone, i)
                      ELSE or(over.zone, dealt(spec.zone, i)),
         memoryMb |-> IF over = Nothing THEN spec.memoryMb ELSE or(over.memoryMb, spec.memoryMb),
         diskMb   |-> IF over = Nothing THEN spec.diskMb ELSE or(over.diskMb, spec.diskMb),
         runs     |-> spec.runs,
         failures |-> IF over = Nothing THEN spec.failures ELSE or(over.failures, spec.failures)]]

machines(file) == FlattenSeq([i \in DOMAIN file.nodes |-> machinesOf(file.nodes[i])])

distinct(s, Key(_)) == \A i, j \in DOMAIN s : Key(s[i]) = Key(s[j]) => i = j

badFailure(f) ==
    \/ f.kind = "degrade" /\ f.factor <= 1
    \/ f.at # Nothing /\ f.per # Nothing
    \/ f.at = Nothing /\ f.per = Nothing
    \/ f.per # Nothing /\ f.kind \notin RATEABLE
    \/ f.kind # "freeze" /\ f.for # Nothing
    \/ f.kind # "spotReclaim" /\ f.notice # Nothing
    \/ f.kind \notin {"kill", "spotReclaim"} /\ f.restartAfter # Nothing

badRpcFailure(f) ==
    \/ f.kind = "status" /\ (f.status = "OK" \/ f.status \notin Codes)
    \/ f.kind = "slow" /\ f.factor <= 1

\* The pool's, and those of an exception that names one of its nodes: of any other
\* exception nothing is read.
failuresOf(spec) ==
    ToSet(spec.failures) \cup UNION {ToSet(m.failures) : m \in ToSet(machinesOf(spec))}

checkPartitions(ms) ==
    \A m \in ToSet(ms) : \A f \in ToSet(m.failures) :
        f.other # Nothing => f.other # m.name /\ \E o \in ToSet(ms) : o.name = f.other

refuses(file) ==
    \/ ~distinct(file.nodes, LAMBDA spec : spec.name)
    \/ file.nodes = <<>>
    \/ \E spec \in ToSet(file.nodes) :
        \/ ~distinct(spec.runs, LAMBDA r : r.service)
        \/ ~distinct(spec.overrides, LAMBDA o : o.node)
        \/ \E f \in failuresOf(spec) : badFailure(f)
        \/ \E r \in ToSet(spec.runs) : \E f \in ToSet(r.failures) : badRpcFailure(f)
    \/ ~distinct(machines(file), LAMBDA m : m.name)
    \/ ~checkPartitions(machines(file))
    \/ file.input.unit = "" \/ file.input.count < 1
    \/ \E r \in ToSet(file.retries) : r.attempts < 1

------------------------------------------------------------------------------
\* Draft.of: a file the loader takes, in the form's own shape, or a refusal of a
\* pool of one whose node is not called as the form would call it.

cannotShow(file) ==
    \E spec \in ToSet(file.nodes) :
        \/ spec.zone = Nothing
        \/ spec.count = 1 /\ or(spec.prefix, spec.name) = spec.name

failureOf(f) ==
    [kind |-> f.kind, at |-> or(f.at, 0), per |-> or(f.per, 0),
     other |-> or(f.other, noName), for |-> or(f.for, IF f.kind = "freeze" THEN 1 ELSE 0),
     factor |-> or(f.factor, 2), notice |-> or(f.notice, 0),
     restartAfter |-> or(f.restartAfter, 0)]

\* Mutant of rpcFailureOf: how much slower is not read.
rpcFailureOfPlain(f) ==
    [rpc |-> f.rpc, kind |-> f.kind, perCalls |-> f.per, status |-> or(f.status, ""), factor |-> 1]

rpcFailureOf(f) ==
    [rpc |-> f.rpc, kind |-> f.kind, perCalls |-> f.per,
     status |-> or(f.status, ""), factor |-> or(f.factor, 1)]

overrideOf(o) == [o EXCEPT !.failures = lines(or(@, <<>>), failureOf)]

poolOf(spec) ==
    [name |-> spec.name, count |-> or(spec.count, 1),
     prefix |-> IF spec.count = Nothing THEN spec.name ELSE or(spec.prefix, spec.name),
     instance |-> spec.instance, zones |-> spec.zone,
     runs |-> [k \in DOMAIN spec.runs |->
                 [spec.runs[k] EXCEPT !.failures = lines(@, rpcFailureOf)]],
     failures |-> lines(spec.failures, failureOf),
     memoryMb |-> spec.memoryMb, diskMb |-> spec.diskMb,
     overrides |-> lines(spec.overrides, overrideOf)]

Of(name, file) ==
    [name |-> name, scale |-> or(file.scale, 1),
     net |-> [k \in NETS |-> or(file.net[k], 0)],
     pools |-> [i \in DOMAIN file.nodes |-> poolOf(file.nodes[i])],
     retries |-> [i \in DOMAIN file.retries |->
                    [file.retries[i] EXCEPT !.multiplier = or(@, 1)]],
     simulatedDuration |-> file.simulatedDuration,
     input |-> [file.input EXCEPT !.source = or(@, "")]]

------------------------------------------------------------------------------
\* The draft the form starts from.

placed(s) == IF s = Nothing THEN <<>>
             ELSE <<[service |-> s.service, file |-> s.file, failures |-> <<>>]>>

newPool(name, count, instance, runs) ==
    [name |-> name, count |-> count, prefix |-> name, instance |-> instance,
     zones |-> <<regions[1].zones[1]>>, runs |-> runs, failures |-> <<>>,
     memoryMb |-> Nothing, diskMb |-> Nothing, overrides |-> <<>>]

preferred(name) ==
    IF \E i \in DOMAIN instances : instances[i].name = name THEN name ELSE instances[1].name

firstDraft ==
    LET entry  == first(services, LAMBDA s : s.entry)
        worker == first(services, LAMBDA s : ~s.entry) IN
    [name |-> "authored", scale |-> 1,
     net |-> [k \in NETS |-> 0],
     pools |-> <<newPool(<<"entry", <<>>>>, 1, preferred("m5.large"), placed(entry)),
                 newPool(<<"workers", <<>>>>, 3, preferred("c5.large"), placed(worker))>>,
     retries |-> <<>>,
     simulatedDuration |->
        IF worker = Nothing THEN {}
        ELSE {[runs |-> worker.file, rpc |-> m.name, fixed |-> 0, perUnit |-> 0] :
                m \in ToSet(worker.rpcs)},
     input |-> [source |-> "", unit |-> "item", count |-> 1]]
=============================================================================
