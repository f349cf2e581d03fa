-------------------------------- MODULE Author --------------------------------
(***************************************************************************)
(* The page that writes simulations (viewer/components/console/             *)
(* Simulations.tsx): the list, the form over a draft with one action per    *)
(* control of it, and the requests that open, write and run a simulation,   *)
(* answered whenever the lab answers.  What a draft is, the file it is      *)
(* written as and what the lab takes of that are module Draft's.            *)
(***************************************************************************)
EXTENDS Draft

CONSTANTS
    Written,   \* the files that are in the lab at first: name |-> file
    Names,     \* what somebody may type for a pool or a prefix
    Counts,    \* what somebody may type for a count
    Amounts,   \* what somebody may type for any other number: 0 among them
    Steps,     \* bound: how many controls are used
    Presses    \* bound: how many of the page's own buttons are pressed

\* How many nodes a pool may have: what the form counts up to, and whatever somebody
\* wrote by hand.
Counted == (1 .. 24) \cup
    {n \in Nat \ {0} : \E name \in DOMAIN Written :
        \E spec \in ToSet(Written[name].nodes) : spec.count = n}

\* A file the lab is asked to write.
Write == [by : {"create", "edit"}, name : Text, file : AFile(Counted)]

ASSUME AuthorAssumption ==
    /\ Steps \in Nat /\ Presses \in Nat
    /\ Names \subseteq Name /\ Amounts \subseteq Nat /\ Counts \subseteq Nat
    /\ DOMAIN Written \subseteq Text /\ Written \in [DOMAIN Written -> AFile(Nat \ {0})]
    /\ \A name \in DOMAIN Written : ~refuses(Written[name])
    /\ Nothing \notin {"writing", "running", "saving"} /\ Nothing \notin Write

VARIABLES
    mode, palette, draft, editing, saying, refused,  \* the page
    reading,   \* openSimulation() calls in flight
    writing,   \* the saveSimulation() call in flight, or Nothing
    disk,      \* the lab's simulations: name |-> file
    steps, presses

vars == <<mode, palette, draft, editing, saying, refused, reading, writing, disk, steps, presses>>

------------------------------------------------------------------------------
\* edit(): a control of the form, when it is on the screen.  It works on a copy of
\* the draft, and what was refused is not said any more.

compiled  == palette = "here"
canAuthor == compiled /\ services # <<>>

formShown == palette \in {"here", "uncompiled"} /\ draft # Nothing /\
             (mode = "edit" \/ (mode = "new" /\ canAuthor))

Control == steps < Steps /\ steps' = steps + 1

edit(next) ==
    /\ Control
    /\ draft' = next /\ refused' = Nothing
    /\ UNCHANGED <<mode, palette, editing, saying, reading, writing, disk, presses>>

\* The i-th pool replaced, and whatever is in a field of it.
editPool(i, next) == edit([draft EXCEPT !.pools[i] = next])
pools == DOMAIN draft.pools
pool(i) == draft.pools[i]

without(s, k) == RemoveAt(s, k)
max1(n) == IF n < 1 THEN 1 ELSE n

typed == Amounts \cup {Nothing}

------------------------------------------------------------------------------
\* Scale, Network, TheInput and the name box.

Scale == \E n \in Amounts : edit([draft EXCEPT !.scale = max1(n)])

Network == \E k \in NETS, v \in Amounts :
    edit([draft EXCEPT !.net[k] = IF k = "loss" /\ v > 1 THEN 1 ELSE v])

\* What the network panel says when the numbers and the cluster disagree.
apart == LET links == distances(nodes(draft)) IN
         links["same region"] + links["same continent"] + links["across an ocean"]
neverWrong == apart > 0 /\ draft.net["crossZone"] <= draft.net["sameZone"]
neverFar   == apart = 0 /\ draft.net["crossZone"] > 0

TheInput ==
    \/ \E n \in Amounts : edit([draft EXCEPT !.input.count = max1(n)])
    \/ \E u \in {"item", ""} : edit([draft EXCEPT !.input.unit = u])
    \/ \E s \in {"", "data"} : edit([draft EXCEPT !.input.source = s])

SaveAs == \E name \in DOMAIN Written \cup {"authored"} : edit([draft EXCEPT !.name = name])

------------------------------------------------------------------------------
\* Nodes and PoolCard.

AddPool ==
    LET name == <<"pool", <<Len(draft.pools) + 1>>>> IN
    edit([draft EXCEPT !.pools = Append(@, newPool(name, 1, instances[1].name, <<>>))])

RemovePool == \E i \in pools :
    Len(draft.pools) > 1 /\ edit([draft EXCEPT !.pools = without(@, i)])

\* The prefix follows the name while the two are the same.
Rename == \E i \in pools, name \in Names :
    editPool(i, [pool(i) EXCEPT !.name = name,
                                !.prefix = IF @ = pool(i).name THEN name ELSE @])

\* Mutant of HowMany: any number of nodes.
HowManyever == \E i \in pools, n \in Counts : editPool(i, [pool(i) EXCEPT !.count = n])

HowMany == \E i \in pools, n \in Counts :
    editPool(i, [pool(i) EXCEPT !.count = IF n > 24 THEN 24 ELSE max1(n)])

Called == \E i \in pools, name \in Names :
    numbered(pool(i)) /\ editPool(i, [pool(i) EXCEPT !.prefix = name])

Instance == \E i \in pools, k \in DOMAIN instances :
    editPool(i, [pool(i) EXCEPT !.instance = instances[k].name])

\* A pill of Runs: off where it is on; the entry is taken off wherever it was.
offJob(p) == [p EXCEPT !.runs =
                 LET at == SelectInSeq(@, LAMBDA r : r.service = JOB) IN
                 IF at = 0 THEN @ ELSE without(@, at)]

\* Mutant of Place: the job stays where it was as well.
PlaceTwice(i, s) ==
    LET at == SelectInSeq(pool(i).runs, LAMBDA r : r.file = s.file) IN
    [draft EXCEPT !.pools[i].runs = IF at > 0 THEN without(@, at) ELSE @ \o placed(s)]

Place(i, s) ==
    LET at   == SelectInSeq(pool(i).runs, LAMBDA r : r.file = s.file)
        rest == IF s.entry THEN [k \in pools |-> offJob(pool(k))] ELSE draft.pools IN
    IF at > 0 THEN [draft EXCEPT !.pools[i].runs = without(@, at)]
    ELSE [draft EXCEPT !.pools = [rest EXCEPT ![i].runs = @ \o placed(s)]]

Placed == compiled /\ \E i \in pools, k \in DOMAIN services : edit(Place(i, services[k]))

Caps == \E i \in pools, v \in typed :
    \/ editPool(i, [pool(i) EXCEPT !.memoryMb = v])
    \/ editPool(i, [pool(i) EXCEPT !.diskMb = v])

Zones == \E i \in pools, r \in DOMAIN regions, k \in 1 .. 2 :
    /\ k \in DOMAIN regions[r].zones
    /\ LET z == regions[r].zones[k]
           at == SelectInSeq(pool(i).zones, LAMBDA x : x = z) IN
       editPool(i, [pool(i) EXCEPT !.zones =
            IF at = 0 THEN Append(@, z) ELSE IF Len(@) > 1 THEN without(@, at) ELSE @])

\* Exceptions, offered where there is more than one node to be an exception to.
plain(node) == [node |-> node, instance |-> Nothing, zone |-> Nothing,
                memoryMb |-> Nothing, diskMb |-> Nothing, failures |-> <<>>]

AddException == \E i \in pools :
    LET names == nodeNames(pool(i))
        taken == {o.node : o \in ToSet(pool(i).overrides)}
        free  == first(names, LAMBDA n : n \notin taken) IN
    /\ Len(names) > 1 /\ Len(pool(i).overrides) < Len(names)
    /\ editPool(i, [pool(i) EXCEPT !.overrides = Append(@, plain(or(free, names[1])))])

Exceptions == \E i \in pools : \E k \in DOMAIN pool(i).overrides :
    /\ pool(i).count > 1
    /\ \/ \E n \in ToSet(nodeNames(pool(i))) :
            editPool(i, [pool(i) EXCEPT !.overrides[k].node = n])
       \/ \E x \in {instances[j].name : j \in DOMAIN instances} \cup {Nothing} :
            editPool(i, [pool(i) EXCEPT !.overrides[k].instance = x])
       \/ \E z \in (UNION {ToSet(regions[j].zones) : j \in DOMAIN regions}) \cup {Nothing} :
            editPool(i, [pool(i) EXCEPT !.overrides[k].zone = z])
       \/ \E v \in typed : editPool(i, [pool(i) EXCEPT !.overrides[k].memoryMb = v])
       \/ \E v \in typed : editPool(i, [pool(i) EXCEPT !.overrides[k].diskMb = v])
       \/ editPool(i, [pool(i) EXCEPT !.overrides = without(@, k)])

------------------------------------------------------------------------------
\* Failures of a pool.

another(i, node) == node.name \notin ToSet(nodeNames(pool(i)))
others(i) == {n.name : n \in {m \in ToSet(nodes(draft)) : another(i, m)}}

AddFailure == \E i \in pools, rate \in BOOLEAN :
    LET other == first(nodes(draft), LAMBDA n : another(i, n)) IN
    editPool(i, [pool(i) EXCEPT !.failures = Append(@,
        [kind  |-> IF rate THEN "freeze" ELSE "kill",
         at    |-> IF rate THEN 0 ELSE 1, per |-> IF rate THEN 1 ELSE 0,
         other |-> IF other = Nothing THEN noName ELSE other.name,
         for |-> 1, factor |-> 3, notice |-> 1, restartAfter |-> 1])])

\* The when of a failure: a moment or a rate, the value it had under the other
\* one kept if it had one.
when(f, rate) == IF rate THEN [f EXCEPT !.per = max1(@), !.at = 0]
                         ELSE [f EXCEPT !.at = max1(@), !.per = 0]

\* The kind of a failure: what happens once cannot stay a rate.
turned(f, kind) ==
    LET g == [f EXCEPT !.kind = kind] IN
    IF kind \notin RATEABLE /\ f.per > 0 THEN when(g, FALSE) ELSE g

\* The controls a kind has of its own.
obeyed(f) == CASE f.kind = "kill"        -> {"restartAfter"}
               [] f.kind = "freeze"      -> {"for"}
               [] f.kind = "spotReclaim" -> {"notice"}
               [] OTHER                  -> {}

Failures == \E i \in pools : \E k \in DOMAIN pool(i).failures :
    LET f == pool(i).failures[k]
        put(g) == editPool(i, [pool(i) EXCEPT !.failures[k] = g]) IN
    \/ \E rate \in BOOLEAN : put(when(f, rate))
    \/ \E v \in Amounts : put(IF f.per > 0 THEN [f EXCEPT !.per = v] ELSE [f EXCEPT !.at = v])
    \/ \E kind \in ToSet(FAILURE_KINDS) :
          (f.per > 0 => kind \in RATEABLE) /\ put(turned(f, kind))
    \/ f.kind \in PAIRED /\ \E n \in others(i) : put([f EXCEPT !.other = n])
    \/ \E key \in obeyed(f), v \in Amounts : put([f EXCEPT ![key] = v])
    \/ f.kind = "degrade" /\ put([f EXCEPT !.factor = 2])
    \/ editPool(i, [pool(i) EXCEPT !.failures = without(@, k)])

\* RpcFailures of a file a pool runs.
rpcsOf(r) == IF service(r.file) = Nothing THEN <<>>
             ELSE [k \in DOMAIN service(r.file).rpcs |-> service(r.file).rpcs[k].name]

AddRpcFailure == compiled /\ \E i \in pools : \E k \in DOMAIN pool(i).runs :
    LET r == pool(i).runs[k]
        free == first(rpcsOf(r), LAMBDA n : \A f \in ToSet(r.failures) : f.rpc # n) IN
    /\ rpcsOf(r) # <<>>
    /\ editPool(i, [pool(i) EXCEPT !.runs[k].failures = Append(@,
            [rpc |-> or(free, rpcsOf(r)[1]), kind |-> "status", status |-> "UNAVAILABLE",
             factor |-> 6, perCalls |-> 20])])

RpcFailures == compiled /\ \E i \in pools : \E k \in DOMAIN pool(i).runs :
    \E j \in DOMAIN pool(i).runs[k].failures :
    LET f == pool(i).runs[k].failures[j]
        put(g) == editPool(i, [pool(i) EXCEPT !.runs[k].failures[j] = g]) IN
    /\ rpcsOf(pool(i).runs[k]) # <<>>
    /\ \/ \E v \in Amounts : put([f EXCEPT !.perCalls = max1(v)])
       \/ \E rpc \in ToSet(rpcsOf(pool(i).runs[k])) : put([f EXCEPT !.rpc = rpc])
       \/ \E kind \in ToSet(RPC_FAILURE_KINDS) : put([f EXCEPT !.kind = kind])
       \/ f.kind = "status" /\ \E s \in Codes \cup {"OK", ""} : put([f EXCEPT !.status = s])
       \/ f.kind = "slow" /\ put([f EXCEPT !.factor = 2])
       \/ editPool(i, [pool(i) EXCEPT !.runs[k].failures = without(@, j)])

------------------------------------------------------------------------------
\* Costs: a row for each rpc of each file that is placed.  Retries: by method.

Costs == compiled /\ \E file \in filesOf(draft) :
    /\ service(file) # Nothing
    /\ \E m \in ToSet(service(file).rpcs), field \in {"fixed", "perUnit"}, v \in Amounts :
        LET has == {c \in draft.simulatedDuration : c.runs = file /\ c.rpc = m.name}
            row == IF has = {} THEN [runs |-> file, rpc |-> m.name, fixed |-> 0, perUnit |-> 0]
                   ELSE CHOOSE c \in has : TRUE IN
        edit([draft EXCEPT !.simulatedDuration = (@ \ has) \cup {[row EXCEPT ![field] = v]}])

methods == FlattenSeq([i \in DOMAIN services |->
    [k \in DOMAIN services[i].rpcs |->
        [method |-> <<services[i].service, services[i].rpcs[k].name>>,
         idempotent |-> services[i].rpcs[k].idempotent]]])

safe(method) == LET m == first(methods, LAMBDA x : x.method = method) IN
                m # Nothing /\ m.idempotent

AddRetry ==
    LET found == first(methods, LAMBDA m : m.idempotent)
        m == or(found, methods[1]) IN
    compiled /\ methods # <<>> /\ edit([draft EXCEPT !.retries = Append(@,
        [method |-> m.method, attempts |-> 3, backoff |-> 1, multiplier |-> 1,
         unsafe |-> ~m.idempotent])])

Retries == \E i \in DOMAIN draft.retries :
    LET put(r) == edit([draft EXCEPT !.retries[i] = r])  r == draft.retries[i] IN
    \/ compiled /\ \E m \in ToSet(methods) :
              put([r EXCEPT !.method = m.method, !.unsafe = ~safe(m.method)])
    \/ \E v \in Amounts : put([r EXCEPT !.attempts = max1(v)])
    \/ \E v \in Amounts : put([r EXCEPT !.backoff = v])
    \/ \E v \in Amounts : put([r EXCEPT !.multiplier = max1(v)])
    \/ edit([draft EXCEPT !.retries = without(@, i)])

Form == formShown /\
        (Scale \/ Network \/ TheInput \/ SaveAs \/ AddPool \/ RemovePool \/ Rename
         \/ HowMany \/ Called \/ Instance \/ Placed \/ Caps \/ Zones \/ AddException
         \/ Exceptions \/ AddFailure \/ Failures \/ AddRpcFailure \/ RpcFailures
         \/ Costs \/ AddRetry \/ Retries)

------------------------------------------------------------------------------
\* The page: what the lab offers, the list, the two forms and their buttons.

Press == presses < Presses /\ presses' = presses + 1

\* The palette is asked for once, and a first draft is made of it whenever it comes.
paletteCame ==
    /\ palette = "asked"
    /\ palette' \in {"none", "uncompiled", "here"}
    /\ draft' = IF palette' = "here" THEN firstDraft ELSE draft
    /\ UNCHANGED <<mode, editing, saying, refused, reading, writing, disk, steps, presses>>

NewSimulation ==
    /\ Press
    /\ mode = "list" /\ canAuthor
    /\ refused' = Nothing /\ draft' = firstDraft /\ mode' = "new"
    /\ UNCHANGED <<palette, editing, saying, reading, writing, disk, steps>>

Cancel ==
    /\ Press
    /\ mode # "list"
    /\ mode' = "list" /\ refused' = Nothing /\ editing' = Nothing
    /\ UNCHANGED <<palette, draft, saying, reading, writing, disk, steps>>

\* openForEdit(), from the list of the lab, which no answer of the palette is needed
\* for.  Nothing is said while it reads, and nothing else waits for it.
openForEdit ==
    /\ Press
    /\ mode = "list"
    /\ \E name \in DOMAIN disk : reading' = reading \cup
          {[id |-> presses, name |-> name, answered |-> FALSE, draft |-> Nothing]}
    /\ refused' = Nothing
    /\ UNCHANGED <<mode, palette, draft, editing, saying, writing, disk, steps>>

\* The lab reads the file, or nobody answers.
readScenario ==
    \E r \in reading :
        /\ ~r.answered
        /\ \E said \in {Nothing} \cup
               (IF refuses(disk[r.name]) \/ cannotShow(disk[r.name]) THEN {}
                ELSE {Of(r.name, disk[r.name])}) :
             reading' = (reading \ {r}) \cup {[r EXCEPT !.answered = TRUE, !.draft = said]}
        /\ UNCHANGED <<mode, palette, draft, editing, saying, refused, writing, disk,
                       steps, presses>>

opened ==
    \E r \in reading :
        /\ r.answered
        /\ reading' = reading \ {r}
        /\ IF r.draft = Nothing
           THEN refused' = "refused" /\ UNCHANGED <<mode, draft, editing>>
           ELSE draft' = r.draft /\ editing' = r.name /\ mode' = "edit" /\ UNCHANGED refused
        /\ UNCHANGED <<palette, saying, writing, disk, steps, presses>>

\* The one button under the form: create() when nothing is being edited and
\* saveEdit() when something is.  Both write what this render shows.
writes(by, word) ==
    /\ Press
    /\ formShown /\ saying = Nothing /\ entryOf(draft)
    /\ writing' = [by |-> by, name |-> draft.name, file |-> toYaml(draft)]
    /\ saying' = word /\ refused' = Nothing
    /\ UNCHANGED <<mode, palette, draft, editing, reading, disk, steps>>

create   == editing = Nothing /\ writes("create", "writing")
saveEdit == editing # Nothing /\ writes("edit", "saving")

\* The lab loads it before it writes it; the answer may be lost either way.
kept == disk' = [n \in DOMAIN disk \cup {writing.name} |->
                    IF n = writing.name THEN writing.file ELSE disk[n]]

answeredNo ==
    /\ writing # Nothing /\ saying # "running"
    /\ writing' = Nothing /\ saying' = Nothing /\ refused' = "refused"
    /\ \/ UNCHANGED disk
       \/ ~refuses(writing.file) /\ kept
    /\ UNCHANGED <<mode, palette, draft, editing, reading, steps, presses>>

answeredYes ==
    /\ writing # Nothing /\ saying # "running" /\ ~refuses(writing.file)
    /\ kept
    /\ IF writing.by = "create"
       THEN saying' = "running" /\ UNCHANGED <<mode, editing, writing>>
       ELSE saying' = Nothing /\ editing' = Nothing /\ mode' = "list" /\ writing' = Nothing
    /\ UNCHANGED <<palette, draft, refused, reading, steps, presses>>

\* startBuild() comes back, whatever it was told.
startedBuild ==
    /\ saying = "running"
    /\ saying' = Nothing /\ mode' = "list" /\ writing' = Nothing
    /\ UNCHANGED <<palette, draft, editing, refused, reading, disk, steps, presses>>

Page == paletteCame \/ NewSimulation \/ Cancel \/ openForEdit \/ readScenario \/ opened
        \/ create \/ saveEdit \/ answeredNo \/ answeredYes \/ startedBuild

Init ==
    /\ mode = "list" /\ palette = "asked" /\ draft = Nothing /\ editing = Nothing
    /\ saying = Nothing /\ refused = Nothing
    /\ reading = {} /\ writing = Nothing /\ disk = Written
    /\ steps = 0 /\ presses = 0

Next == Form \/ Page

Spec == Init /\ [][Next]_vars

------------------------------------------------------------------------------
\* A draft the lab is asked for, and where its answer is.
Read == [id : Nat, name : DOMAIN disk, answered : BOOLEAN, draft : Opt(ADraft(Counted))]

\* The types of the state: what the form makes of a draft, or the lab reads, is one
\* the form can show, with a node at least in each pool, a zone to put it in and a
\* loss that is a probability; and what the lab holds is what its loader can deal out.
TypeOK ==
    /\ mode \in {"list", "new", "edit"}
    /\ palette \in {"asked", "none", "uncompiled", "here"}
    /\ draft = Nothing \/ draft \in ADraft(Counted)
    /\ editing \in DOMAIN disk \cup {Nothing} /\ refused \in {Nothing, "refused"}
    /\ saying \in {Nothing, "writing", "running", "saving"}
    /\ (saying = Nothing) = (writing = Nothing)
    /\ reading \subseteq Read /\ writing \in Opt(Write)
    /\ disk \in [DOMAIN disk -> AFile(Counted)]
    /\ steps \in 0 .. Steps /\ presses \in 0 .. Presses

\* Whether the nodes of a pool, as the form says them, are the machines the loader
\* makes of the pool that is written: how many they are and called what, and where they
\* sit on what.
namedAlike(p) ==
    LET ns == nodesOf(p)  ms == machinesOf(poolLines(p)) IN
    Len(ns) = Len(ms) /\ \A k \in DOMAIN ns : ns[k].name = ms[k].name
dealtAlike(p) ==
    LET ns == nodesOf(p)  ms == machinesOf(poolLines(p)) IN
    \A k \in DOMAIN ns : ns[k].instance = ms[k].instance /\ ns[k].zone = ms[k].zone

\* An exception left over from when the pool had more nodes, that now names its only one.
leftOver(p) == ~numbered(p) /\ \E o \in ToSet(p.overrides) : o.node = p.name

\* The form holds the loader's naming and dealing rules a second time, to say how
\* many nodes there are, where they sit, and who an exception or a partition may
\* name.  Names and numbers are those of the machines the loader makes of the written
\* file in every draft; what they are and where they sit is, in every pool without an
\* exception that is left over, which the form obeys and the loader does not read.
NodesAreTheLoaders ==
    draft # Nothing =>
        \A p \in ToSet(draft.pools) : namedAlike(p) /\ (leftOver(p) \/ dealtAlike(p))

\* What nodes() of author.ts says of itself, of every pool: these are the nodes the
\* draft would produce.
NodesAreProduced == draft # Nothing => \A p \in ToSet(draft.pools) : dealtAlike(p)

\* Whatever the controls made of a draft, the file it is written as is either
\* refused or opens in this form again, and is written back as it was.
ReadsBack ==
    draft # Nothing =>
        LET file == toYaml(draft) IN
        refuses(file) \/ (~cannotShow(file) /\ toYaml(Of(draft.name, file)) = file)

\* The pill that gives a pool the job takes it off wherever it was: no control gives a
\* draft a second pool that runs it.  It says nothing of how many nodes that pool has.
entries(d) == Cardinality({i \in DOMAIN d.pools :
                  \E r \in ToSet(d.pools[i].runs) : r.service = JOB})
OneEntryPool == [][draft # Nothing /\ draft' # Nothing /\ steps' # steps
                   => entries(draft') <= Max({1, entries(draft)})]_vars

\* What the form and the lab say of what they write: it starts, and so has exactly one
\* node that runs the job.
starts(file) == {k \in DOMAIN machines(file) :
                    \E r \in ToSet(machines(file)[k].runs) : r.service = JOB}
OneNodeStarts == \A name \in DOMAIN disk : Cardinality(starts(disk[name])) = 1

\* "The same form, filled in from what is already written": a file that opens, and
\* is saved without a control being touched, says of its machines what it said.
WritesBackWhatItOpened ==
    \A r \in reading : r.draft # Nothing =>
        machines(toYaml(r.draft)) = machines(disk[r.name])
=============================================================================
