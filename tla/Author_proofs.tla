----------------------------- MODULE Author_proofs -----------------------------
(***************************************************************************)
(* Proofs about the authoring form of module Author, for every palette,    *)
(* every lab and any number of controls used.                              *)
(***************************************************************************)
EXTENDS Author, FiniteSetTheorems, SequenceTheorems, WellFoundedInduction, TLAPS

-----------------------------------------------------------------------------
(* Lists.  What the community modules look up and put together in them.     *)

LEMMA LeastNatural ==
    ASSUME NEW T \in SUBSET Nat, T # {}
    PROVE  \E n \in T : \A m \in T : n <= m
<1>1. PICK n \in T : \A m \in T : ~(<<m, n>> \in OpToRel(<, Nat))
    BY NatLessThanWellFounded, WFMin, Zenon
<1>2. ASSUME NEW m \in T, m < n PROVE FALSE
    <2>1. <<m, n>> \in Nat \X Nat /\ <<m, n>>[1] = m /\ <<m, n>>[2] = n
        OBVIOUS
    <2>2. <<m, n>> \in OpToRel(<, Nat)
        BY <2>1, <1>2 DEF OpToRel
    <2>. QED BY <1>1, <2>2
<1>3. \A m \in T : n <= m
    BY <1>2
<1>. QED BY <1>3

\* The place SelectInSeq finds, when I are the places that pass its test.
Place1(I) == IF I # {} THEN Min(I) ELSE 0

LEMMA PlaceFound ==
    ASSUME NEW n \in Nat, NEW I \in SUBSET (1 .. n)
    PROVE  /\ Place1(I) \in Nat
           /\ I = {} <=> Place1(I) = 0
           /\ I # {} => Place1(I) \in I /\ \A i \in I : Place1(I) <= i
<1>1. CASE I = {}
    BY <1>1 DEF Place1
<1>2. CASE I # {}
    <2>1. I \in SUBSET Nat
        OBVIOUS
    <2>2. \E x \in I : \A y \in I : x =< y
        BY <1>2, <2>1, LeastNatural
    <2>3. Min(I) \in I /\ \A y \in I : Min(I) =< y
        BY <2>2 DEF Min
    <2>4. Place1(I) = Min(I)
        BY <1>2 DEF Place1
    <2>5. Place1(I) \in I /\ \A y \in I : Place1(I) <= y
        BY <2>3, <2>4
    <2>6. Place1(I) \in 1 .. n
        BY <2>5
    <2>. HIDE DEF Place1
    <2>. QED BY <1>2, <2>5, <2>6
<1>. QED BY <1>1, <1>2

\* What first finds there.
Found(s, I) == IF Place1(I) = 0 THEN Nothing ELSE s[Place1(I)]

LEMMA FoundThere ==
    ASSUME NEW T, NEW s \in Seq(T), NEW I \in SUBSET (1 .. Len(s))
    PROVE  /\ I = {} => Found(s, I) = Nothing
           /\ I # {} => Place1(I) \in I /\ Found(s, I) = s[Place1(I)] /\ Found(s, I) \in T
           /\ Found(s, I) \in Opt(T)
<1>1. Len(s) \in Nat
    OBVIOUS
<1>2. CASE I = {}
    BY <1>1, <1>2, PlaceFound DEF Found, Opt
<1>3. CASE I # {}
    <2>1. Place1(I) \in I /\ Place1(I) # 0
        BY <1>1, <1>3, PlaceFound
    <2>2. s[Place1(I)] \in T
        <3>1. \A k \in 1 .. Len(s) : s[k] \in T
            OBVIOUS
        <3>. QED BY <2>1, <3>1
    <2>. QED BY <1>3, <2>1, <2>2 DEF Found, Opt
<1>. QED BY <1>2, <1>3

\* A list of lists put in one is a list.
LEMMA FlattenIn ==
    ASSUME NEW T, NEW ss \in Seq(Seq(T))
    PROVE  FlattenSeq(ss) \in Seq(T)
<1>. DEFINE n == Len(ss)
            Solves(f, m) == f = [i \in 1 .. m |-> IF i = 1 THEN ss[i] ELSE f[i - 1] \o ss[i]]
            Bad == {m \in 0 .. n : ~\E f \in [1 .. m -> Seq(T)] : Solves(f, m)}
<1>1. n \in Nat /\ \A i \in 1 .. n : ss[i] \in Seq(T)
    OBVIOUS
<1>. HIDE DEF n
<1>2. Bad = {}
    <2>. SUFFICES ASSUME Bad # {} PROVE FALSE
        OBVIOUS
    <2>. Bad \in SUBSET Nat
        <3>. HIDE DEF Solves
        <3>. QED BY <1>1
    <2>1. PICK m \in Bad : \A k \in Bad : m <= k
        BY LeastNatural
    <2>2. m \in 0 .. n /\ m \in Nat
        BY <1>1
    <2>3. m # 0
        <3>1. ASSUME m = 0 PROVE FALSE
            <4>. DEFINE f == [i \in 1 .. 0 |-> <<>>]
            <4>1. f \in [1 .. m -> Seq(T)] /\ Solves(f, m)
                BY <3>1
            <4>. QED BY <2>1, <4>1
        <3>. QED BY <3>1
    <2>4. m - 1 \in 0 .. n /\ ~(m <= m - 1)
        BY <1>1, <2>2, <2>3
    <2>5. m - 1 \notin Bad
        <3>. HIDE DEF Bad
        <3>. QED BY <2>1, <2>4
    <2>6. PICK f \in [1 .. (m - 1) -> Seq(T)] : Solves(f, m - 1)
        BY <2>4, <2>5
    <2>. DEFINE last == IF m = 1 THEN ss[m] ELSE f[m - 1] \o ss[m]
                g == [i \in 1 .. m |-> IF i = m THEN last ELSE f[i]]
    <2>7. last \in Seq(T)
        <3>1. ss[m] \in Seq(T)
            BY <1>1, <2>2, <2>3
        <3>2. CASE m = 1
            BY <3>1, <3>2
        <3>3. CASE m # 1
            <4>1. f[m - 1] \in Seq(T)
                BY <2>2, <2>3, <3>3
            <4>2. f[m - 1] \o ss[m] \in Seq(T)
                BY <3>1, <4>1
            <4>. QED BY <3>3, <4>2
        <3>. QED BY <3>2, <3>3
    <2>8. \A i \in 1 .. m : i # m => i \in 1 .. (m - 1)
        BY <2>2
    <2>9. g \in [1 .. m -> Seq(T)]
        <3>. HIDE DEF last
        <3>. QED BY <2>7, <2>8
    <2>10. ASSUME NEW i \in 1 .. m
           PROVE  g[i] = IF i = 1 THEN ss[i] ELSE g[i - 1] \o ss[i]
        <3>1. CASE i = m
            <4>1. m # 1 => m - 1 \in 1 .. m /\ m - 1 # m
                BY <2>2, <2>3
            <4>2. g[m] = last /\ (m # 1 => g[m - 1] = f[m - 1])
                BY <4>1, <3>1
            <4>. HIDE DEF g
            <4>. QED BY <3>1, <4>2
        <3>2. CASE i # m
            <4>1. i \in 1 .. (m - 1) /\ g[i] = f[i]
                BY <2>8, <3>2
            <4>2. i # 1 => i - 1 \in 1 .. m /\ i - 1 # m
                BY <2>2
            <4>3. i # 1 => g[i - 1] = f[i - 1]
                BY <4>2
            <4>4. f[i] = IF i = 1 THEN ss[i] ELSE f[i - 1] \o ss[i]
                BY <2>6, <4>1
            <4>. HIDE DEF g
            <4>. QED BY <4>1, <4>3, <4>4
        <3>. QED BY <3>1, <3>2
    <2>11. g = [i \in 1 .. m |-> g[i]]
        OBVIOUS
    <2>. HIDE DEF g
    <2>12. Solves(g, m)
        BY <2>10, <2>11
    <2>. QED BY <2>1, <2>2, <2>9, <2>12
<1>3. CASE n = 0
    BY <1>3 DEF FlattenSeq, n
<1>4. CASE n # 0
    <2>1. n \in 0 .. n /\ n \in 1 .. n
        BY <1>1, <1>4
    <2>2. \E f \in [1 .. n -> Seq(T)] : Solves(f, n)
        BY <1>2, <2>1
    <2>. DEFINE F == CHOOSE f : Solves(f, n)
    <2>3. Solves(F, n)
        BY <2>2
    <2>4. FlattenSeq(ss) = F[n]
        BY <1>4 DEF FlattenSeq, n
    <2>. HIDE DEF F
    <2>. DEFINE Wrong == {i \in 1 .. n : F[i] \notin Seq(T)}
    <2>5. Wrong = {}
        <3>. SUFFICES ASSUME Wrong # {} PROVE FALSE
            OBVIOUS
        <3>. Wrong \in SUBSET Nat
            OBVIOUS
        <3>1. PICK i \in Wrong : \A j \in Wrong : i <= j
            BY LeastNatural
        <3>2. F[i] = IF i = 1 THEN ss[i] ELSE F[i - 1] \o ss[i]
            BY <2>3
        <3>3. i # 1
            BY <1>1, <3>1, <3>2
        <3>4. i - 1 \in 1 .. n /\ ~(i <= i - 1)
            BY <1>1, <3>3
        <3>5. i - 1 \notin Wrong
            <4>. HIDE DEF Wrong
            <4>. QED BY <3>1, <3>4
        <3>6. F[i - 1] \in Seq(T) /\ ss[i] \in Seq(T)
            BY <1>1, <3>4, <3>5
        <3>7. F[i - 1] \o ss[i] \in Seq(T)
            BY <3>6
        <3>. QED BY <3>1, <3>2, <3>3, <3>7
    <2>. QED BY <2>1, <2>4, <2>5
<1>. QED BY <1>3, <1>4

LEMMA Elements ==
    ASSUME NEW T, NEW s \in Seq(T)
    PROVE  DOMAIN s = 1 .. Len(s) /\ Len(s) \in Nat /\ \A k \in DOMAIN s : s[k] \in T
OBVIOUS

LEMMA ListOf ==
    ASSUME NEW T, NEW n \in Nat, NEW f, f = [k \in 1 .. n |-> f[k]],
           \A k \in 1 .. n : f[k] \in T
    PROVE  f \in Seq(T) /\ Len(f) = n /\ DOMAIN f = 1 .. n
<1>1. f \in [1 .. n -> T]
    OBVIOUS
<1>. QED BY <1>1, IsASeq

-----------------------------------------------------------------------------
(* The records of a draft and of its file.                                  *)

LEMMA Kinds ==
    /\ {"kill", "freeze", "degrade", "restart", "spotReclaim", "partition", "heal"}
           = ToSet(FAILURE_KINDS)
    /\ {"status", "slow", "drop"} = ToSet(RPC_FAILURE_KINDS)
<1>1. DOMAIN FAILURE_KINDS = 1 .. 7 /\ DOMAIN RPC_FAILURE_KINDS = 1 .. 3
    BY DEF FAILURE_KINDS, RPC_FAILURE_KINDS
<1>2. 1 .. 7 = {1, 2, 3, 4, 5, 6, 7} /\ 1 .. 3 = {1, 2, 3}
    OBVIOUS
<1>3. ToSet(FAILURE_KINDS) = {FAILURE_KINDS[i] : i \in {1, 2, 3, 4, 5, 6, 7}}
    BY <1>1, <1>2 DEF ToSet
<1>4. ToSet(RPC_FAILURE_KINDS) = {RPC_FAILURE_KINDS[i] : i \in {1, 2, 3}}
    BY <1>1, <1>2 DEF ToSet
<1>. QED BY <1>3, <1>4 DEF FAILURE_KINDS, RPC_FAILURE_KINDS

LEMMA Words ==
    /\ {"", "item", "data", "authored", "entry", "workers", "pool"} \subseteq Text
    /\ noName \in Name
<1>1. {"", "item", "data", "authored", "entry", "workers", "pool"} \subseteq Text
    BY DEF Text
<1>2. "" \in Text
    BY <1>1
<1>3. <<>> \in Seq(Nat)
    OBVIOUS
<1>. QED BY <1>1, <1>2, <1>3 DEF noName, Name

\* Nothing is nothing that is written.
LEMMA NothingIsNot ==
    /\ \A x \in Nat : x # Nothing
    /\ \A x \in Text : x # Nothing
    /\ \A x \in Status : x # Nothing
    /\ \A x \in Name : x # Nothing
    /\ \A x \in someZones : x # Nothing
    /\ \A x \in Seq(FailureEntry) : x # Nothing
    /\ \A x \in AnOverride : x # Nothing
    /\ \A x \in OverrideEntry : x # Nothing
BY NothingAssumption

LEMMA FailureWritten ==
    ASSUME NEW f \in AFailure
    PROVE  /\ failureLine(f) \in FailureEntry
           /\ failureLine(failureOf(failureLine(f))) = failureLine(f)
<1>1. failureLine(f) \in FailureEntry
    BY DEF AFailure, FailureEntry, failureLine, unless, Opt
<1>. DEFINE l == failureLine(f)  g == failureOf(l)
<1>2. /\ f.at \in Nat /\ f.per \in Nat /\ f.other \in Name /\ f.for \in Nat
      /\ f.factor \in Nat /\ f.notice \in Nat /\ f.restartAfter \in Nat
    BY DEF AFailure
<1>3. /\ g.kind = f.kind
      /\ f.kind = "degrade" => g.factor = f.factor
      /\ f.kind \in PAIRED => g.other = f.other
      /\ g.per = f.per
      /\ f.per = 0 => g.at = f.at
      /\ f.kind = "freeze" => g.for = f.for
      /\ f.kind = "spotReclaim" => g.notice = f.notice
      /\ f.kind \in {"kill", "spotReclaim"} => g.restartAfter = f.restartAfter
    BY <1>2, NothingIsNot DEF failureLine, failureOf, unless, or
<1>. HIDE DEF g
<1>4. failureLine(g) = failureLine(f)
    BY <1>2, <1>3 DEF failureLine, unless
<1>. QED BY <1>1, <1>4 DEF g

LEMMA FailureOpened == ASSUME NEW f \in FailureEntry PROVE failureOf(f) \in AFailure
BY Words DEF AFailure, FailureEntry, failureOf, or, Opt

LEMMA RpcFailureWritten ==
    ASSUME NEW f \in ARpcFailure
    PROVE  /\ rpcFailureLine(f) \in RpcFailureEntry
           /\ rpcFailureLine(rpcFailureOf(rpcFailureLine(f))) = rpcFailureLine(f)
<1>1. rpcFailureLine(f) \in RpcFailureEntry
    BY DEF ARpcFailure, RpcFailureEntry, rpcFailureLine, unless, Opt
<1>. DEFINE l == rpcFailureLine(f)  g == rpcFailureOf(l)
<1>2. f.status \in Status /\ f.factor \in Nat
    BY DEF ARpcFailure
<1>3. /\ g.rpc = f.rpc /\ g.kind = f.kind /\ g.perCalls = f.perCalls
      /\ f.kind = "status" => g.status = f.status
      /\ f.kind = "slow" => g.factor = f.factor
    BY <1>2, NothingIsNot DEF rpcFailureLine, rpcFailureOf, unless, or
<1>. HIDE DEF g
<1>4. rpcFailureLine(g) = rpcFailureLine(f)
    BY <1>3 DEF rpcFailureLine, unless
<1>. QED BY <1>1, <1>4 DEF g

LEMMA RpcFailureOpened ==
    ASSUME NEW f \in RpcFailureEntry PROVE rpcFailureOf(f) \in ARpcFailure
BY DEF ARpcFailure, RpcFailureEntry, rpcFailureOf, or, Opt, Status

LEMMA FailuresWritten ==
    ASSUME NEW fs \in Seq(AFailure)
    PROVE  /\ lines(fs, failureLine) \in Seq(FailureEntry)
           /\ lines(lines(lines(fs, failureLine), failureOf), failureLine)
                  = lines(fs, failureLine)
           /\ fs = <<>> <=> lines(lines(fs, failureLine), failureOf) = <<>>
<1>. DEFINE L == [k \in DOMAIN fs |-> failureLine(fs[k])]
            O == [k \in DOMAIN fs |-> failureOf(L[k])]
<1>1. /\ Len(fs) \in Nat /\ DOMAIN fs = 1 .. Len(fs)
      /\ \A k \in DOMAIN fs : fs[k] \in AFailure
    OBVIOUS
<1>2. /\ lines(fs, failureLine) = L /\ lines(L, failureOf) = O
      /\ lines(O, failureLine) = [k \in DOMAIN fs |-> failureLine(O[k])]
    BY DEF lines
<1>3. \A k \in DOMAIN fs : L[k] \in FailureEntry /\ failureLine(O[k]) = L[k]
    BY <1>1, FailureWritten
<1>4. L \in Seq(FailureEntry)
    BY <1>1, <1>3, IsASeq
<1>5. [k \in DOMAIN fs |-> failureLine(O[k])] = L
    BY <1>3
<1>6. fs = <<>> <=> O = <<>>
    <2>1. O \in [1 .. Len(fs) -> {O[k] : k \in DOMAIN fs}]
        BY <1>1
    <2>2. O \in Seq({O[k] : k \in DOMAIN fs}) /\ Len(O) = Len(fs)
        BY <1>1, <2>1, IsASeq
    <2>. HIDE DEF O
    <2>. QED BY <1>1, <2>2, EmptySeq
<1>. QED BY <1>2, <1>4, <1>5, <1>6

LEMMA FailuresOpened ==
    ASSUME NEW fs \in Seq(FailureEntry) PROVE lines(fs, failureOf) \in Seq(AFailure)
<1>1. /\ Len(fs) \in Nat /\ DOMAIN fs = 1 .. Len(fs)
      /\ \A k \in DOMAIN fs : failureOf(fs[k]) \in AFailure
    BY FailureOpened
<1>. QED BY <1>1, IsASeq DEF lines

LEMMA OverrideWritten ==
    ASSUME NEW o \in AnOverride
    PROVE  /\ overrideLine(o) \in OverrideEntry
           /\ overrideLine(overrideOf(overrideLine(o))) = overrideLine(o)
<1>. DEFINE L == lines(o.failures, failureLine)
            l == overrideLine(o)
            g == overrideOf(l)
<1>1. o.failures \in Seq(AFailure)
    BY DEF AnOverride, OverrideWith
<1>2. L \in Seq(FailureEntry) /\ L # Nothing
    BY <1>1, FailuresWritten, NothingIsNot
<1>3. l \in OverrideEntry
    BY <1>2 DEF overrideLine, AnOverride, OverrideEntry, OverrideWith, unless, Opt
<1>4. /\ g.node = o.node /\ g.instance = o.instance /\ g.zone = o.zone
      /\ g.memoryMb = o.memoryMb /\ g.diskMb = o.diskMb
      /\ g.failures = lines(or(l.failures, <<>>), failureOf)
    BY <1>3 DEF overrideLine, overrideOf
<1>5. CASE o.failures = <<>>
    <2>1. l.failures = Nothing
        BY <1>5 DEF overrideLine, unless
    <2>2. g.failures = <<>>
        BY <1>4, <2>1 DEF or, lines
    <2>. HIDE DEF g
    <2>3. overrideLine(g) = overrideLine(o)
        BY <1>4, <1>5, <2>2 DEF overrideLine, unless
    <2>. QED BY <1>3, <2>3 DEF g
<1>6. CASE o.failures # <<>>
    <2>1. l.failures = L
        BY <1>6 DEF overrideLine, unless
    <2>2. g.failures = lines(L, failureOf)
        BY <1>2, <1>4, <2>1 DEF or
    <2>3. g.failures # <<>> /\ lines(g.failures, failureLine) = L
        BY <1>1, <1>6, <2>2, FailuresWritten
    <2>. HIDE DEF g, L
    <2>4. overrideLine(g) = overrideLine(o)
        BY <1>4, <1>6, <2>3 DEF overrideLine, unless, L
    <2>. QED BY <1>3, <2>4 DEF g
<1>. QED BY <1>5, <1>6

LEMMA OverrideOpened == ASSUME NEW o \in OverrideEntry PROVE overrideOf(o) \in AnOverride
<1>1. or(o.failures, <<>>) \in Seq(FailureEntry)
    BY DEF OverrideEntry, OverrideWith, or, Opt
<1>2. lines(or(o.failures, <<>>), failureOf) \in Seq(AFailure)
    BY <1>1, FailuresOpened
<1>3. overrideOf(o) = [o EXCEPT !.failures = lines(or(o.failures, <<>>), failureOf)]
    BY DEF overrideOf
<1>. QED BY <1>2, <1>3 DEF AnOverride, OverrideEntry, OverrideWith

LEMMA RunsWritten ==
    ASSUME NEW r \in RunsWith(ARpcFailure)
    PROVE  LET l == [r EXCEPT !.failures = lines(@, rpcFailureLine)]
               g == [l EXCEPT !.failures = lines(@, rpcFailureOf)]
           IN  /\ l \in RunsWith(RpcFailureEntry)
               /\ [g EXCEPT !.failures = lines(@, rpcFailureLine)] = l
<1>. DEFINE fs == r.failures
            L == [k \in DOMAIN fs |-> rpcFailureLine(fs[k])]
            O == [k \in DOMAIN fs |-> rpcFailureOf(L[k])]
            l == [r EXCEPT !.failures = L]
            g == [l EXCEPT !.failures = O]
<1>1. r \in [service : Text, file : Text, failures : Seq(ARpcFailure)]
    BY DEF RunsWith
<1>2. /\ Len(fs) \in Nat /\ DOMAIN fs = 1 .. Len(fs)
      /\ \A k \in DOMAIN fs : fs[k] \in ARpcFailure
    BY <1>1
<1>3. \A k \in DOMAIN fs : L[k] \in RpcFailureEntry /\ rpcFailureLine(O[k]) = L[k]
    BY <1>2, RpcFailureWritten
<1>4. L \in Seq(RpcFailureEntry)
    <2>1. L \in [1 .. Len(fs) -> RpcFailureEntry]
        <3>. HIDE DEF fs
        <3>. QED BY <1>2, <1>3
    <2>. HIDE DEF L
    <2>. QED BY <1>2, <2>1, IsASeq
<1>5. /\ lines(fs, rpcFailureLine) = L /\ lines(L, rpcFailureOf) = O
      /\ lines(O, rpcFailureLine) = [k \in DOMAIN fs |-> rpcFailureLine(O[k])]
    BY DEF lines
<1>6. [k \in DOMAIN fs |-> rpcFailureLine(O[k])] = L
    BY <1>3
<1>7. l.failures = L /\ g.failures = O
    BY <1>1
<1>. HIDE DEF L, O
<1>8. l \in RunsWith(RpcFailureEntry) /\ [g EXCEPT !.failures = L] = l
    BY <1>1, <1>4 DEF RunsWith
<1>. QED BY <1>5, <1>6, <1>7, <1>8

LEMMA RunsOpened ==
    ASSUME NEW r \in RunsWith(RpcFailureEntry)
    PROVE  /\ [r EXCEPT !.failures = lines(@, rpcFailureOf)] \in RunsWith(ARpcFailure)
           /\ [r EXCEPT !.failures = lines(@, rpcFailureOf)].service = r.service
<1>. DEFINE L == [k \in DOMAIN r.failures |-> rpcFailureOf(r.failures[k])]
<1>1. r \in [service : Text, file : Text, failures : Seq(RpcFailureEntry)]
    BY DEF RunsWith
<1>2. /\ Len(r.failures) \in Nat /\ DOMAIN r.failures = 1 .. Len(r.failures)
      /\ \A k \in DOMAIN r.failures : rpcFailureOf(r.failures[k]) \in ARpcFailure
    BY <1>1, RpcFailureOpened
<1>3. L \in Seq(ARpcFailure)
    BY <1>2, IsASeq
<1>4. lines(r.failures, rpcFailureOf) = L
    BY DEF lines
<1>. HIDE DEF L
<1>. QED BY <1>1, <1>3, <1>4 DEF RunsWith

LEMMA OverridesWritten ==
    ASSUME NEW os \in Seq(AnOverride)
    PROVE  /\ lines(os, overrideLine) \in Seq(OverrideEntry)
           /\ Len(lines(os, overrideLine)) = Len(os)
           /\ lines(lines(lines(os, overrideLine), overrideOf), overrideLine)
                  = lines(os, overrideLine)
<1>. DEFINE L == [k \in DOMAIN os |-> overrideLine(os[k])]
            O == [k \in DOMAIN os |-> overrideOf(L[k])]
<1>1. /\ Len(os) \in Nat /\ DOMAIN os = 1 .. Len(os)
      /\ \A k \in DOMAIN os : os[k] \in AnOverride
    OBVIOUS
<1>2. /\ lines(os, overrideLine) = L /\ lines(L, overrideOf) = O
      /\ lines(O, overrideLine) = [k \in DOMAIN os |-> overrideLine(O[k])]
    BY DEF lines
<1>3. \A k \in DOMAIN os : L[k] \in OverrideEntry /\ overrideLine(O[k]) = L[k]
    BY <1>1, OverrideWritten
<1>4. L \in Seq(OverrideEntry) /\ Len(L) = Len(os)
    BY <1>1, <1>3, ListOf
<1>5. [k \in DOMAIN os |-> overrideLine(O[k])] = L
    BY <1>3
<1>. QED BY <1>2, <1>4, <1>5

LEMMA OverridesOpened ==
    ASSUME NEW os \in Seq(OverrideEntry) PROVE lines(os, overrideOf) \in Seq(AnOverride)
<1>1. /\ Len(os) \in Nat /\ DOMAIN os = 1 .. Len(os)
      /\ \A k \in DOMAIN os : overrideOf(os[k]) \in AnOverride
    BY OverrideOpened
<1>. QED BY <1>1, IsASeq DEF lines

\* The runs of a pool, as they are written and as they are read.
runLines(rs) == [k \in DOMAIN rs |-> [rs[k] EXCEPT !.failures = lines(@, rpcFailureLine)]]
runsOf(rs)   == [k \in DOMAIN rs |-> [rs[k] EXCEPT !.failures = lines(@, rpcFailureOf)]]

LEMMA AllRunsWritten ==
    ASSUME NEW rs \in Seq(RunsWith(ARpcFailure))
    PROVE  /\ runLines(rs) \in Seq(RunsWith(RpcFailureEntry))
           /\ runLines(runsOf(runLines(rs))) = runLines(rs)
<1>. DEFINE L == runLines(rs)
            O == runsOf(L)
<1>1. /\ Len(rs) \in Nat /\ DOMAIN rs = 1 .. Len(rs)
      /\ \A k \in DOMAIN rs : rs[k] \in RunsWith(ARpcFailure)
    OBVIOUS
<1>2. /\ DOMAIN L = DOMAIN rs /\ DOMAIN O = DOMAIN rs /\ DOMAIN runLines(O) = DOMAIN rs
      /\ L = [k \in 1 .. Len(rs) |-> L[k]]
      /\ runLines(O) = [k \in DOMAIN rs |-> runLines(O)[k]]
    BY <1>1 DEF runLines, runsOf
<1>3. \A k \in DOMAIN rs : /\ L[k] = [rs[k] EXCEPT !.failures = lines(@, rpcFailureLine)]
                           /\ O[k] = [L[k] EXCEPT !.failures = lines(@, rpcFailureOf)]
                           /\ runLines(O)[k] = [O[k] EXCEPT !.failures = lines(@, rpcFailureLine)]
    BY DEF runLines, runsOf
<1>. HIDE DEF L, O
<1>4. ASSUME NEW k \in DOMAIN rs
      PROVE  L[k] \in RunsWith(RpcFailureEntry) /\ runLines(O)[k] = L[k]
    <2>1. rs[k] \in RunsWith(ARpcFailure)
        BY <1>1
    <2>. DEFINE l == [rs[k] EXCEPT !.failures = lines(@, rpcFailureLine)]
                g == [l EXCEPT !.failures = lines(@, rpcFailureOf)]
    <2>2. l \in RunsWith(RpcFailureEntry) /\ [g EXCEPT !.failures = lines(@, rpcFailureLine)] = l
        BY <2>1, RunsWritten
    <2>3. L[k] = l
        BY <1>3
    <2>. HIDE DEF l
    <2>4. O[k] = g
        BY <1>3, <2>3
    <2>. HIDE DEF g
    <2>. QED BY <1>3, <2>2, <2>3, <2>4
<1>5. L \in Seq(RunsWith(RpcFailureEntry))
    BY <1>1, <1>2, <1>4, ListOf
<1>6. runLines(O) = L
    BY <1>1, <1>2, <1>4
<1>. QED BY <1>5, <1>6 DEF L, O

LEMMA AllRunsOpened ==
    ASSUME NEW rs \in Seq(RunsWith(RpcFailureEntry))
    PROVE  /\ runsOf(rs) \in Seq(RunsWith(ARpcFailure)) /\ Len(runsOf(rs)) = Len(rs)
           /\ \A k \in DOMAIN rs : runsOf(rs)[k].service = rs[k].service
<1>1. /\ Len(rs) \in Nat /\ DOMAIN rs = 1 .. Len(rs)
      /\ \A k \in DOMAIN rs : rs[k] \in RunsWith(RpcFailureEntry)
    OBVIOUS
<1>2. \A k \in DOMAIN rs : runsOf(rs)[k] = [rs[k] EXCEPT !.failures = lines(@, rpcFailureOf)]
    BY DEF runsOf
<1>3. \A k \in DOMAIN rs : /\ runsOf(rs)[k] \in RunsWith(ARpcFailure)
                           /\ runsOf(rs)[k].service = rs[k].service
    BY <1>1, <1>2, RunsOpened
<1>4. runsOf(rs) = [k \in 1 .. Len(rs) |-> runsOf(rs)[k]]
    BY <1>1 DEF runsOf
<1>. QED BY <1>1, <1>3, <1>4, ListOf

\* What may be the size of a pool.
Sizes(counts) == counts \subseteq Nat \ {0} /\ 1 \in counts

LEMMA PoolWritten ==
    ASSUME NEW counts, Sizes(counts), NEW p \in APool(counts)
    PROVE  LET l == poolLines(p) IN
           /\ l \in PoolEntry(counts) /\ l.zone # Nothing
           /\ ~(l.count = 1 /\ or(l.prefix, l.name) = l.name)
           /\ poolLines(poolOf(l)) = l
<1>. DEFINE l == poolLines(p)
            g == poolOf(l)
<1>1. /\ p.count \in counts /\ p.count \in Nat /\ p.count # 0 /\ 1 \in Nat
      /\ p.name \in Name /\ p.prefix \in Name /\ p.zones \in someZones
      /\ p.runs \in Seq(RunsWith(ARpcFailure)) /\ p.failures \in Seq(AFailure)
      /\ p.overrides \in Seq(AnOverride)
    BY DEF APool, Sizes
<1>2. /\ l.name = p.name /\ l.instance = p.instance /\ l.zone = p.zones
      /\ l.count = unless(~numbered(p), p.count) /\ l.prefix = unless(~numbered(p), p.prefix)
      /\ l.memoryMb = p.memoryMb /\ l.diskMb = p.diskMb
      /\ l.runs = runLines(p.runs) /\ l.failures = lines(p.failures, failureLine)
      /\ l.overrides = lines(p.overrides, overrideLine)
    BY DEF poolLines, runLines
<1>3. l = [name |-> l.name, instance |-> l.instance, zone |-> l.zone, count |-> l.count,
           prefix |-> l.prefix, runs |-> l.runs, memoryMb |-> l.memoryMb, diskMb |-> l.diskMb,
           failures |-> l.failures, overrides |-> l.overrides]
    BY DEF poolLines
<1>4. /\ l.runs \in Seq(RunsWith(RpcFailureEntry)) /\ l.failures \in Seq(FailureEntry)
      /\ l.overrides \in Seq(OverrideEntry)
    BY <1>1, <1>2, AllRunsWritten, FailuresWritten, OverridesWritten
<1>5. l.count \in Opt(counts) /\ l.prefix \in Opt(Name)
    BY <1>1, <1>2 DEF unless, Opt
<1>6. /\ g.name = l.name /\ g.instance = l.instance /\ g.zones = l.zone
      /\ g.count = or(l.count, 1)
      /\ g.prefix = IF l.count = Nothing THEN l.name ELSE or(l.prefix, l.name)
      /\ g.memoryMb = l.memoryMb /\ g.diskMb = l.diskMb
      /\ g.runs = runsOf(l.runs) /\ g.failures = lines(l.failures, failureOf)
      /\ g.overrides = lines(l.overrides, overrideOf)
    BY DEF poolOf, runsOf
<1>. HIDE DEF l, g
<1>7. l \in PoolEntry(counts)
    <2>1. /\ l.name \in Name /\ l.instance \in Text /\ l.zone \in Opt(someZones)
          /\ l.memoryMb \in Opt(Nat) /\ l.diskMb \in Opt(Nat)
        BY <1>1, <1>2 DEF APool, Opt
    <2>. QED BY <2>1, <1>3, <1>4, <1>5 DEF PoolEntry
<1>8. l.zone # Nothing
    BY <1>1, <1>2, NothingIsNot
<1>9. ~(l.count = 1 /\ or(l.prefix, l.name) = l.name)
    BY <1>1, <1>2, NothingIsNot DEF unless, or, numbered
<1>10. g.count = p.count /\ g.prefix = p.prefix
    BY <1>1, <1>2, <1>6, NothingIsNot DEF unless, or, numbered
<1>11. numbered(g) = numbered(p)
    BY <1>2, <1>6, <1>10 DEF numbered
<1>12. /\ runLines(g.runs) = l.runs /\ lines(g.failures, failureLine) = l.failures
       /\ lines(g.overrides, overrideLine) = l.overrides
    BY <1>1, <1>2, <1>6, AllRunsWritten, FailuresWritten, OverridesWritten
<1>13. poolLines(g) = [name |-> g.name, instance |-> g.instance, zone |-> g.zones,
           count |-> unless(~numbered(g), g.count), prefix |-> unless(~numbered(g), g.prefix),
           runs |-> runLines(g.runs), memoryMb |-> g.memoryMb, diskMb |-> g.diskMb,
           failures |-> lines(g.failures, failureLine),
           overrides |-> lines(g.overrides, overrideLine)]
    BY DEF poolLines, runLines
<1>14. poolLines(g) = l
    BY <1>2, <1>3, <1>6, <1>10, <1>11, <1>12, <1>13
<1>. QED BY <1>7, <1>8, <1>9, <1>14 DEF g, l

LEMMA PoolOpened ==
    ASSUME NEW counts, Sizes(counts), NEW l \in PoolEntry(counts), l.zone # Nothing
    PROVE  /\ poolOf(l) \in APool(counts)
           /\ Len(poolOf(l).runs) = Len(l.runs)
           /\ \A k \in DOMAIN l.runs : poolOf(l).runs[k].service = l.runs[k].service
<1>. DEFINE g == poolOf(l)
<1>1. /\ l.name \in Name /\ l.count \in Opt(counts) /\ l.prefix \in Opt(Name)
      /\ l.instance \in Text /\ l.zone \in someZones
      /\ l.runs \in Seq(RunsWith(RpcFailureEntry)) /\ l.failures \in Seq(FailureEntry)
      /\ l.overrides \in Seq(OverrideEntry)
      /\ l.memoryMb \in Opt(Nat) /\ l.diskMb \in Opt(Nat)
    BY DEF PoolEntry, Opt
<1>2. /\ g = [name |-> g.name, count |-> g.count, prefix |-> g.prefix, instance |-> g.instance,
              zones |-> g.zones, runs |-> g.runs, failures |-> g.failures,
              memoryMb |-> g.memoryMb, diskMb |-> g.diskMb, overrides |-> g.overrides]
      /\ g.name = l.name /\ g.instance = l.instance /\ g.zones = l.zone
      /\ g.count = or(l.count, 1)
      /\ g.prefix = IF l.count = Nothing THEN l.name ELSE or(l.prefix, l.name)
      /\ g.memoryMb = l.memoryMb /\ g.diskMb = l.diskMb
      /\ g.runs = runsOf(l.runs) /\ g.failures = lines(l.failures, failureOf)
      /\ g.overrides = lines(l.overrides, overrideOf)
    BY DEF poolOf, runsOf
<1>. HIDE DEF g
<1>3. g.count \in counts /\ g.prefix \in Name
    BY <1>1, <1>2 DEF or, Opt, Sizes
<1>4. /\ g.runs \in Seq(RunsWith(ARpcFailure)) /\ Len(g.runs) = Len(l.runs)
      /\ \A k \in DOMAIN l.runs : g.runs[k].service = l.runs[k].service
      /\ g.failures \in Seq(AFailure) /\ g.overrides \in Seq(AnOverride)
    BY <1>1, <1>2, AllRunsOpened, FailuresOpened, OverridesOpened
<1>5. g \in APool(counts)
    BY <1>1, <1>2, <1>3, <1>4 DEF APool
<1>. QED BY <1>4, <1>5 DEF g

-----------------------------------------------------------------------------
(* A draft, its file, and the draft that is read out of a file.             *)

LEMMA DraftWritten ==
    ASSUME NEW counts, Sizes(counts), NEW d \in ADraft(counts)
    PROVE  /\ toYaml(d) \in AFile(counts) /\ ~cannotShow(toYaml(d))
           /\ toYaml(Of(d.name, toYaml(d))) = toYaml(d)
<1>. DEFINE y == toYaml(d)
            o == Of(d.name, y)
            z == toYaml(o)
<1>1. /\ d.scale \in Nat \ {0} /\ d.net \in Net(Nat) /\ d.pools \in Seq(APool(counts))
      /\ d.retries \in Seq(RetryWith(Nat)) /\ d.simulatedDuration \in SUBSET Price
      /\ d.input \in InputWith(Text)
    BY DEF ADraft
<1>2. /\ y = [scale |-> y.scale, net |-> y.net, nodes |-> y.nodes, input |-> y.input,
              retries |-> y.retries, simulatedDuration |-> y.simulatedDuration]
      /\ z = [scale |-> z.scale, net |-> z.net, nodes |-> z.nodes, input |-> z.input,
              retries |-> z.retries, simulatedDuration |-> z.simulatedDuration]
    BY DEF toYaml
<1>3. y.scale \in Opt(Nat \ {0}) /\ z.scale = y.scale
    <2>1. /\ y.scale = unless(d.scale <= 1, d.scale) /\ o.scale = or(y.scale, 1)
          /\ z.scale = unless(o.scale <= 1, o.scale)
        BY DEF toYaml, Of
    <2>. HIDE DEF y, o, z
    <2>. QED BY <1>1, <2>1, NothingIsNot DEF unless, or, Opt
<1>4. y.net \in Net(Opt(Nat)) /\ z.net = y.net
    <2>1. /\ y.net = [k \in NETS |-> unless(d.net[k] = 0, d.net[k])]
          /\ o.net = [k \in NETS |-> or(y.net[k], 0)]
          /\ z.net = [k \in NETS |-> unless(o.net[k] = 0, o.net[k])]
        BY DEF toYaml, Of
    <2>. HIDE DEF y, o, z
    <2>2. d.net \in [NETS -> Nat] /\ d.net["loss"] \in Opt(0 .. 1) /\ "loss" \in NETS
        BY <1>1 DEF Net, NETS
    <2>3. ASSUME NEW k \in NETS
          PROVE  /\ y.net[k] \in Opt(Nat) /\ (d.net[k] \in 0 .. 1 => y.net[k] \in Opt(0 .. 1))
                 /\ z.net[k] = y.net[k]
        <3>1. /\ y.net[k] = unless(d.net[k] = 0, d.net[k]) /\ o.net[k] = or(y.net[k], 0)
              /\ z.net[k] = unless(o.net[k] = 0, o.net[k]) /\ d.net[k] \in Nat
            BY <2>1, <2>2
        <3>. QED BY <3>1, NothingIsNot DEF unless, or, Opt
    <2>4. z.net = y.net
        BY <2>1, <2>3
    <2>5. d.net["loss"] \in 0 .. 1
        BY <2>2, NothingIsNot DEF Opt
    <2>6. y.net \in [NETS -> Opt(Nat)]
        BY <2>1, <2>3
    <2>. QED BY <2>2, <2>3, <2>4, <2>5, <2>6 DEF Net
<1>5. y.input \in InputWith(Opt(Text)) /\ z.input = y.input
    <2>1. /\ y.input = [d.input EXCEPT !.source = unless(@ = "", @)]
          /\ o.input = [y.input EXCEPT !.source = or(@, "")]
          /\ z.input = [o.input EXCEPT !.source = unless(@ = "", @)]
        BY DEF toYaml, Of
    <2>. HIDE DEF y, o, z
    <2>2. d.input.source \in Text /\ d.input.source # Nothing
        BY <1>1, NothingIsNot DEF InputWith
    <2>. QED BY <1>1, <2>1, <2>2 DEF unless, or, Opt, InputWith
<1>6. y.retries \in Seq(RetryWith(Opt(Nat))) /\ z.retries = y.retries
    <2>1. /\ y.retries = [i \in DOMAIN d.retries |->
                             [d.retries[i] EXCEPT !.multiplier = unless(@ = 1, @)]]
          /\ o.retries = [i \in DOMAIN y.retries |->
                             [y.retries[i] EXCEPT !.multiplier = or(@, 1)]]
          /\ z.retries = [i \in DOMAIN o.retries |->
                             [o.retries[i] EXCEPT !.multiplier = unless(@ = 1, @)]]
        BY DEF toYaml, Of
    <2>. HIDE DEF y, o, z
    <2>2. /\ DOMAIN d.retries = 1 .. Len(d.retries) /\ Len(d.retries) \in Nat
          /\ \A i \in DOMAIN d.retries : d.retries[i] \in RetryWith(Nat)
        BY <1>1
    <2>3. ASSUME NEW i \in DOMAIN d.retries
          PROVE  y.retries[i] \in RetryWith(Opt(Nat)) /\ z.retries[i] = y.retries[i]
        <3>1. DOMAIN y.retries = DOMAIN d.retries /\ DOMAIN o.retries = DOMAIN d.retries
            BY <2>1
        <3>2. /\ y.retries[i] = [d.retries[i] EXCEPT !.multiplier = unless(@ = 1, @)]
              /\ o.retries[i] = [y.retries[i] EXCEPT !.multiplier = or(@, 1)]
              /\ z.retries[i] = [o.retries[i] EXCEPT !.multiplier = unless(@ = 1, @)]
            BY <2>1, <3>1
        <3>3. d.retries[i] \in RetryWith(Nat) /\ d.retries[i].multiplier # Nothing
            BY <2>2, NothingIsNot DEF RetryWith
        <3>. DEFINE a == d.retries[i]
                    b == y.retries[i]
                    c == o.retries[i]
                    e == z.retries[i]
        <3>. HIDE DEF a, b, c, e
        <3>4. /\ b = [a EXCEPT !.multiplier = unless(@ = 1, @)]
              /\ c = [b EXCEPT !.multiplier = or(@, 1)]
              /\ e = [c EXCEPT !.multiplier = unless(@ = 1, @)]
              /\ a \in RetryWith(Nat) /\ a.multiplier # Nothing
            BY <3>2, <3>3 DEF a, b, c, e
        <3>5. b \in RetryWith(Opt(Nat)) /\ e = b
            BY <3>4 DEF unless, or, Opt, RetryWith
        <3>. QED BY <3>5 DEF b, e
    <2>4. y.retries \in Seq(RetryWith(Opt(Nat)))
        <3>1. y.retries = [i \in 1 .. Len(d.retries) |-> y.retries[i]]
            BY <2>1, <2>2
        <3>. QED BY <2>2, <2>3, <3>1, ListOf
    <2>5. z.retries = y.retries
        <3>1. DOMAIN y.retries = DOMAIN d.retries /\ DOMAIN o.retries = DOMAIN y.retries
            BY <2>1
        <3>2. /\ z.retries = [i \in DOMAIN d.retries |-> z.retries[i]]
              /\ y.retries = [i \in DOMAIN d.retries |-> y.retries[i]]
            BY <2>1, <3>1
        <3>. QED BY <2>3, <3>2
    <2>. QED BY <2>4, <2>5
<1>7. y.simulatedDuration \in SUBSET Price /\ z.simulatedDuration = y.simulatedDuration
    <2>1. /\ y.simulatedDuration = {c \in d.simulatedDuration : priced(c)}
          /\ o.simulatedDuration = y.simulatedDuration
          /\ z.simulatedDuration = {c \in o.simulatedDuration : priced(c)}
        BY DEF toYaml, Of
    <2>. HIDE DEF y, o, z
    <2>. QED BY <1>1, <2>1
<1>8. /\ y.nodes \in Seq(PoolEntry(counts)) /\ z.nodes = y.nodes /\ ~cannotShow(y)
    <2>1. /\ y.nodes = [i \in DOMAIN d.pools |-> poolLines(d.pools[i])]
          /\ o.pools = [i \in DOMAIN y.nodes |-> poolOf(y.nodes[i])]
          /\ z.nodes = [i \in DOMAIN o.pools |-> poolLines(o.pools[i])]
        BY DEF toYaml, Of
    <2>. HIDE DEF y, o, z
    <2>2. /\ DOMAIN d.pools = 1 .. Len(d.pools) /\ Len(d.pools) \in Nat
          /\ \A i \in DOMAIN d.pools : d.pools[i] \in APool(counts)
        BY <1>1
    <2>3. ASSUME NEW i \in DOMAIN d.pools
          PROVE  /\ y.nodes[i] \in PoolEntry(counts) /\ z.nodes[i] = y.nodes[i]
                 /\ y.nodes[i].zone # Nothing
                 /\ ~(y.nodes[i].count = 1
                        /\ or(y.nodes[i].prefix, y.nodes[i].name) = y.nodes[i].name)
        <3>1. DOMAIN y.nodes = DOMAIN d.pools /\ DOMAIN o.pools = DOMAIN d.pools
            BY <2>1
        <3>2. /\ y.nodes[i] = poolLines(d.pools[i]) /\ o.pools[i] = poolOf(y.nodes[i])
              /\ z.nodes[i] = poolLines(o.pools[i]) /\ d.pools[i] \in APool(counts)
            BY <2>1, <2>2, <3>1
        <3>. QED BY <3>2, PoolWritten
    <2>4. y.nodes \in Seq(PoolEntry(counts)) /\ DOMAIN y.nodes = DOMAIN d.pools
        <3>1. y.nodes = [i \in 1 .. Len(d.pools) |-> y.nodes[i]]
            BY <2>1, <2>2
        <3>. QED BY <2>2, <2>3, <3>1, ListOf
    <2>5. z.nodes = y.nodes
        <3>1. DOMAIN y.nodes = DOMAIN d.pools /\ DOMAIN o.pools = DOMAIN y.nodes
            BY <2>1
        <3>2. /\ z.nodes = [i \in DOMAIN d.pools |-> z.nodes[i]]
              /\ y.nodes = [i \in DOMAIN d.pools |-> y.nodes[i]]
            BY <2>1, <3>1
        <3>. QED BY <2>3, <3>2
    <2>6. ~cannotShow(y)
        BY <2>3, <2>4 DEF cannotShow, ToSet
    <2>. QED BY <2>4, <2>5, <2>6
<1>9. y \in AFile(counts)
    <2>. HIDE DEF y, z
    <2>. QED BY <1>2, <1>3, <1>4, <1>5, <1>6, <1>7, <1>8 DEF AFile
<1>10. z = y
    <2>. HIDE DEF y, z
    <2>. QED BY <1>2, <1>3, <1>4, <1>5, <1>6, <1>7, <1>8
<1>. QED BY <1>8, <1>9, <1>10

LEMMA DraftOpened ==
    ASSUME NEW counts, Sizes(counts), NEW file \in AFile(counts), ~cannotShow(file),
           file.nodes # <<>>, NEW name \in Text
    PROVE  /\ Of(name, file) \in ADraft(counts)
           /\ DOMAIN Of(name, file).pools = DOMAIN file.nodes
           /\ \A i \in DOMAIN file.nodes :
                 /\ DOMAIN Of(name, file).pools[i].runs = DOMAIN file.nodes[i].runs
                 /\ \A k \in DOMAIN file.nodes[i].runs :
                       Of(name, file).pools[i].runs[k].service = file.nodes[i].runs[k].service
<1>. DEFINE o == Of(name, file)
<1>1. /\ file.scale \in Opt(Nat \ {0}) /\ file.net \in Net(Opt(Nat))
      /\ file.nodes \in Seq(PoolEntry(counts)) /\ file.retries \in Seq(RetryWith(Opt(Nat)))
      /\ file.simulatedDuration \in SUBSET Price /\ file.input \in InputWith(Opt(Text))
    BY DEF AFile
<1>2. /\ o = [name |-> o.name, scale |-> o.scale, net |-> o.net, pools |-> o.pools,
              retries |-> o.retries, simulatedDuration |-> o.simulatedDuration, input |-> o.input]
      /\ o.name = name /\ o.scale = or(file.scale, 1)
      /\ o.net = [k \in NETS |-> or(file.net[k], 0)]
      /\ o.pools = [i \in DOMAIN file.nodes |-> poolOf(file.nodes[i])]
      /\ o.retries = [i \in DOMAIN file.retries |->
                         [file.retries[i] EXCEPT !.multiplier = or(@, 1)]]
      /\ o.simulatedDuration = file.simulatedDuration
      /\ o.input = [file.input EXCEPT !.source = or(@, "")]
    BY DEF Of
<1>. HIDE DEF o
<1>3. o.scale \in Nat \ {0}
    <2>1. file.scale \in Opt(Nat \ {0}) /\ o.scale = or(file.scale, 1)
        BY <1>1, <1>2
    <2>. QED BY <2>1 DEF or, Opt
<1>4. o.net \in Net(Nat)
    <2>1. /\ file.net \in [NETS -> Opt(Nat)] /\ file.net["loss"] \in Opt(0 .. 1)
          /\ "loss" \in NETS
        BY <1>1 DEF Net, NETS
    <2>2. ASSUME NEW k \in NETS PROVE o.net[k] = or(file.net[k], 0) /\ o.net[k] \in Nat
        <3>1. o.net[k] = or(file.net[k], 0) /\ file.net[k] \in Opt(Nat)
            BY <1>2, <2>1
        <3>. QED BY <3>1 DEF or, Opt
    <2>3. o.net["loss"] \in Opt(0 .. 1)
        BY <2>1, <2>2 DEF or, Opt
    <2>4. o.net \in [NETS -> Nat]
        BY <1>2, <2>2
    <2>. QED BY <2>3, <2>4 DEF Net
<1>5. o.input \in InputWith(Text)
    <2>1. file.input.source \in Opt(Text) /\ or(file.input.source, "") \in Text
        BY <1>1, Words DEF InputWith, or, Opt
    <2>. QED BY <1>1, <1>2, <2>1 DEF InputWith
<1>6. o.retries \in Seq(RetryWith(Nat))
    <2>1. /\ DOMAIN file.retries = 1 .. Len(file.retries) /\ Len(file.retries) \in Nat
          /\ \A i \in DOMAIN file.retries : file.retries[i] \in RetryWith(Opt(Nat))
        BY <1>1
    <2>2. ASSUME NEW i \in DOMAIN file.retries PROVE o.retries[i] \in RetryWith(Nat)
        <3>1. o.retries[i] = [file.retries[i] EXCEPT !.multiplier = or(@, 1)]
            BY <1>2
        <3>. QED BY <2>1, <3>1 DEF RetryWith, or, Opt
    <2>. QED BY <1>2, <2>1, <2>2, ListOf
<1>7. /\ DOMAIN file.nodes = 1 .. Len(file.nodes) /\ Len(file.nodes) \in Nat
      /\ \A i \in DOMAIN file.nodes : file.nodes[i] \in PoolEntry(counts)
    BY <1>1
<1>8. ASSUME NEW i \in DOMAIN file.nodes
      PROVE  /\ o.pools[i] \in APool(counts)
             /\ DOMAIN o.pools[i].runs = DOMAIN file.nodes[i].runs
             /\ \A k \in DOMAIN file.nodes[i].runs :
                   o.pools[i].runs[k].service = file.nodes[i].runs[k].service
    <2>1. o.pools[i] = poolOf(file.nodes[i]) /\ file.nodes[i] \in PoolEntry(counts)
        BY <1>2, <1>7
    <2>2. file.nodes[i].zone # Nothing
        BY DEF cannotShow, ToSet
    <2>3. o.pools[i] \in APool(counts)
        BY <2>1, <2>2, PoolOpened
    <2>4. /\ o.pools[i].runs \in Seq(RunsWith(ARpcFailure))
          /\ file.nodes[i].runs \in Seq(RunsWith(RpcFailureEntry))
        BY <2>1, <2>3 DEF APool, PoolEntry
    <2>. QED BY <2>1, <2>2, <2>3, <2>4, PoolOpened
<1>9. o.pools \in Seq(APool(counts)) /\ DOMAIN o.pools = DOMAIN file.nodes
    <2>1. o.pools = [i \in 1 .. Len(file.nodes) |-> o.pools[i]]
        BY <1>2, <1>7
    <2>. QED BY <1>7, <1>8, <2>1, ListOf
<1>10. o.pools # <<>>
    BY <1>1, <1>9
<1>11. o \in ADraft(counts)
    BY <1>1, <1>2, <1>3, <1>4, <1>5, <1>6, <1>9, <1>10 DEF ADraft
<1>. QED BY <1>8, <1>9, <1>11 DEF o

-----------------------------------------------------------------------------
(* The nodes of a draft.                                                    *)

\* The exception of a node, among those of its pool.
At(s, name)   == {k \in 1 .. Len(s) : s[k].node = name}
Over(s, name) == Found(s, At(s, name))

LEMMA NodeOf ==
    ASSUME NEW p, NEW i \in 1 .. p.count
    PROVE  LET name == nodeNames(p)[i]
               over == Over(p.overrides, name) IN
           /\ nodesOf(p)[i].name = name
           /\ nodesOf(p)[i].instance = IF over # Nothing /\ over.instance # Nothing
                                      THEN over.instance ELSE p.instance
           /\ nodesOf(p)[i].zone = IF over # Nothing /\ over.zone # Nothing
                                  THEN over.zone ELSE dealt(p.zones, i)
           /\ nodesOf(p)[i] = [name |-> nodesOf(p)[i].name, instance |-> nodesOf(p)[i].instance,
                               zone |-> nodesOf(p)[i].zone]
BY DEF nodesOf, Over, At, Found, Place1, first, SelectInSeq

LEMMA MachineOf ==
    ASSUME NEW spec, NEW i \in 1 .. or(spec.count, 1)
    PROVE  LET name == IF spec.count = Nothing THEN spec.name
                       ELSE follow(or(spec.prefix, spec.name), i - 1)
               over == IF spec.count = Nothing THEN Nothing ELSE Over(spec.overrides, name)
               m == machinesOf(spec)[i] IN
           /\ m.name = name
           /\ m.instance = IF over = Nothing THEN spec.instance
                           ELSE or(over.instance, spec.instance)
           /\ m.zone = IF over = Nothing THEN dealt(spec.zone, i)
                       ELSE or(over.zone, dealt(spec.zone, i))
BY DEF machinesOf, overrideFor, Over, At, Found, Place1, first, SelectInSeq

ANode == [name : Name, instance : Text, zone : Text]

LEMMA Dealt ==
    ASSUME NEW zones \in someZones, NEW i \in Nat \ {0} PROVE dealt(zones, i) \in Text
<1>1. zones \in Seq(Text) /\ Len(zones) \in Nat /\ Len(zones) # 0
    BY EmptySeq DEF someZones
<1>2. (i - 1) % Len(zones) \in 0 .. (Len(zones) - 1)
    <2>. DEFINE n == Len(zones)
    <2>1. n \in Nat /\ n # 0
        BY <1>1
    <2>. HIDE DEF n
    <2>2. (i - 1) % n \in 0 .. (n - 1)
        BY <2>1
    <2>. QED BY <2>2 DEF n
<1>3. ((i - 1) % Len(zones)) + 1 \in 1 .. Len(zones)
    <2>. DEFINE m == (i - 1) % Len(zones)
    <2>. HIDE DEF m
    <2>. QED BY <1>1, <1>2 DEF m
<1>. QED BY <1>1, <1>3 DEF dealt

LEMMA NodesTyped ==
    ASSUME NEW counts, Sizes(counts), NEW p \in APool(counts)
    PROVE  /\ nodeNames(p) \in Seq(Name) /\ Len(nodeNames(p)) = p.count
           /\ DOMAIN nodeNames(p) = 1 .. p.count
           /\ nodesOf(p) \in Seq(ANode) /\ Len(nodesOf(p)) = p.count
           /\ DOMAIN nodesOf(p) = 1 .. p.count
<1>1. /\ p.count \in Nat /\ p.count # 0 /\ p.name \in Name /\ p.prefix \in Name
      /\ p.instance \in Text /\ p.zones \in someZones /\ p.overrides \in Seq(AnOverride)
    BY DEF APool, Sizes
<1>2. ASSUME NEW i \in 1 .. p.count PROVE nodeNames(p)[i] \in Name
    <2>1. nodeNames(p)[i] = IF numbered(p) THEN follow(p.prefix, i - 1) ELSE p.name
        BY DEF nodeNames
    <2>2. p.prefix[1] \in Text /\ Append(p.prefix[2], i - 1) \in Seq(Nat)
        BY <1>1 DEF Name
    <2>3. follow(p.prefix, i - 1) \in Name
        BY <2>2 DEF follow, Name
    <2>. QED BY <1>1, <2>1, <2>3
<1>3. ASSUME NEW i \in 1 .. p.count PROVE nodesOf(p)[i] \in ANode
    <2>. DEFINE name == nodeNames(p)[i]
                over == Over(p.overrides, name)
    <2>1. over \in Opt(AnOverride)
        <3>1. At(p.overrides, name) \in SUBSET (1 .. Len(p.overrides))
            BY DEF At
        <3>. QED BY <1>1, <3>1, FoundThere DEF Over
    <2>2. over # Nothing => over.instance \in Opt(Text) /\ over.zone \in Opt(Text)
        BY <2>1 DEF Opt, AnOverride, OverrideWith
    <2>3. dealt(p.zones, i) \in Text
        BY <1>1, Dealt
    <2>. DEFINE node == nodesOf(p)[i]
    <2>4. /\ node.name = name
          /\ node.instance = IF over # Nothing /\ over.instance # Nothing
                             THEN over.instance ELSE p.instance
          /\ node.zone = IF over # Nothing /\ over.zone # Nothing
                         THEN over.zone ELSE dealt(p.zones, i)
          /\ node = [name |-> node.name, instance |-> node.instance, zone |-> node.zone]
        BY NodeOf
    <2>. HIDE DEF over, node
    <2>5. node.name \in Name /\ node.instance \in Text /\ node.zone \in Text
        BY <1>1, <1>2, <2>2, <2>3, <2>4 DEF Opt
    <2>6. node \in ANode
        BY <2>4, <2>5 DEF ANode
    <2>. QED BY <2>6 DEF node
<1>4. /\ nodeNames(p) = [i \in 1 .. p.count |-> nodeNames(p)[i]]
      /\ nodesOf(p) = [i \in 1 .. p.count |-> nodesOf(p)[i]]
    BY DEF nodeNames, nodesOf
<1>. QED BY <1>1, <1>2, <1>3, <1>4, ListOf

LEMMA NodesAreMachines ==
    ASSUME NEW counts, Sizes(counts), NEW p \in APool(counts)
    PROVE  LET ns == nodesOf(p)  ms == machinesOf(poolLines(p)) IN
           /\ Len(ns) = Len(ms)
           /\ \A k \in DOMAIN ns :
                /\ ns[k].name = ms[k].name
                /\ ~leftOver(p) => ns[k].instance = ms[k].instance /\ ns[k].zone = ms[k].zone
<1>. DEFINE l == poolLines(p)
            os == p.overrides
            ls == l.overrides
<1>1. /\ p.count \in Nat /\ p.count # 0 /\ p.count # Nothing /\ p.prefix # Nothing
      /\ os \in Seq(AnOverride)
    BY NothingIsNot DEF APool, Sizes
<1>2. /\ l.name = p.name /\ l.instance = p.instance /\ l.zone = p.zones
      /\ l.count = unless(~numbered(p), p.count) /\ l.prefix = unless(~numbered(p), p.prefix)
      /\ ls = lines(os, overrideLine)
    BY DEF poolLines
<1>3. /\ Len(ls) = Len(os) /\ Len(os) \in Nat /\ DOMAIN os = 1 .. Len(os)
      /\ \A k \in 1 .. Len(os) : ls[k] = overrideLine(os[k])
    BY <1>1, <1>2, OverridesWritten DEF lines
<1>. HIDE DEF l
<1>4. or(l.count, 1) = p.count
    BY <1>1, <1>2 DEF unless, or, numbered
<1>5. DOMAIN nodesOf(p) = 1 .. p.count /\ Len(nodesOf(p)) = p.count
    BY NodesTyped
<1>6. Len(machinesOf(l)) = p.count
    <2>1. /\ machinesOf(l) = [i \in 1 .. or(l.count, 1) |-> machinesOf(l)[i]]
        BY DEF machinesOf
    <2>. DEFINE T == {machinesOf(l)[i] : i \in 1 .. p.count}
    <2>2. \A i \in 1 .. p.count : machinesOf(l)[i] \in T
        OBVIOUS
    <2>. HIDE DEF T
    <2>. QED BY <1>1, <1>4, <2>1, <2>2, ListOf
<1>7. ASSUME NEW k \in 1 .. p.count
      PROVE  /\ nodesOf(p)[k].name = machinesOf(l)[k].name
             /\ ~leftOver(p) => /\ nodesOf(p)[k].instance = machinesOf(l)[k].instance
                                /\ nodesOf(p)[k].zone = machinesOf(l)[k].zone
    <2>. DEFINE name == nodeNames(p)[k]
                over == Over(os, name)
                line == Over(ls, name)
    <2>1. name = IF numbered(p) THEN follow(p.prefix, k - 1) ELSE p.name
        BY DEF nodeNames
    <2>2. (l.count = Nothing) = ~numbered(p)
        BY <1>1, <1>2 DEF unless
    <2>3. name = IF l.count = Nothing THEN l.name ELSE follow(or(l.prefix, l.name), k - 1)
        BY <1>1, <1>2, <2>1, <2>2 DEF unless, or
    <2>4. At(ls, name) = At(os, name) /\ At(os, name) \in SUBSET (1 .. Len(os))
        <3>1. \A j \in 1 .. Len(os) : ls[j].node = os[j].node
            <4>1. \A o : overrideLine(o).node = o.node
                BY DEF overrideLine
            <4>. HIDE DEF os, ls
            <4>. QED BY <1>3, <4>1
        <3>. HIDE DEF os, ls
        <3>. QED BY <1>3, <3>1 DEF At
    <2>5. CASE At(os, name) = {}
        <3>1. over = Nothing /\ line = Nothing
            BY <2>4, <2>5, <1>3, PlaceFound DEF Over, Found
        <3>. HIDE DEF over, line, name
        <3>2. /\ nodesOf(p)[k].name = name /\ nodesOf(p)[k].instance = p.instance
              /\ nodesOf(p)[k].zone = dealt(p.zones, k)
            BY <3>1, NodeOf DEF over, name
        <3>3. /\ machinesOf(l)[k].name = name /\ machinesOf(l)[k].instance = l.instance
              /\ machinesOf(l)[k].zone = dealt(l.zone, k)
            BY <1>4, <2>3, <3>1, MachineOf DEF line
        <3>. QED BY <1>2, <3>2, <3>3
    <2>6. CASE At(os, name) # {}
        <3>. DEFINE j == Place1(At(os, name))
        <3>1. j \in At(os, name) /\ over = os[j] /\ line = ls[j]
            BY <2>4, <2>6, <1>3, PlaceFound DEF Over, Found
        <3>2. /\ ls[j] = overrideLine(os[j]) /\ overrideLine(os[j]) \in OverrideEntry
              /\ os[j] \in AnOverride
            BY <1>1, <1>3, <2>4, <3>1, OverrideWritten
        <3>3. /\ over # Nothing /\ line # Nothing
              /\ line.instance = over.instance /\ line.zone = over.zone
            BY <3>1, <3>2, NothingIsNot DEF overrideLine
        <3>6. ~leftOver(p) => numbered(p)
            <4>. SUFFICES ASSUME ~numbered(p) PROVE leftOver(p)
                OBVIOUS
            <4>1. name = p.name
                BY <2>1
            <4>2. os[j] \in ToSet(os) /\ os[j].node = name
                BY <1>3, <2>4, <3>1 DEF At, ToSet
            <4>. QED BY <4>1, <4>2 DEF leftOver
        <3>. HIDE DEF over, line, name
        <3>4. /\ nodesOf(p)[k].name = name
              /\ nodesOf(p)[k].instance = or(over.instance, p.instance)
              /\ nodesOf(p)[k].zone = or(over.zone, dealt(p.zones, k))
            BY <3>3, NodeOf DEF or, over, name
        <3>5. /\ machinesOf(l)[k].name = name
              /\ numbered(p) => /\ machinesOf(l)[k].instance = or(line.instance, l.instance)
                               /\ machinesOf(l)[k].zone = or(line.zone, dealt(l.zone, k))
            BY <1>4, <2>2, <2>3, <3>3, MachineOf DEF line
        <3>. QED BY <1>2, <3>3, <3>4, <3>5, <3>6
    <2>. QED BY <2>5, <2>6
<1>. QED BY <1>5, <1>6, <1>7 DEF l

LEMMA DraftNodes ==
    ASSUME NEW counts, Sizes(counts), NEW d \in ADraft(counts)
    PROVE  nodes(d) \in Seq(ANode)
<1>1. /\ DOMAIN d.pools = 1 .. Len(d.pools) /\ Len(d.pools) \in Nat
      /\ \A i \in DOMAIN d.pools : d.pools[i] \in APool(counts)
    BY DEF ADraft
<1>. DEFINE ns == [i \in DOMAIN d.pools |-> nodesOf(d.pools[i])]
<1>2. \A i \in 1 .. Len(d.pools) : ns[i] \in Seq(ANode)
    BY <1>1, NodesTyped
<1>3. ns \in Seq(Seq(ANode))
    <2>1. ns = [i \in 1 .. Len(d.pools) |-> ns[i]]
        BY <1>1
    <2>. HIDE DEF ns
    <2>. QED BY <1>1, <1>2, <2>1, ListOf
<1>. QED BY <1>3, FlattenIn DEF nodes

-----------------------------------------------------------------------------
(* Where a simulation starts: which pools run the job.  A pool runs it once, *)
(* which is what taking it off wherever it was relies on.                   *)

jobs(p)     == {k \in DOMAIN p.runs : p.runs[k].service = JOB}
OnceIn(p)   == \A j, k \in jobs(p) : j = k
Once(d)     == \A i \in DOMAIN d.pools : OnceIn(d.pools[i])
jobPools(d) == {i \in DOMAIN d.pools : jobs(d.pools[i]) # {}}

\* What a control may make of a draft.
Good(d, e) == /\ e \in ADraft(Counted)
              /\ Once(e)
              /\ entries(e) <= Max({1, entries(d)})

LEMMA CountedSizes == Sizes(Counted) /\ 1 .. 24 \subseteq Counted
BY DEF Sizes, Counted

LEMMA DraftHas ==
    ASSUME NEW d \in ADraft(Counted)
    PROVE  /\ d.name \in Text /\ d.scale \in Nat \ {0} /\ d.net \in Net(Nat)
           /\ d.pools \in Seq(APool(Counted)) /\ d.pools # <<>>
           /\ DOMAIN d.pools = 1 .. Len(d.pools) /\ Len(d.pools) \in Nat
           /\ \A i \in DOMAIN d.pools : d.pools[i] \in APool(Counted)
           /\ d.retries \in Seq(RetryWith(Nat)) /\ d.simulatedDuration \in SUBSET Price
           /\ d.input \in InputWith(Text)
<1>1. /\ d.name \in Text /\ d.scale \in Nat \ {0} /\ d.net \in Net(Nat)
      /\ d.pools \in Seq(APool(Counted)) /\ d.pools # <<>>
      /\ d.retries \in Seq(RetryWith(Nat)) /\ d.simulatedDuration \in SUBSET Price
      /\ d.input \in InputWith(Text)
    BY DEF ADraft
<1>2. /\ DOMAIN d.pools = 1 .. Len(d.pools) /\ Len(d.pools) \in Nat
      /\ \A i \in DOMAIN d.pools : d.pools[i] \in APool(Counted)
    BY <1>1
<1>. QED BY <1>1, <1>2

LEMMA EntriesOf ==
    ASSUME NEW d \in ADraft(Counted)
    PROVE  /\ entries(d) = Cardinality(jobPools(d)) /\ entries(d) \in Nat
           /\ IsFiniteSet(jobPools(d)) /\ jobPools(d) \in SUBSET (DOMAIN d.pools)
<1>1. DOMAIN d.pools = 1 .. Len(d.pools) /\ Len(d.pools) \in Nat
    BY DraftHas
<1>2. jobPools(d) = {i \in DOMAIN d.pools : \E r \in ToSet(d.pools[i].runs) : r.service = JOB}
    BY DEF jobPools, jobs, ToSet
<1>3. IsFiniteSet(DOMAIN d.pools)
    BY <1>1, FS_Interval
<1>4. jobPools(d) \in SUBSET (DOMAIN d.pools)
    BY DEF jobPools
<1>5. IsFiniteSet(jobPools(d))
    BY <1>3, <1>4, FS_Subset
<1>6. entries(d) = Cardinality(jobPools(d))
    BY <1>2 DEF entries
<1>. QED BY <1>4, <1>5, <1>6, FS_CardinalityType

LEMMA AtMost ==
    ASSUME NEW m \in Nat, NEW n \in Nat, m <= 1 \/ m <= n
    PROVE  m <= Max({1, n})
<1>. DEFINE T == {1, n}
<1>1. \E x \in T : \A y \in T : x >= y
    <2>1. CASE n <= 1
        BY <2>1
    <2>2. CASE n > 1
        BY <2>2
    <2>. QED BY <2>1, <2>2
<1>2. Max(T) \in T /\ \A y \in T : Max(T) >= y
    <2>. HIDE DEF T
    <2>. QED BY <1>1 DEF Max
<1>3. Max(T) \in Nat /\ Max(T) >= 1 /\ Max(T) >= n
    <2>. DEFINE x == Max(T)
    <2>1. x \in T /\ \A y \in T : x >= y
        BY <1>2
    <2>. HIDE DEF x
    <2>2. x \in Nat /\ x >= 1 /\ x >= n
        BY <2>1
    <2>. QED BY <2>2 DEF x
<1>. QED BY <1>3

\* A draft in which no pool comes to run the job that did not is as good.
LEMMA GoodWhen ==
    ASSUME NEW d \in ADraft(Counted), NEW e \in ADraft(Counted), Once(e),
           NEW f \in [jobPools(e) -> jobPools(d)],
           \A i, j \in jobPools(e) : f[i] = f[j] => i = j
    PROVE  Good(d, e)
<1>1. f \in Injection(jobPools(e), jobPools(d))
    BY DEF Injection, IsInjective
<1>2. Cardinality(jobPools(e)) <= Cardinality(jobPools(d))
    BY <1>1, EntriesOf, FS_Injection
<1>3. entries(e) <= entries(d) /\ entries(e) \in Nat /\ entries(d) \in Nat
    BY <1>2, EntriesOf
<1>. QED BY <1>3, AtMost DEF Good

LEMMA GoodSame ==
    ASSUME NEW d \in ADraft(Counted), Once(d), NEW e \in ADraft(Counted), e.pools = d.pools
    PROVE  Good(d, e)
<1>1. Once(e) /\ jobPools(e) = jobPools(d)
    BY DEF Once, jobPools
<1>. DEFINE f == [i \in jobPools(e) |-> i]
<1>2. f \in [jobPools(e) -> jobPools(d)] /\ \A i, j \in jobPools(e) : f[i] = f[j] => i = j
    BY <1>1
<1>. HIDE DEF f
<1>. QED BY <1>1, <1>2, GoodWhen

LEMMA GoodPool ==
    ASSUME NEW d \in ADraft(Counted), Once(d), NEW i \in DOMAIN d.pools,
           NEW q \in APool(Counted), OnceIn(q),
           jobs(q) # {} => jobs(d.pools[i]) # {}
    PROVE  Good(d, [d EXCEPT !.pools[i] = q])
<1>. DEFINE e == [d EXCEPT !.pools[i] = q]
            ps == [d.pools EXCEPT ![i] = q]
<1>1. d.pools \in Seq(APool(Counted)) /\ d.pools # <<>>
    BY DraftHas
<1>2. /\ ps \in Seq(APool(Counted)) /\ ps # <<>> /\ DOMAIN ps = DOMAIN d.pools
      /\ \A j \in DOMAIN d.pools : ps[j] = IF j = i THEN q ELSE d.pools[j]
    BY <1>1
<1>3. e = [d EXCEPT !.pools = ps] /\ e.pools = ps
    BY DEF ADraft
<1>. HIDE DEF ps
<1>4. e \in ADraft(Counted)
    <2>1. [d EXCEPT !.pools = ps] \in ADraft(Counted)
        BY <1>2 DEF ADraft
    <2>. QED BY <1>3, <2>1
<1>. HIDE DEF e
<1>5. Once(e) /\ jobPools(e) \subseteq jobPools(d)
    BY <1>2, <1>3 DEF Once, jobPools
<1>. DEFINE f == [j \in jobPools(e) |-> j]
<1>6. f \in [jobPools(e) -> jobPools(d)] /\ \A j, k \in jobPools(e) : f[j] = f[k] => j = k
    BY <1>5
<1>. HIDE DEF f
<1>7. Good(d, e)
    BY <1>4, <1>5, <1>6, GoodWhen
<1>. QED BY <1>7 DEF e

\* A control that leaves alone what a pool runs.
LEMMA GoodPlain ==
    ASSUME NEW d \in ADraft(Counted), Once(d), NEW i \in DOMAIN d.pools,
           NEW q \in APool(Counted), q.runs = d.pools[i].runs
    PROVE  Good(d, [d EXCEPT !.pools[i] = q])
<1>1. jobs(q) = jobs(d.pools[i]) /\ OnceIn(q)
    BY DEF jobs, Once, OnceIn
<1>. QED BY <1>1, GoodPool

\* A control that changes what fails about what a pool runs, and not what it runs.
LEMMA GoodRuns ==
    ASSUME NEW d \in ADraft(Counted), Once(d), NEW i \in DOMAIN d.pools,
           NEW k \in DOMAIN d.pools[i].runs, NEW fs \in Seq(ARpcFailure)
    PROVE  Good(d, [d EXCEPT !.pools[i] = [d.pools[i] EXCEPT !.runs[k].failures = fs]])
<1>. DEFINE p == d.pools[i]
            q == [p EXCEPT !.runs[k].failures = fs]
            rs == [p.runs EXCEPT ![k].failures = fs]
<1>1. p \in APool(Counted) /\ p.runs \in Seq(RunsWith(ARpcFailure))
    BY DraftHas DEF APool
<1>2. /\ p.runs[k] \in RunsWith(ARpcFailure)
      /\ [p.runs[k] EXCEPT !.failures = fs] \in RunsWith(ARpcFailure)
    <2>1. p.runs[k] \in RunsWith(ARpcFailure)
        BY <1>1
    <2>2. \A r \in RunsWith(ARpcFailure) : [r EXCEPT !.failures = fs] \in RunsWith(ARpcFailure)
        BY DEF RunsWith
    <2>. HIDE DEF p
    <2>. QED BY <2>1, <2>2
<1>3. /\ rs \in Seq(RunsWith(ARpcFailure)) /\ DOMAIN rs = DOMAIN p.runs
      /\ \A j \in DOMAIN rs : rs[j] = IF j = k THEN [p.runs[k] EXCEPT !.failures = fs]
                                     ELSE p.runs[j]
    BY <1>1, <1>2
<1>4. q = [p EXCEPT !.runs = rs] /\ q.runs = rs
    BY <1>1 DEF APool
<1>. HIDE DEF rs
<1>5. q \in APool(Counted)
    <2>1. [p EXCEPT !.runs = rs] \in APool(Counted)
        BY <1>1, <1>3 DEF APool
    <2>. QED BY <1>4, <2>1
<1>6. \A j \in DOMAIN p.runs : rs[j].service = p.runs[j].service
    BY <1>2, <1>3 DEF RunsWith
<1>7. jobs(q) = jobs(p)
    <2>. HIDE DEF q, p
    <2>. QED BY <1>3, <1>4, <1>6 DEF jobs
<1>8. OnceIn(q)
    BY <1>7 DEF Once, OnceIn
<1>. HIDE DEF q
<1>9. Good(d, [d EXCEPT !.pools[i] = q])
    BY <1>5, <1>7, <1>8, GoodPool
<1>. QED BY <1>9 DEF q

LEMMA Without ==
    ASSUME NEW T, NEW s \in Seq(T), NEW k \in 1 .. Len(s)
    PROVE  /\ without(s, k) \in Seq(T) /\ Len(without(s, k)) = Len(s) - 1
           /\ \A j \in 1 .. (Len(s) - 1) : without(s, k)[j] = IF j < k THEN s[j] ELSE s[j + 1]
<1>. DEFINE a == SubSeq(s, 1, k - 1)
            b == SubSeq(s, k + 1, Len(s))
<1>1. Len(s) \in Nat /\ k \in Nat /\ 1 <= k /\ k <= Len(s)
    OBVIOUS
<1>2. /\ a \in Seq(T) /\ Len(a) = k - 1
      /\ \A j \in 1 .. (k - 1) : a[j] = s[j]
    BY <1>1
<1>3. /\ b \in Seq(T) /\ Len(b) = Len(s) - k
      /\ \A j \in 1 .. (Len(s) - k) : b[j] = s[k + j]
    BY <1>1
<1>4. without(s, k) = a \o b
    BY DEF without, RemoveAt
<1>. HIDE DEF a, b
<1>5. a \o b \in Seq(T) /\ Len(a \o b) = Len(a) + Len(b)
    BY <1>2, <1>3, ConcatProperties
<1>6. ASSUME NEW j \in 1 .. (Len(s) - 1)
      PROVE  (a \o b)[j] = IF j < k THEN s[j] ELSE s[j + 1]
    <2>1. CASE j < k
        <3>1. (a \o b)[j] = a[j]
            BY <1>1, <1>2, <1>3, <2>1
        <3>. QED BY <1>1, <1>2, <2>1, <3>1
    <2>2. CASE ~(j < k)
        <3>1. (a \o b)[j] = b[j - (k - 1)]
            BY <1>1, <1>2, <1>3, <2>2
        <3>2. j - (k - 1) \in 1 .. (Len(s) - k) /\ k + (j - (k - 1)) = j + 1
            BY <1>1, <2>2
        <3>. QED BY <1>3, <2>2, <3>1, <3>2
    <2>. QED BY <2>1, <2>2
<1>. QED BY <1>1, <1>2, <1>3, <1>4, <1>5, <1>6

-----------------------------------------------------------------------------
(* The controls of the form, each of which makes a good draft of a good one. *)

Ready    == draft \in ADraft(Counted) /\ Once(draft)
GoodEdit == \E e : Good(draft, e) /\ edit(e)

LEMMA ScaleGood == ASSUME Ready, Scale PROVE GoodEdit
<1>1. PICK n \in Amounts : edit([draft EXCEPT !.scale = max1(n)])
    BY DEF Scale
<1>2. max1(n) \in Nat \ {0}
    BY AuthorAssumption DEF max1
<1>3. /\ [draft EXCEPT !.scale = max1(n)] \in ADraft(Counted)
      /\ [draft EXCEPT !.scale = max1(n)].pools = draft.pools
    BY <1>2 DEF Ready, ADraft
<1>. QED BY <1>1, <1>3, GoodSame DEF Ready, GoodEdit

LEMMA NetworkGood == ASSUME Ready, Network PROVE GoodEdit
<1>1. PICK k \in NETS, v \in Amounts :
          edit([draft EXCEPT !.net[k] = IF k = "loss" /\ v > 1 THEN 1 ELSE v])
    BY DEF Network
<1>. DEFINE w == IF k = "loss" /\ v > 1 THEN 1 ELSE v
            n == [draft.net EXCEPT ![k] = w]
<1>2. w \in Nat /\ (k = "loss" => w \in 0 .. 1)
    BY AuthorAssumption
<1>3. /\ draft.net \in [NETS -> Nat] /\ draft.net["loss"] \in Opt(0 .. 1)
      /\ "loss" \in NETS
    BY DraftHas DEF Ready, Net, NETS
<1>. HIDE DEF w
<1>4. n \in Net(Nat)
    BY <1>2, <1>3 DEF Net, Opt
<1>5. [draft EXCEPT !.net[k] = w] = [draft EXCEPT !.net = n]
    BY DEF Ready, ADraft
<1>. HIDE DEF n
<1>6. /\ [draft EXCEPT !.net = n] \in ADraft(Counted)
      /\ [draft EXCEPT !.net = n].pools = draft.pools
    BY <1>4 DEF Ready, ADraft
<1>. QED BY <1>1, <1>5, <1>6, GoodSame DEF Ready, GoodEdit, w

LEMMA TheInputGood == ASSUME Ready, TheInput PROVE GoodEdit
<1>1. ASSUME NEW in \in InputWith(Text), edit([draft EXCEPT !.input = in])
      PROVE  GoodEdit
    <2>1. /\ [draft EXCEPT !.input = in] \in ADraft(Counted)
          /\ [draft EXCEPT !.input = in].pools = draft.pools
        BY DEF Ready, ADraft
    <2>. QED BY <1>1, <2>1, GoodSame DEF Ready, GoodEdit
<1>2. draft.input \in InputWith(Text)
    BY DraftHas DEF Ready
<1>3. ASSUME NEW n \in Amounts, edit([draft EXCEPT !.input.count = max1(n)])
      PROVE  GoodEdit
    <2>1. max1(n) \in Nat
        BY AuthorAssumption DEF max1
    <2>2. [draft.input EXCEPT !.count = max1(n)] \in InputWith(Text)
        BY <1>2, <2>1 DEF InputWith
    <2>3. [draft EXCEPT !.input.count = max1(n)]
              = [draft EXCEPT !.input = [draft.input EXCEPT !.count = max1(n)]]
        BY DEF Ready, ADraft
    <2>. QED BY <1>1, <1>3, <2>2, <2>3
<1>4. ASSUME NEW u \in {"item", ""}, edit([draft EXCEPT !.input.unit = u])
      PROVE  GoodEdit
    <2>1. [draft.input EXCEPT !.unit = u] \in InputWith(Text)
        BY <1>2, Words DEF InputWith
    <2>2. [draft EXCEPT !.input.unit = u]
              = [draft EXCEPT !.input = [draft.input EXCEPT !.unit = u]]
        BY DEF Ready, ADraft
    <2>. QED BY <1>1, <1>4, <2>1, <2>2
<1>5. ASSUME NEW u \in {"", "data"}, edit([draft EXCEPT !.input.source = u])
      PROVE  GoodEdit
    <2>1. [draft.input EXCEPT !.source = u] \in InputWith(Text)
        BY <1>2, Words DEF InputWith
    <2>2. [draft EXCEPT !.input.source = u]
              = [draft EXCEPT !.input = [draft.input EXCEPT !.source = u]]
        BY DEF Ready, ADraft
    <2>. QED BY <1>1, <1>5, <2>1, <2>2
<1>. QED BY <1>3, <1>4, <1>5 DEF TheInput

LEMMA SaveAsGood == ASSUME Ready, SaveAs PROVE GoodEdit
<1>1. PICK name \in DOMAIN Written \cup {"authored"} : edit([draft EXCEPT !.name = name])
    BY DEF SaveAs
<1>2. name \in Text
    BY AuthorAssumption, Words
<1>3. /\ [draft EXCEPT !.name = name] \in ADraft(Counted)
      /\ [draft EXCEPT !.name = name].pools = draft.pools
    BY <1>2 DEF Ready, ADraft
<1>. QED BY <1>1, <1>3, GoodSame DEF Ready, GoodEdit

LEMMA GoodRetries ==
    ASSUME Ready, NEW rs \in Seq(RetryWith(Nat)), edit([draft EXCEPT !.retries = rs])
    PROVE  GoodEdit
<1>1. /\ [draft EXCEPT !.retries = rs] \in ADraft(Counted)
      /\ [draft EXCEPT !.retries = rs].pools = draft.pools
    BY DEF Ready, ADraft
<1>. QED BY <1>1, GoodSame DEF Ready, GoodEdit

\* The rpcs a retry may be of.
AMethod == [method : Text \X Text, idempotent : BOOLEAN]

LEMMA Methods == methods \in Seq(AMethod)
<1>1. /\ DOMAIN services = 1 .. Len(services) /\ Len(services) \in Nat
      /\ \A i \in DOMAIN services : services[i] \in AService
    BY PaletteAssumption
<1>. DEFINE of(i) == [k \in DOMAIN services[i].rpcs |->
                        [method |-> <<services[i].service, services[i].rpcs[k].name>>,
                         idempotent |-> services[i].rpcs[k].idempotent]]
            ms == [i \in DOMAIN services |-> of(i)]
<1>2. ASSUME NEW i \in DOMAIN services PROVE of(i) \in Seq(AMethod)
    <2>. DEFINE rs == services[i].rpcs
    <2>1. /\ services[i].service \in Text
          /\ rs \in Seq([name : Text, idempotent : BOOLEAN])
        BY <1>1 DEF AService
    <2>2. /\ DOMAIN rs = 1 .. Len(rs) /\ Len(rs) \in Nat
          /\ \A k \in DOMAIN rs : rs[k] \in [name : Text, idempotent : BOOLEAN]
        <3>. DEFINE T == [name : Text, idempotent : BOOLEAN]
        <3>1. rs \in Seq(T)
            BY <2>1
        <3>. HIDE DEF rs, T
        <3>2. DOMAIN rs = 1 .. Len(rs) /\ Len(rs) \in Nat /\ \A k \in DOMAIN rs : rs[k] \in T
            BY <3>1, Elements
        <3>. QED BY <3>2 DEF T
    <2>3. ASSUME NEW k \in DOMAIN rs PROVE of(i)[k] \in AMethod
        <3>1. of(i)[k] = [method |-> <<services[i].service, rs[k].name>>,
                          idempotent |-> rs[k].idempotent]
            OBVIOUS
        <3>2. rs[k].name \in Text /\ rs[k].idempotent \in BOOLEAN
            BY <2>2
        <3>. HIDE DEF of, rs
        <3>. QED BY <2>1, <3>1, <3>2 DEF AMethod
    <2>4. of(i) = [k \in 1 .. Len(rs) |-> of(i)[k]]
        BY <2>2
    <2>. HIDE DEF of
    <2>. QED BY <2>2, <2>3, <2>4, ListOf
<1>3. ms \in Seq(Seq(AMethod))
    <2>1. ms = [i \in 1 .. Len(services) |-> ms[i]] /\ \A i \in DOMAIN services : ms[i] = of(i)
        BY <1>1
    <2>. HIDE DEF ms, of
    <2>. QED BY <1>1, <1>2, <2>1, ListOf
<1>. QED BY <1>3, FlattenIn DEF methods

LEMMA AddRetryGood == ASSUME Ready, AddRetry PROVE GoodEdit
<1>. DEFINE I == {k \in 1 .. Len(methods) : methods[k].idempotent}
            found == Found(methods, I)
            m == or(found, methods[1])
            r == [method |-> m.method, attempts |-> 3, backoff |-> 1, multiplier |-> 1,
                  unsafe |-> ~m.idempotent]
<1>1. first(methods, LAMBDA x : x.idempotent) = found
    BY DEF first, SelectInSeq, Found, Place1
<1>2. methods # <<>> /\ edit([draft EXCEPT !.retries = Append(@, r)])
    BY <1>1 DEF AddRetry
<1>3. methods[1] \in AMethod
    BY <1>2, Methods
<1>4. found \in Opt(AMethod)
    BY Methods, FoundThere
<1>. HIDE DEF found
<1>5. m \in AMethod
    BY <1>3, <1>4 DEF or, Opt
<1>. HIDE DEF m
<1>6. r \in RetryWith(Nat)
    BY <1>5 DEF AMethod, RetryWith
<1>. HIDE DEF r
<1>7. draft.retries \in Seq(RetryWith(Nat))
    BY DraftHas DEF Ready
<1>8. Append(draft.retries, r) \in Seq(RetryWith(Nat))
    BY <1>6, <1>7
<1>. QED BY <1>2, <1>8, GoodRetries

LEMMA RetriesGood == ASSUME Ready, Retries PROVE GoodEdit
<1>. DEFINE rs == draft.retries
<1>1. rs \in Seq(RetryWith(Nat))
    BY DraftHas DEF Ready
<1>2. ASSUME NEW i \in DOMAIN rs, NEW q \in RetryWith(Nat), edit([draft EXCEPT !.retries[i] = q])
      PROVE  GoodEdit
    <2>1. [rs EXCEPT ![i] = q] \in Seq(RetryWith(Nat))
        BY <1>1
    <2>2. [draft EXCEPT !.retries[i] = q] = [draft EXCEPT !.retries = [rs EXCEPT ![i] = q]]
        BY DEF Ready, ADraft
    <2>. QED BY <1>2, <2>1, <2>2, GoodRetries
<1>3. PICK i \in DOMAIN rs :
          \/ \E m \in ToSet(methods) : edit([draft EXCEPT !.retries[i] =
                 [rs[i] EXCEPT !.method = m.method, !.unsafe = ~safe(m.method)]])
          \/ \E v \in Amounts : edit([draft EXCEPT !.retries[i] = [rs[i] EXCEPT !.attempts = max1(v)]])
          \/ \E v \in Amounts : edit([draft EXCEPT !.retries[i] = [rs[i] EXCEPT !.backoff = v]])
          \/ \E v \in Amounts : edit([draft EXCEPT !.retries[i] = [rs[i] EXCEPT !.multiplier = max1(v)]])
          \/ edit([draft EXCEPT !.retries = without(@, i)])
    BY Zenon DEF Retries
<1>4. rs[i] \in RetryWith(Nat) /\ i \in 1 .. Len(rs)
    BY <1>1
<1>. DEFINE q == rs[i]
<1>5. ASSUME NEW m \in ToSet(methods), edit([draft EXCEPT !.retries[i] =
                 [q EXCEPT !.method = m.method, !.unsafe = ~safe(m.method)]])
      PROVE  GoodEdit
    <2>1. m \in AMethod
        BY Methods DEF ToSet
    <2>2. safe(m.method) \in BOOLEAN /\ m.method \in Text \X Text
        BY <2>1 DEF safe, AMethod
    <2>. HIDE DEF q
    <2>3. [q EXCEPT !.method = m.method, !.unsafe = ~safe(m.method)] \in RetryWith(Nat)
        BY <1>4, <2>2 DEF RetryWith, q
    <2>. QED BY <1>2, <1>5, <2>3
<1>6. ASSUME NEW v \in Amounts
      PROVE  /\ [q EXCEPT !.attempts = max1(v)] \in RetryWith(Nat)
             /\ [q EXCEPT !.backoff = v] \in RetryWith(Nat)
             /\ [q EXCEPT !.multiplier = max1(v)] \in RetryWith(Nat)
    <2>1. v \in Nat /\ max1(v) \in Nat
        BY AuthorAssumption DEF max1
    <2>. HIDE DEF q
    <2>. QED BY <1>4, <2>1 DEF RetryWith, q
<1>7. without(rs, i) \in Seq(RetryWith(Nat))
    BY <1>1, <1>4, Without
<1>8. ASSUME edit([draft EXCEPT !.retries = without(@, i)]) PROVE GoodEdit
    BY <1>7, <1>8, GoodRetries
<1>9. ASSUME NEW v \in Amounts, edit([draft EXCEPT !.retries[i] = [q EXCEPT !.attempts = max1(v)]])
      PROVE  GoodEdit
    BY <1>2, <1>6, <1>9
<1>10. ASSUME NEW v \in Amounts, edit([draft EXCEPT !.retries[i] = [q EXCEPT !.backoff = v]])
       PROVE  GoodEdit
    BY <1>2, <1>6, <1>10
<1>11. ASSUME NEW v \in Amounts, edit([draft EXCEPT !.retries[i] = [q EXCEPT !.multiplier = max1(v)]])
       PROVE  GoodEdit
    BY <1>2, <1>6, <1>11
<1>. QED BY <1>3, <1>5, <1>8, <1>9, <1>10, <1>11, Zenon

LEMMA PoolHas ==
    ASSUME Ready, NEW i \in pools
    PROVE  LET p == pool(i) IN
           /\ p \in APool(Counted) /\ p = draft.pools[i]
           /\ p.name \in Name /\ p.prefix \in Name /\ p.instance \in Text
           /\ p.count \in Counted /\ p.count \in Nat \ {0}
           /\ p.zones \in someZones /\ p.runs \in Seq(RunsWith(ARpcFailure))
           /\ p.failures \in Seq(AFailure) /\ p.overrides \in Seq(AnOverride)
<1>1. pool(i) \in APool(Counted) /\ pool(i) = draft.pools[i]
    BY DraftHas DEF Ready, pool, pools
<1>2. Counted \subseteq Nat \ {0}
    BY CountedSizes DEF Sizes
<1>. QED BY <1>1, <1>2 DEF APool

\* A control of a pool that leaves alone what it runs.
LEMMA PlainEdit ==
    ASSUME Ready, NEW i \in pools, NEW q \in APool(Counted), q.runs = pool(i).runs,
           editPool(i, q)
    PROVE  GoodEdit
<1>1. i \in DOMAIN draft.pools /\ pool(i) = draft.pools[i]
    BY DEF pools, pool
<1>2. Good(draft, [draft EXCEPT !.pools[i] = q])
    BY <1>1, GoodPlain DEF Ready
<1>3. edit([draft EXCEPT !.pools[i] = q])
    BY DEF editPool
<1>. QED BY <1>2, <1>3 DEF GoodEdit

LEMMA RenameGood == ASSUME Ready, Rename PROVE GoodEdit
<1>1. PICK i \in pools, name \in Names :
          editPool(i, [pool(i) EXCEPT !.name = name,
                                      !.prefix = IF @ = pool(i).name THEN name ELSE @])
    BY DEF Rename
<1>. DEFINE p == pool(i)
            q == [p EXCEPT !.name = name, !.prefix = IF @ = p.name THEN name ELSE @]
<1>2. p \in APool(Counted) /\ p.prefix \in Name /\ name \in Name
    BY PoolHas, AuthorAssumption
<1>3. q \in APool(Counted) /\ q.runs = p.runs
    <2>. HIDE DEF p
    <2>. QED BY <1>2 DEF APool
<1>. QED BY <1>1, <1>3, PlainEdit

LEMMA HowManyGood == ASSUME Ready, HowMany PROVE GoodEdit
<1>1. PICK i \in pools, n \in Counts :
          editPool(i, [pool(i) EXCEPT !.count = IF n > 24 THEN 24 ELSE max1(n)])
    BY DEF HowMany
<1>. DEFINE p == pool(i)
            c == IF n > 24 THEN 24 ELSE max1(n)
<1>2. c \in 1 .. 24
    BY AuthorAssumption DEF max1
<1>3. p \in APool(Counted) /\ c \in Counted
    BY <1>2, PoolHas, CountedSizes
<1>4. [p EXCEPT !.count = c] \in APool(Counted) /\ [p EXCEPT !.count = c].runs = p.runs
    <2>. HIDE DEF p, c
    <2>. QED BY <1>3 DEF APool
<1>. QED BY <1>1, <1>4, PlainEdit

LEMMA CalledGood == ASSUME Ready, Called PROVE GoodEdit
<1>1. PICK i \in pools, name \in Names : editPool(i, [pool(i) EXCEPT !.prefix = name])
    BY DEF Called
<1>. DEFINE p == pool(i)
<1>2. p \in APool(Counted) /\ name \in Name
    BY PoolHas, AuthorAssumption
<1>3. [p EXCEPT !.prefix = name] \in APool(Counted) /\ [p EXCEPT !.prefix = name].runs = p.runs
    <2>. HIDE DEF p
    <2>. QED BY <1>2 DEF APool
<1>. QED BY <1>1, <1>3, PlainEdit

LEMMA InstancesHave ==
    /\ \A k \in DOMAIN instances : instances[k].name \in Text
    /\ 1 \in DOMAIN instances
<1>. DEFINE T == [name : Text, perHour : Nat]
<1>1. instances \in Seq(T) \ {<<>>}
    BY PaletteAssumption
<1>2. \A t \in T : t.name \in Text
    OBVIOUS
<1>. HIDE DEF T
<1>3. \A k \in DOMAIN instances : instances[k] \in T
    BY <1>1, Elements
<1>4. DOMAIN instances = 1 .. Len(instances) /\ Len(instances) \in Nat /\ Len(instances) # 0
    BY <1>1, EmptySeq, Elements
<1>. QED BY <1>2, <1>3, <1>4

LEMMA InstanceGood == ASSUME Ready, Instance PROVE GoodEdit
<1>1. PICK i \in pools, k \in DOMAIN instances :
          editPool(i, [pool(i) EXCEPT !.instance = instances[k].name])
    BY DEF Instance
<1>. DEFINE p == pool(i)
            q == [p EXCEPT !.instance = instances[k].name]
<1>2. p \in APool(Counted) /\ instances[k].name \in Text
    BY PoolHas, InstancesHave
<1>3. q \in APool(Counted) /\ q.runs = p.runs
    <2>. HIDE DEF p
    <2>. QED BY <1>2 DEF APool
<1>. QED BY <1>1, <1>3, PlainEdit

LEMMA Typed == typed \subseteq Opt(Nat)
BY AuthorAssumption DEF typed, Opt

LEMMA CapsGood == ASSUME Ready, Caps PROVE GoodEdit
<1>1. PICK i \in pools, v \in typed :
          \/ editPool(i, [pool(i) EXCEPT !.memoryMb = v])
          \/ editPool(i, [pool(i) EXCEPT !.diskMb = v])
    BY DEF Caps
<1>. DEFINE p == pool(i)
<1>2. p \in APool(Counted) /\ v \in Opt(Nat)
    BY PoolHas, Typed
<1>3. /\ [p EXCEPT !.memoryMb = v] \in APool(Counted) /\ [p EXCEPT !.memoryMb = v].runs = p.runs
      /\ [p EXCEPT !.diskMb = v] \in APool(Counted) /\ [p EXCEPT !.diskMb = v].runs = p.runs
    <2>. HIDE DEF p
    <2>. QED BY <1>2 DEF APool
<1>. QED BY <1>1, <1>3, PlainEdit

LEMMA RegionsHave ==
    \A r \in DOMAIN regions : regions[r].zones \in someZones /\ regions[r].zones \in Seq(Text)
<1>. DEFINE T == [name : Text, continent : Text, zones : someZones]
<1>1. regions \in Seq(T) \ {<<>>}
    BY PaletteAssumption
<1>2. \A t \in T : t.zones \in someZones /\ t.zones \in Seq(Text)
    BY DEF someZones
<1>. HIDE DEF T
<1>3. \A r \in DOMAIN regions : regions[r] \in T
    BY <1>1, Elements
<1>. QED BY <1>2, <1>3

LEMMA ZonesGood == ASSUME Ready, Zones PROVE GoodEdit
<1>1. PICK i \in pools, r \in DOMAIN regions, k \in 1 .. 2 :
          /\ k \in DOMAIN regions[r].zones
          /\ LET z == regions[r].zones[k]
                 at == SelectInSeq(pool(i).zones, LAMBDA x : x = z) IN
             editPool(i, [pool(i) EXCEPT !.zones =
                 IF at = 0 THEN Append(@, z) ELSE IF Len(@) > 1 THEN without(@, at) ELSE @])
    BY DEF Zones
<1>. DEFINE p == pool(i)
            z == regions[r].zones[k]
            zs == p.zones
            I == {j \in 1 .. Len(zs) : zs[j] = z}
            at == Place1(I)
            ys == IF at = 0 THEN Append(zs, z) ELSE IF Len(zs) > 1 THEN without(zs, at) ELSE zs
<1>2. SelectInSeq(zs, LAMBDA x : x = z) = at
    BY DEF SelectInSeq, Place1
<1>3. editPool(i, [p EXCEPT !.zones = ys])
    BY <1>1, <1>2
<1>4. p \in APool(Counted) /\ zs \in someZones
    BY PoolHas
<1>5. zs \in Seq(Text) /\ Len(zs) \in Nat /\ z \in Text
    <2>1. regions[r].zones \in Seq(Text)
        BY RegionsHave
    <2>. QED BY <1>1, <1>4, <2>1 DEF someZones
<1>6. at \in 0 .. Len(zs)
    <2>1. I \in SUBSET (1 .. Len(zs))
        OBVIOUS
    <2>2. I # {} => at \in I
        BY <1>5, <2>1, PlaceFound
    <2>3. I = {} <=> at = 0
        BY <1>5, <2>1, PlaceFound
    <2>. HIDE DEF at
    <2>. QED BY <1>5, <2>1, <2>2, <2>3
<1>. HIDE DEF at, z
<1>7. ys \in someZones
    <2>1. CASE at = 0
        <3>1. Append(zs, z) \in Seq(Text) /\ Append(zs, z) # <<>>
            BY <1>5, AppendProperties
        <3>. QED BY <2>1, <3>1 DEF someZones
    <2>2. CASE at # 0 /\ Len(zs) > 1
        <3>1. at \in 1 .. Len(zs)
            BY <1>5, <1>6, <2>2
        <3>2. without(zs, at) \in Seq(Text) /\ Len(without(zs, at)) = Len(zs) - 1
            BY <1>5, <3>1, Without
        <3>3. without(zs, at) # <<>>
            <4>. DEFINE w == without(zs, at)
            <4>1. w \in Seq(Text) /\ Len(w) # 0
                BY <1>5, <2>2, <3>2
            <4>. HIDE DEF w
            <4>2. w # <<>>
                BY <4>1
            <4>. QED BY <4>2 DEF w
        <3>. QED BY <2>2, <3>2, <3>3 DEF someZones
    <2>3. CASE at # 0 /\ ~(Len(zs) > 1)
        BY <1>4, <2>3
    <2>. QED BY <2>1, <2>2, <2>3
<1>. HIDE DEF ys
<1>8. [p EXCEPT !.zones = ys] \in APool(Counted) /\ [p EXCEPT !.zones = ys].runs = p.runs
    <2>. HIDE DEF p
    <2>. QED BY <1>4, <1>7 DEF APool
<1>. QED BY <1>3, <1>8, PlainEdit

LEMMA OverridesEdit ==
    ASSUME Ready, NEW i \in pools, NEW os \in Seq(AnOverride),
           editPool(i, [pool(i) EXCEPT !.overrides = os])
    PROVE  GoodEdit
<1>. DEFINE p == pool(i)
<1>1. p \in APool(Counted)
    BY PoolHas
<1>2. [p EXCEPT !.overrides = os] \in APool(Counted) /\ [p EXCEPT !.overrides = os].runs = p.runs
    <2>. HIDE DEF p
    <2>. QED BY <1>1 DEF APool
<1>. QED BY <1>2, PlainEdit

LEMMA AddExceptionGood == ASSUME Ready, AddException PROVE GoodEdit
<1>1. PICK i \in pools :
          LET names == nodeNames(pool(i))
              taken == {o.node : o \in ToSet(pool(i).overrides)}
              free  == first(names, LAMBDA n : n \notin taken) IN
          editPool(i, [pool(i) EXCEPT !.overrides = Append(@, plain(or(free, names[1])))])
    BY DEF AddException
<1>. DEFINE p == pool(i)
            names == nodeNames(p)
            taken == {o.node : o \in ToSet(p.overrides)}
            I == {k \in 1 .. Len(names) : names[k] \notin taken}
            free == Found(names, I)
            name == or(free, names[1])
<1>2. first(names, LAMBDA n : n \notin taken) = free
    BY DEF first, SelectInSeq, Found, Place1
<1>3. editPool(i, [p EXCEPT !.overrides = Append(@, plain(name))])
    BY <1>1, <1>2
<1>4. /\ p \in APool(Counted) /\ p.overrides \in Seq(AnOverride) /\ p.count \in Nat \ {0}
    BY PoolHas
<1>5. names \in Seq(Name) /\ Len(names) = p.count /\ DOMAIN names = 1 .. p.count
    BY <1>4, CountedSizes, NodesTyped
<1>6. free \in Opt(Name) /\ names[1] \in Name
    <2>1. I \in SUBSET (1 .. Len(names))
        OBVIOUS
    <2>2. 1 \in DOMAIN names
        BY <1>4, <1>5
    <2>. QED BY <1>5, <2>1, <2>2, Elements, FoundThere
<1>. HIDE DEF free, names
<1>7. name \in Name
    BY <1>6 DEF or, Opt
<1>. HIDE DEF name
<1>8. plain(name) \in AnOverride
    <2>1. <<>> \in Seq(AFailure)
        OBVIOUS
    <2>. QED BY <1>7, <2>1 DEF plain, AnOverride, OverrideWith, Opt
<1>9. Append(p.overrides, plain(name)) \in Seq(AnOverride)
    BY <1>4, <1>8
<1>. QED BY <1>3, <1>9, OverridesEdit

LEMMA ExceptionsGood == ASSUME Ready, Exceptions PROVE GoodEdit
<1>1. PICK i \in pools : \E k \in DOMAIN pool(i).overrides :
         \/ \E n \in ToSet(nodeNames(pool(i))) :
                editPool(i, [pool(i) EXCEPT !.overrides[k].node = n])
         \/ \E x \in {instances[j].name : j \in DOMAIN instances} \cup {Nothing} :
                editPool(i, [pool(i) EXCEPT !.overrides[k].instance = x])
         \/ \E z \in (UNION {ToSet(regions[j].zones) : j \in DOMAIN regions}) \cup {Nothing} :
                editPool(i, [pool(i) EXCEPT !.overrides[k].zone = z])
         \/ \E v \in typed : editPool(i, [pool(i) EXCEPT !.overrides[k].memoryMb = v])
         \/ \E v \in typed : editPool(i, [pool(i) EXCEPT !.overrides[k].diskMb = v])
         \/ editPool(i, [pool(i) EXCEPT !.overrides = without(@, k)])
    BY Zenon DEF Exceptions
<1>. DEFINE p == pool(i)
            os == p.overrides
<1>2. /\ p \in APool(Counted) /\ os \in Seq(AnOverride)
    BY PoolHas
<1>3. PICK k \in DOMAIN os :
         \/ \E n \in ToSet(nodeNames(p)) : editPool(i, [p EXCEPT !.overrides[k].node = n])
         \/ \E x \in {instances[j].name : j \in DOMAIN instances} \cup {Nothing} :
                editPool(i, [p EXCEPT !.overrides[k].instance = x])
         \/ \E z \in (UNION {ToSet(regions[j].zones) : j \in DOMAIN regions}) \cup {Nothing} :
                editPool(i, [p EXCEPT !.overrides[k].zone = z])
         \/ \E v \in typed : editPool(i, [p EXCEPT !.overrides[k].memoryMb = v])
         \/ \E v \in typed : editPool(i, [p EXCEPT !.overrides[k].diskMb = v])
         \/ editPool(i, [p EXCEPT !.overrides = without(@, k)])
    BY <1>1
<1>4. k \in 1 .. Len(os) /\ os[k] \in AnOverride
    BY <1>2, Elements
<1>5. ASSUME NEW o \in AnOverride, editPool(i, [p EXCEPT !.overrides[k] = o]) PROVE GoodEdit
    <2>1. [os EXCEPT ![k] = o] \in Seq(AnOverride)
        BY <1>2
    <2>2. [p EXCEPT !.overrides[k] = o] = [p EXCEPT !.overrides = [os EXCEPT ![k] = o]]
        <3>. HIDE DEF p
        <3>. QED BY <1>2 DEF APool
    <2>. QED BY <1>5, <2>1, <2>2, OverridesEdit
<1>6. ASSUME NEW n \in Name, editPool(i, [p EXCEPT !.overrides[k].node = n]) PROVE GoodEdit
    <2>1. [os[k] EXCEPT !.node = n] \in AnOverride
        <3>. DEFINE o == os[k]
        <3>. HIDE DEF o
        <3>1. [o EXCEPT !.node = n] \in AnOverride
            BY <1>4 DEF AnOverride, OverrideWith, o
        <3>. QED BY <3>1 DEF o
    <2>2. [p EXCEPT !.overrides[k].node = n] = [p EXCEPT !.overrides[k] = [os[k] EXCEPT !.node = n]]
        <3>. HIDE DEF p
        <3>. QED BY <1>2, <1>4 DEF APool
    <2>. QED BY <1>5, <1>6, <2>1, <2>2
<1>7. ASSUME NEW x \in Opt(Text), editPool(i, [p EXCEPT !.overrides[k].instance = x])
      PROVE  GoodEdit
    <2>1. [os[k] EXCEPT !.instance = x] \in AnOverride
        <3>. DEFINE o == os[k]
        <3>. HIDE DEF o
        <3>1. [o EXCEPT !.instance = x] \in AnOverride
            BY <1>4 DEF AnOverride, OverrideWith, o
        <3>. QED BY <3>1 DEF o
    <2>2. [p EXCEPT !.overrides[k].instance = x]
              = [p EXCEPT !.overrides[k] = [os[k] EXCEPT !.instance = x]]
        <3>. HIDE DEF p
        <3>. QED BY <1>2, <1>4 DEF APool
    <2>. QED BY <1>5, <1>7, <2>1, <2>2
<1>8. ASSUME NEW x \in Opt(Text), editPool(i, [p EXCEPT !.overrides[k].zone = x])
      PROVE  GoodEdit
    <2>1. [os[k] EXCEPT !.zone = x] \in AnOverride
        <3>. DEFINE o == os[k]
        <3>. HIDE DEF o
        <3>1. [o EXCEPT !.zone = x] \in AnOverride
            BY <1>4 DEF AnOverride, OverrideWith, o
        <3>. QED BY <3>1 DEF o
    <2>2. [p EXCEPT !.overrides[k].zone = x]
              = [p EXCEPT !.overrides[k] = [os[k] EXCEPT !.zone = x]]
        <3>. HIDE DEF p
        <3>. QED BY <1>2, <1>4 DEF APool
    <2>. QED BY <1>5, <1>8, <2>1, <2>2
<1>9. ASSUME NEW v \in Opt(Nat), editPool(i, [p EXCEPT !.overrides[k].memoryMb = v])
      PROVE  GoodEdit
    <2>1. [os[k] EXCEPT !.memoryMb = v] \in AnOverride
        <3>. DEFINE o == os[k]
        <3>. HIDE DEF o
        <3>1. [o EXCEPT !.memoryMb = v] \in AnOverride
            BY <1>4 DEF AnOverride, OverrideWith, o
        <3>. QED BY <3>1 DEF o
    <2>2. [p EXCEPT !.overrides[k].memoryMb = v]
              = [p EXCEPT !.overrides[k] = [os[k] EXCEPT !.memoryMb = v]]
        <3>. HIDE DEF p
        <3>. QED BY <1>2, <1>4 DEF APool
    <2>. QED BY <1>5, <1>9, <2>1, <2>2
<1>10. ASSUME NEW v \in Opt(Nat), editPool(i, [p EXCEPT !.overrides[k].diskMb = v])
       PROVE  GoodEdit
    <2>1. [os[k] EXCEPT !.diskMb = v] \in AnOverride
        <3>. DEFINE o == os[k]
        <3>. HIDE DEF o
        <3>1. [o EXCEPT !.diskMb = v] \in AnOverride
            BY <1>4 DEF AnOverride, OverrideWith, o
        <3>. QED BY <3>1 DEF o
    <2>2. [p EXCEPT !.overrides[k].diskMb = v]
              = [p EXCEPT !.overrides[k] = [os[k] EXCEPT !.diskMb = v]]
        <3>. HIDE DEF p
        <3>. QED BY <1>2, <1>4 DEF APool
    <2>. QED BY <1>5, <1>10, <2>1, <2>2
<1>11. ASSUME editPool(i, [p EXCEPT !.overrides = without(@, k)]) PROVE GoodEdit
    <2>1. without(os, k) \in Seq(AnOverride)
        BY <1>2, <1>4, Without
    <2>. QED BY <1>11, <2>1, OverridesEdit
<1>12. ToSet(nodeNames(p)) \subseteq Name
    BY <1>2, CountedSizes, NodesTyped, Elements DEF ToSet
<1>13. {instances[j].name : j \in DOMAIN instances} \cup {Nothing} \subseteq Opt(Text)
    BY InstancesHave DEF Opt
<1>14. (UNION {ToSet(regions[j].zones) : j \in DOMAIN regions}) \cup {Nothing} \subseteq Opt(Text)
    <2>1. ASSUME NEW j \in DOMAIN regions PROVE ToSet(regions[j].zones) \subseteq Text
        BY RegionsHave, Elements DEF ToSet
    <2>. QED BY <2>1 DEF Opt
<1>. HIDE DEF p
<1>15. CASE \E n \in ToSet(nodeNames(p)) : editPool(i, [p EXCEPT !.overrides[k].node = n])
    BY <1>6, <1>12, <1>15
<1>16. CASE \E x \in {instances[j].name : j \in DOMAIN instances} \cup {Nothing} :
                editPool(i, [p EXCEPT !.overrides[k].instance = x])
    BY <1>7, <1>13, <1>16
<1>17. CASE \E z \in (UNION {ToSet(regions[j].zones) : j \in DOMAIN regions}) \cup {Nothing} :
                editPool(i, [p EXCEPT !.overrides[k].zone = z])
    BY <1>8, <1>14, <1>17
<1>18. CASE \E v \in typed : editPool(i, [p EXCEPT !.overrides[k].memoryMb = v])
    BY <1>9, <1>18, Typed
<1>19. CASE \E v \in typed : editPool(i, [p EXCEPT !.overrides[k].diskMb = v])
    BY <1>10, <1>19, Typed
<1>. QED BY <1>3, <1>11, <1>15, <1>16, <1>17, <1>18, <1>19

LEMMA FailuresEdit ==
    ASSUME Ready, NEW i \in pools, NEW fs \in Seq(AFailure),
           editPool(i, [pool(i) EXCEPT !.failures = fs])
    PROVE  GoodEdit
<1>. DEFINE p == pool(i)
<1>1. p \in APool(Counted)
    BY PoolHas
<1>2. [p EXCEPT !.failures = fs] \in APool(Counted) /\ [p EXCEPT !.failures = fs].runs = p.runs
    <2>. HIDE DEF p
    <2>. QED BY <1>1 DEF APool
<1>. QED BY <1>2, PlainEdit

LEMMA Others == ASSUME Ready, NEW i \in pools PROVE others(i) \subseteq Name
<1>1. nodes(draft) \in Seq(ANode)
    BY CountedSizes, DraftNodes DEF Ready
<1>2. ToSet(nodes(draft)) \subseteq ANode
    BY <1>1, Elements DEF ToSet
<1>. QED BY <1>2 DEF others, ANode

LEMMA AddFailureGood == ASSUME Ready, AddFailure PROVE GoodEdit
<1>1. PICK i \in pools, rate \in BOOLEAN :
          LET other == first(nodes(draft), LAMBDA n : another(i, n)) IN
          editPool(i, [pool(i) EXCEPT !.failures = Append(@,
              [kind  |-> IF rate THEN "freeze" ELSE "kill",
               at    |-> IF rate THEN 0 ELSE 1, per |-> IF rate THEN 1 ELSE 0,
               other |-> IF other = Nothing THEN noName ELSE other.name,
               for |-> 1, factor |-> 3, notice |-> 1, restartAfter |-> 1])])
    BY DEF AddFailure
<1>. DEFINE ns == nodes(draft)
            I == {k \in 1 .. Len(ns) : another(i, ns[k])}
            other == Found(ns, I)
            name == IF other = Nothing THEN noName ELSE other.name
            f == [kind  |-> IF rate THEN "freeze" ELSE "kill",
                  at    |-> IF rate THEN 0 ELSE 1, per |-> IF rate THEN 1 ELSE 0,
                  other |-> name, for |-> 1, factor |-> 3, notice |-> 1, restartAfter |-> 1]
<1>2. first(nodes(draft), LAMBDA n : another(i, n)) = other
    BY DEF first, SelectInSeq, Found, Place1
<1>3. editPool(i, [pool(i) EXCEPT !.failures = Append(@, f)])
    BY <1>1, <1>2
<1>4. ns \in Seq(ANode)
    BY CountedSizes, DraftNodes DEF Ready
<1>5. other \in Opt(ANode)
    <2>1. I \in SUBSET (1 .. Len(ns))
        OBVIOUS
    <2>. QED BY <1>4, <2>1, FoundThere
<1>. HIDE DEF other
<1>6. name \in Name
    BY <1>5, Words DEF Opt, ANode
<1>. HIDE DEF name
<1>7. f \in AFailure
    BY <1>6, Kinds DEF AFailure
<1>. HIDE DEF f
<1>8. Append(pool(i).failures, f) \in Seq(AFailure)
    <2>1. pool(i).failures \in Seq(AFailure)
        BY PoolHas
    <2>. QED BY <1>7, <2>1
<1>. QED BY <1>3, <1>8, FailuresEdit

LEMMA WhenTyped ==
    ASSUME NEW f \in AFailure, NEW rate \in BOOLEAN PROVE when(f, rate) \in AFailure
BY DEF when, AFailure, max1

LEMMA TurnedTyped ==
    ASSUME NEW f \in AFailure, NEW kind \in ToSet(FAILURE_KINDS)
    PROVE  turned(f, kind) \in AFailure
<1>. DEFINE g == [f EXCEPT !.kind = kind]
<1>1. g \in AFailure
    BY DEF AFailure
<1>2. turned(f, kind) = IF kind \notin RATEABLE /\ f.per > 0 THEN when(g, FALSE) ELSE g
    BY DEF turned
<1>. HIDE DEF g
<1>. QED BY <1>1, <1>2, WhenTyped

LEMMA FailuresGood == ASSUME Ready, Failures PROVE GoodEdit
<1>1. PICK i \in pools : \E k \in DOMAIN pool(i).failures :
    LET f == pool(i).failures[k]
        put(g) == editPool(i, [pool(i) EXCEPT !.failures[k] = g]) IN
    \/ \E rate \in BOOLEAN : put(when(f, rate))
    \/ \E v \in Amounts : put(IF f.per > 0 THEN [f EXCEPT !.per = v] ELSE [f EXCEPT !.at = v])
    \/ \E kind \in ToSet(FAILURE_KINDS) :
          (f.per > 0 => kind \in RATEABLE) /\ put(turned(f, kind))
    \/ f.kind \in PAIRED /\ \E n \in others(i) : put([f EXCEPT !.other = n])
    \/ \E key \in obeyed(f), v \in Amounts : put([f EXCEPT ![key] = v])
    \/ f.kind = "degrade" /\ put([f EXCEPT !.factor = 2])
    \/ editPool(i, [pool(i) EXCEPT !.failures = without(@, k)])
    BY Zenon DEF Failures
<1>. DEFINE p == pool(i)
            fs == p.failures
<1>2. p \in APool(Counted) /\ fs \in Seq(AFailure)
    BY PoolHas
<1>3. PICK k \in DOMAIN fs :
    LET f == fs[k]
        put(g) == editPool(i, [p EXCEPT !.failures[k] = g]) IN
    \/ \E rate \in BOOLEAN : put(when(f, rate))
    \/ \E v \in Amounts : put(IF f.per > 0 THEN [f EXCEPT !.per = v] ELSE [f EXCEPT !.at = v])
    \/ \E kind \in ToSet(FAILURE_KINDS) :
          (f.per > 0 => kind \in RATEABLE) /\ put(turned(f, kind))
    \/ f.kind \in PAIRED /\ \E n \in others(i) : put([f EXCEPT !.other = n])
    \/ \E key \in obeyed(f), v \in Amounts : put([f EXCEPT ![key] = v])
    \/ f.kind = "degrade" /\ put([f EXCEPT !.factor = 2])
    \/ editPool(i, [p EXCEPT !.failures = without(@, k)])
    BY <1>1
<1>. DEFINE f == fs[k]
            put(g) == editPool(i, [p EXCEPT !.failures[k] = g])
<1>4. k \in 1 .. Len(fs) /\ f \in AFailure
    BY <1>2, Elements
<1>5. ASSUME NEW g \in AFailure, put(g) PROVE GoodEdit
    <2>1. [fs EXCEPT ![k] = g] \in Seq(AFailure)
        BY <1>2
    <2>2. [p EXCEPT !.failures[k] = g] = [p EXCEPT !.failures = [fs EXCEPT ![k] = g]]
        <3>. HIDE DEF p
        <3>. QED BY <1>2 DEF APool
    <2>. QED BY <1>5, <2>1, <2>2, FailuresEdit
<1>6. ASSUME editPool(i, [p EXCEPT !.failures = without(@, k)]) PROVE GoodEdit
    <2>1. without(fs, k) \in Seq(AFailure)
        BY <1>2, <1>4, Without
    <2>. QED BY <1>6, <2>1, FailuresEdit
<1>. HIDE DEF p, f, put
<1>7. CASE \E rate \in BOOLEAN : put(when(f, rate))
    BY <1>4, <1>5, <1>7, WhenTyped
<1>8. CASE \E v \in Amounts : put(IF f.per > 0 THEN [f EXCEPT !.per = v] ELSE [f EXCEPT !.at = v])
    <2>1. PICK v \in Amounts : put(IF f.per > 0 THEN [f EXCEPT !.per = v] ELSE [f EXCEPT !.at = v])
        BY <1>8
    <2>2. (IF f.per > 0 THEN [f EXCEPT !.per = v] ELSE [f EXCEPT !.at = v]) \in AFailure
        BY <1>4, AuthorAssumption DEF AFailure
    <2>. QED BY <1>5, <2>1, <2>2
<1>9. CASE \E kind \in ToSet(FAILURE_KINDS) :
              (f.per > 0 => kind \in RATEABLE) /\ put(turned(f, kind))
    BY <1>4, <1>5, <1>9, TurnedTyped
<1>10. CASE f.kind \in PAIRED /\ \E n \in others(i) : put([f EXCEPT !.other = n])
    <2>1. PICK n \in others(i) : put([f EXCEPT !.other = n])
        BY <1>10
    <2>2. [f EXCEPT !.other = n] \in AFailure
        <3>1. n \in Name
            BY Others
        <3>. QED BY <1>4, <3>1 DEF AFailure
    <2>. QED BY <1>5, <2>1, <2>2
<1>11. CASE \E key \in obeyed(f), v \in Amounts : put([f EXCEPT ![key] = v])
    <2>1. PICK key \in obeyed(f), v \in Amounts : put([f EXCEPT ![key] = v])
        BY <1>11
    <2>2. v \in Nat
        BY AuthorAssumption
    <2>3. key \in {"restartAfter", "for", "notice"}
        BY DEF obeyed
    <2>4. [f EXCEPT ![key] = v] \in AFailure
        <3>1. CASE key = "restartAfter"
            BY <1>4, <2>2, <3>1 DEF AFailure
        <3>2. CASE key = "for"
            BY <1>4, <2>2, <3>2 DEF AFailure
        <3>3. CASE key = "notice"
            BY <1>4, <2>2, <3>3 DEF AFailure
        <3>. QED BY <2>3, <3>1, <3>2, <3>3
    <2>. QED BY <1>5, <2>1, <2>4
<1>12. CASE f.kind = "degrade" /\ put([f EXCEPT !.factor = 2])
    <2>1. [f EXCEPT !.factor = 2] \in AFailure
        BY <1>4 DEF AFailure
    <2>. QED BY <1>5, <1>12, <2>1
<1>. QED BY <1>3, <1>6, <1>7, <1>8, <1>9, <1>10, <1>11, <1>12 DEF f, put

LEMMA Service == ASSUME NEW file PROVE service(file) \in Opt(AService)
<1>. DEFINE I == {k \in 1 .. Len(services) : services[k].file = file}
<1>1. service(file) = Found(services, I)
    BY DEF service, first, SelectInSeq, Found, Place1
<1>2. services \in Seq(AService) /\ I \in SUBSET (1 .. Len(services))
    BY PaletteAssumption
<1>. QED BY <1>1, <1>2, FoundThere

LEMMA RpcsAreText ==
    ASSUME NEW s \in AService
    PROVE  \A k \in DOMAIN s.rpcs : s.rpcs[k].name \in Text
<1>. DEFINE T == [name : Text, idempotent : BOOLEAN]
            rs == s.rpcs
<1>1. rs \in Seq(T)
    BY DEF AService
<1>2. \A t \in T : t.name \in Text
    OBVIOUS
<1>. HIDE DEF T
<1>3. \A k \in DOMAIN rs : rs[k].name \in Text
    <2>. HIDE DEF rs
    <2>. QED BY <1>1, <1>2, Elements
<1>. QED BY <1>3

LEMMA RpcsOf == ASSUME NEW r PROVE rpcsOf(r) \in Seq(Text)
<1>. DEFINE s == service(r.file)
<1>1. CASE s = Nothing
    <2>1. rpcsOf(r) = <<>>
        BY <1>1 DEF rpcsOf
    <2>2. <<>> \in Seq(Text)
        OBVIOUS
    <2>. QED BY <2>1, <2>2
<1>2. CASE s # Nothing
    <2>. DEFINE ns == [k \in DOMAIN s.rpcs |-> s.rpcs[k].name]
    <2>1. rpcsOf(r) = ns
        BY <1>2 DEF rpcsOf
    <2>2. s \in AService
        BY <1>2, Service DEF Opt
    <2>. HIDE DEF s
    <2>3. DOMAIN s.rpcs = 1 .. Len(s.rpcs) /\ Len(s.rpcs) \in Nat
        BY <2>2 DEF AService
    <2>4. \A k \in 1 .. Len(s.rpcs) : ns[k] \in Text
        BY <2>2, <2>3, RpcsAreText
    <2>5. ns = [k \in 1 .. Len(s.rpcs) |-> ns[k]]
        BY <2>3
    <2>. HIDE DEF ns
    <2>6. ns \in Seq(Text)
        BY <2>3, <2>4, <2>5, ListOf
    <2>. QED BY <2>1, <2>6
<1>. QED BY <1>1, <1>2

LEMMA RunsEdit ==
    ASSUME Ready, NEW i \in pools, NEW k \in DOMAIN pool(i).runs, NEW fs \in Seq(ARpcFailure),
           editPool(i, [pool(i) EXCEPT !.runs[k].failures = fs])
    PROVE  GoodEdit
<1>1. i \in DOMAIN draft.pools /\ k \in DOMAIN draft.pools[i].runs /\ pool(i) = draft.pools[i]
    BY DEF pools, pool
<1>2. Good(draft, [draft EXCEPT !.pools[i] = [draft.pools[i] EXCEPT !.runs[k].failures = fs]])
    BY <1>1, GoodRuns DEF Ready
<1>3. edit([draft EXCEPT !.pools[i] = [draft.pools[i] EXCEPT !.runs[k].failures = fs]])
    BY <1>1 DEF editPool
<1>. QED BY <1>2, <1>3 DEF GoodEdit

LEMMA RunAt ==
    ASSUME Ready, NEW i \in pools, NEW k \in DOMAIN pool(i).runs
    PROVE  pool(i).runs[k] \in RunsWith(ARpcFailure)
           /\ pool(i).runs[k].failures \in Seq(ARpcFailure)
<1>1. pool(i).runs[k] \in RunsWith(ARpcFailure)
    BY PoolHas, Elements
<1>. QED BY <1>1 DEF RunsWith

LEMMA AddRpcFailureGood == ASSUME Ready, AddRpcFailure PROVE GoodEdit
<1>1. PICK i \in pools : \E k \in DOMAIN pool(i).runs :
    LET r == pool(i).runs[k]
        free == first(rpcsOf(r), LAMBDA n : \A f \in ToSet(r.failures) : f.rpc # n) IN
    /\ rpcsOf(r) # <<>>
    /\ editPool(i, [pool(i) EXCEPT !.runs[k].failures = Append(@,
            [rpc |-> or(free, rpcsOf(r)[1]), kind |-> "status", status |-> "UNAVAILABLE",
             factor |-> 6, perCalls |-> 20])])
    BY DEF AddRpcFailure
<1>2. PICK k \in DOMAIN pool(i).runs :
    LET r == pool(i).runs[k]
        free == first(rpcsOf(r), LAMBDA n : \A f \in ToSet(r.failures) : f.rpc # n) IN
    /\ rpcsOf(r) # <<>>
    /\ editPool(i, [pool(i) EXCEPT !.runs[k].failures = Append(@,
            [rpc |-> or(free, rpcsOf(r)[1]), kind |-> "status", status |-> "UNAVAILABLE",
             factor |-> 6, perCalls |-> 20])])
    BY <1>1
<1>. DEFINE r == pool(i).runs[k]
            ns == rpcsOf(r)
            I == {n \in 1 .. Len(ns) : \A f \in ToSet(r.failures) : f.rpc # ns[n]}
            free == Found(ns, I)
            rpc == or(free, ns[1])
            g == [rpc |-> rpc, kind |-> "status", status |-> "UNAVAILABLE",
                  factor |-> 6, perCalls |-> 20]
            fs == Append(r.failures, g)
<1>3. first(ns, LAMBDA n : \A f \in ToSet(r.failures) : f.rpc # n) = free
    BY DEF first, SelectInSeq, Found, Place1
<1>4. ns # <<>> /\ editPool(i, [pool(i) EXCEPT !.runs[k].failures = Append(@, g)])
    BY <1>2, <1>3
<1>5. ns \in Seq(Text) /\ ns[1] \in Text
    <2>1. ns \in Seq(Text)
        BY RpcsOf
    <2>. HIDE DEF ns
    <2>. QED BY <1>4, <2>1
<1>6. free \in Opt(Text)
    <2>1. I \in SUBSET (1 .. Len(ns))
        OBVIOUS
    <2>. QED BY <1>5, <2>1, FoundThere
<1>. HIDE DEF free, ns
<1>7. rpc \in Text
    BY <1>5, <1>6 DEF or, Opt
<1>. HIDE DEF rpc
<1>8. g \in ARpcFailure
    <2>1. "UNAVAILABLE" \in Status
        BY PaletteAssumption DEF Status
    <2>. QED BY <1>7, <2>1, Kinds DEF ARpcFailure
<1>9. r.failures \in Seq(ARpcFailure)
    BY RunAt
<1>. HIDE DEF g
<1>10. fs \in Seq(ARpcFailure)
    <2>. HIDE DEF r
    <2>. QED BY <1>8, <1>9
<1>11. [pool(i) EXCEPT !.runs[k].failures = Append(@, g)] = [pool(i) EXCEPT !.runs[k].failures = fs]
    <2>. DEFINE p == pool(i)
    <2>1. p \in APool(Counted) /\ k \in DOMAIN p.runs /\ p.runs \in Seq(RunsWith(ARpcFailure))
        BY PoolHas
    <2>2. p.runs[k] \in RunsWith(ARpcFailure)
        BY RunAt
    <2>. QED BY <2>1, <2>2 DEF APool, RunsWith
<1>. HIDE DEF fs
<1>. QED BY <1>4, <1>10, <1>11, RunsEdit

LEMMA RpcFailuresGood == ASSUME Ready, RpcFailures PROVE GoodEdit
<1>1. PICK i \in pools : \E k \in DOMAIN pool(i).runs : \E j \in DOMAIN pool(i).runs[k].failures :
    LET f == pool(i).runs[k].failures[j]
        put(g) == editPool(i, [pool(i) EXCEPT !.runs[k].failures[j] = g]) IN
    /\ rpcsOf(pool(i).runs[k]) # <<>>
    /\ \/ \E v \in Amounts : put([f EXCEPT !.perCalls = max1(v)])
       \/ \E rpc \in ToSet(rpcsOf(pool(i).runs[k])) : put([f EXCEPT !.rpc = rpc])
       \/ \E kind \in ToSet(RPC_FAILURE_KINDS) : put([f EXCEPT !.kind = kind])
       \/ f.kind = "status" /\ \E s \in Codes \cup {"OK", ""} : put([f EXCEPT !.status = s])
       \/ f.kind = "slow" /\ put([f EXCEPT !.factor = 2])
       \/ editPool(i, [pool(i) EXCEPT !.runs[k].failures = without(@, j)])
    BY Zenon DEF RpcFailures
<1>. DEFINE p == pool(i)
<1>2. PICK k \in DOMAIN p.runs : \E j \in DOMAIN p.runs[k].failures :
    LET f == p.runs[k].failures[j]
        put(g) == editPool(i, [p EXCEPT !.runs[k].failures[j] = g]) IN
    /\ rpcsOf(p.runs[k]) # <<>>
    /\ \/ \E v \in Amounts : put([f EXCEPT !.perCalls = max1(v)])
       \/ \E rpc \in ToSet(rpcsOf(p.runs[k])) : put([f EXCEPT !.rpc = rpc])
       \/ \E kind \in ToSet(RPC_FAILURE_KINDS) : put([f EXCEPT !.kind = kind])
       \/ f.kind = "status" /\ \E s \in Codes \cup {"OK", ""} : put([f EXCEPT !.status = s])
       \/ f.kind = "slow" /\ put([f EXCEPT !.factor = 2])
       \/ editPool(i, [p EXCEPT !.runs[k].failures = without(@, j)])
    BY <1>1
<1>3. PICK j \in DOMAIN p.runs[k].failures :
    LET f == p.runs[k].failures[j]
        put(g) == editPool(i, [p EXCEPT !.runs[k].failures[j] = g]) IN
    /\ rpcsOf(p.runs[k]) # <<>>
    /\ \/ \E v \in Amounts : put([f EXCEPT !.perCalls = max1(v)])
       \/ \E rpc \in ToSet(rpcsOf(p.runs[k])) : put([f EXCEPT !.rpc = rpc])
       \/ \E kind \in ToSet(RPC_FAILURE_KINDS) : put([f EXCEPT !.kind = kind])
       \/ f.kind = "status" /\ \E s \in Codes \cup {"OK", ""} : put([f EXCEPT !.status = s])
       \/ f.kind = "slow" /\ put([f EXCEPT !.factor = 2])
       \/ editPool(i, [p EXCEPT !.runs[k].failures = without(@, j)])
    BY <1>2
<1>. DEFINE r == p.runs[k]
            fs == r.failures
            f == fs[j]
            put(g) == editPool(i, [p EXCEPT !.runs[k].failures[j] = g])
<1>4. p \in APool(Counted) /\ p.runs \in Seq(RunsWith(ARpcFailure)) /\ k \in DOMAIN p.runs
    BY PoolHas
<1>5. r \in RunsWith(ARpcFailure) /\ fs \in Seq(ARpcFailure)
    BY RunAt
<1>6. j \in DOMAIN fs /\ j \in 1 .. Len(fs) /\ f \in ARpcFailure
    BY <1>5, Elements
<1>7. ASSUME NEW gs \in Seq(ARpcFailure), editPool(i, [p EXCEPT !.runs[k].failures = gs])
      PROVE  GoodEdit
    BY <1>7, RunsEdit
<1>8. ASSUME NEW g \in ARpcFailure, put(g) PROVE GoodEdit
    <2>. DEFINE gs == [fs EXCEPT ![j] = g]
    <2>1. gs \in Seq(ARpcFailure)
        <3>. HIDE DEF fs
        <3>. QED BY <1>5, <1>6
    <2>2. [p EXCEPT !.runs[k].failures[j] = g] = [p EXCEPT !.runs[k].failures = gs]
        <3>. HIDE DEF p
        <3>. QED BY <1>4, <1>5 DEF APool, RunsWith
    <2>. HIDE DEF gs
    <2>. QED BY <1>7, <1>8, <2>1, <2>2
<1>9. ASSUME editPool(i, [p EXCEPT !.runs[k].failures = without(@, j)]) PROVE GoodEdit
    <2>. DEFINE gs == without(fs, j)
    <2>1. gs \in Seq(ARpcFailure)
        <3>. HIDE DEF fs
        <3>. QED BY <1>5, <1>6, Without
    <2>2. [p EXCEPT !.runs[k].failures = without(@, j)] = [p EXCEPT !.runs[k].failures = gs]
        <3>. HIDE DEF p
        <3>. QED BY <1>4, <1>5 DEF APool, RunsWith
    <2>. HIDE DEF gs
    <2>. QED BY <1>7, <1>9, <2>1, <2>2
<1>. HIDE DEF p, f, put
<1>10. CASE \E v \in Amounts : put([f EXCEPT !.perCalls = max1(v)])
    <2>1. PICK v \in Amounts : put([f EXCEPT !.perCalls = max1(v)])
        BY <1>10
    <2>2. max1(v) \in Nat
        BY AuthorAssumption DEF max1
    <2>3. [f EXCEPT !.perCalls = max1(v)] \in ARpcFailure
        BY <1>6, <2>2 DEF ARpcFailure
    <2>. QED BY <1>8, <2>1, <2>3
<1>11. CASE \E rpc \in ToSet(rpcsOf(p.runs[k])) : put([f EXCEPT !.rpc = rpc])
    <2>1. PICK rpc \in ToSet(rpcsOf(p.runs[k])) : put([f EXCEPT !.rpc = rpc])
        BY <1>11
    <2>2. rpc \in Text
        BY RpcsOf, Elements DEF ToSet
    <2>3. [f EXCEPT !.rpc = rpc] \in ARpcFailure
        BY <1>6, <2>2 DEF ARpcFailure
    <2>. QED BY <1>8, <2>1, <2>3
<1>12. CASE \E kind \in ToSet(RPC_FAILURE_KINDS) : put([f EXCEPT !.kind = kind])
    <2>1. \A kind \in ToSet(RPC_FAILURE_KINDS) : [f EXCEPT !.kind = kind] \in ARpcFailure
        BY <1>6 DEF ARpcFailure
    <2>. QED BY <1>8, <1>12, <2>1
<1>13. CASE f.kind = "status" /\ \E s \in Codes \cup {"OK", ""} : put([f EXCEPT !.status = s])
    <2>1. \A s \in Codes \cup {"OK", ""} : [f EXCEPT !.status = s] \in ARpcFailure
        BY <1>6 DEF ARpcFailure, Status
    <2>. QED BY <1>8, <1>13, <2>1
<1>14. CASE f.kind = "slow" /\ put([f EXCEPT !.factor = 2])
    <2>1. [f EXCEPT !.factor = 2] \in ARpcFailure
        BY <1>6 DEF ARpcFailure
    <2>. QED BY <1>8, <1>14, <2>1
<1>. QED BY <1>3, <1>9, <1>10, <1>11, <1>12, <1>13, <1>14 DEF f, put

LEMMA CostsGood == ASSUME Ready, Costs PROVE GoodEdit
<1>1. PICK file \in filesOf(draft) :
        /\ service(file) # Nothing
        /\ \E m \in ToSet(service(file).rpcs), field \in {"fixed", "perUnit"}, v \in Amounts :
            LET has == {c \in draft.simulatedDuration : c.runs = file /\ c.rpc = m.name}
                row == IF has = {} THEN [runs |-> file, rpc |-> m.name, fixed |-> 0, perUnit |-> 0]
                       ELSE CHOOSE c \in has : TRUE IN
            edit([draft EXCEPT !.simulatedDuration = (@ \ has) \cup {[row EXCEPT ![field] = v]}])
    BY DEF Costs
<1>2. PICK m \in ToSet(service(file).rpcs), field \in {"fixed", "perUnit"}, v \in Amounts :
            LET has == {c \in draft.simulatedDuration : c.runs = file /\ c.rpc = m.name}
                row == IF has = {} THEN [runs |-> file, rpc |-> m.name, fixed |-> 0, perUnit |-> 0]
                       ELSE CHOOSE c \in has : TRUE IN
            edit([draft EXCEPT !.simulatedDuration = (@ \ has) \cup {[row EXCEPT ![field] = v]}])
    BY <1>1
<1>. DEFINE has == {c \in draft.simulatedDuration : c.runs = file /\ c.rpc = m.name}
            row == IF has = {} THEN [runs |-> file, rpc |-> m.name, fixed |-> 0, perUnit |-> 0]
                   ELSE CHOOSE c \in has : TRUE
            cs == (draft.simulatedDuration \ has) \cup {[row EXCEPT ![field] = v]}
<1>3. edit([draft EXCEPT !.simulatedDuration = cs])
    BY <1>2
<1>4. m.name \in Text
    <2>1. service(file) \in AService
        BY <1>1, Service DEF Opt
    <2>. QED BY <2>1, RpcsAreText DEF ToSet
<1>5. file \in Text
    <2>1. PICK p \in ToSet(draft.pools) : \E r \in ToSet(p.runs) : file = r.file
        BY DEF filesOf
    <2>2. PICK r \in ToSet(p.runs) : file = r.file
        BY <2>1
    <2>3. p \in APool(Counted)
        BY DraftHas DEF Ready, ToSet
    <2>4. p.runs \in Seq(RunsWith(ARpcFailure))
        BY <2>3 DEF APool
    <2>5. r \in RunsWith(ARpcFailure)
        BY <2>4, Elements DEF ToSet
    <2>. QED BY <2>2, <2>5 DEF RunsWith
<1>6. draft.simulatedDuration \in SUBSET Price
    BY DraftHas DEF Ready
<1>7. row \in Price
    <2>1. CASE has = {}
        BY <1>4, <1>5, <2>1 DEF Price
    <2>2. CASE has # {}
        <3>1. (CHOOSE c \in has : TRUE) \in has
            BY <2>2
        <3>2. has \subseteq Price
            BY <1>6
        <3>. HIDE DEF has
        <3>. QED BY <2>2, <3>1, <3>2
    <2>. QED BY <2>1, <2>2
<1>8. [row EXCEPT ![field] = v] \in Price
    <2>. HIDE DEF row
    <2>1. v \in Nat
        BY AuthorAssumption
    <2>2. CASE field = "fixed"
        BY <1>7, <2>1, <2>2 DEF Price
    <2>3. CASE field = "perUnit"
        BY <1>7, <2>1, <2>3 DEF Price
    <2>. QED BY <2>2, <2>3
<1>9. cs \in SUBSET Price
    <2>. HIDE DEF row, has
    <2>. QED BY <1>6, <1>8
<1>. HIDE DEF cs
<1>10. /\ [draft EXCEPT !.simulatedDuration = cs] \in ADraft(Counted)
       /\ [draft EXCEPT !.simulatedDuration = cs].pools = draft.pools
    BY <1>9 DEF Ready, ADraft
<1>. QED BY <1>3, <1>10, GoodSame DEF Ready, GoodEdit

LEMMA PoolsEdit ==
    ASSUME NEW d \in ADraft(Counted), NEW ps \in Seq(APool(Counted)), ps # <<>>
    PROVE  /\ [d EXCEPT !.pools = ps] \in ADraft(Counted)
           /\ [d EXCEPT !.pools = ps].pools = ps
BY DEF ADraft

LEMMA NewPool ==
    ASSUME NEW name \in Name, NEW count \in Counted, NEW instance \in Text,
           NEW runs \in Seq(RunsWith(ARpcFailure))
    PROVE  /\ newPool(name, count, instance, runs) \in APool(Counted)
           /\ newPool(name, count, instance, runs).runs = runs
<1>1. regions[1].zones[1] \in Text
    <2>1. 1 \in DOMAIN regions
        <3>. DEFINE T == [name : Text, continent : Text, zones : someZones]
        <3>1. regions \in Seq(T) \ {<<>>}
            BY PaletteAssumption
        <3>. HIDE DEF T
        <3>. QED BY <3>1, EmptySeq, Elements
    <2>2. regions[1].zones \in Seq(Text) /\ regions[1].zones # <<>>
        BY <2>1, RegionsHave DEF someZones
    <2>. QED BY <2>2
<1>. DEFINE z == regions[1].zones[1]
<1>2. <<z>> \in someZones
    <2>. HIDE DEF z
    <2>1. <<z>> \in Seq(Text) /\ <<z>> # <<>>
        BY <1>1 DEF z
    <2>. QED BY <2>1 DEF someZones
<1>3. <<>> \in Seq(AFailure) /\ <<>> \in Seq(AnOverride)
    OBVIOUS
<1>. QED BY <1>2, <1>3 DEF newPool, APool, Opt

LEMMA AddPoolGood == ASSUME Ready, AddPool PROVE GoodEdit
<1>. DEFINE name == <<"pool", <<Len(draft.pools) + 1>>>>
            q == newPool(name, 1, instances[1].name, <<>>)
            ps == Append(draft.pools, q)
            e == [draft EXCEPT !.pools = ps]
<1>1. edit(e)
    BY DEF AddPool
<1>2. /\ draft \in ADraft(Counted) /\ draft.pools \in Seq(APool(Counted))
      /\ Len(draft.pools) \in Nat /\ DOMAIN draft.pools = 1 .. Len(draft.pools)
    BY DraftHas DEF Ready
<1>3. name \in Name
    <2>. DEFINE n == Len(draft.pools) + 1
    <2>1. n \in Nat
        BY <1>2
    <2>. HIDE DEF n
    <2>2. <<n>> \in Seq(Nat)
        BY <2>1
    <2>3. "pool" \in Text
        BY Words
    <2>4. <<"pool", <<n>>>> \in Name
        BY <2>2, <2>3 DEF Name
    <2>. QED BY <2>4 DEF n
<1>. HIDE DEF name
<1>4. q \in APool(Counted) /\ q.runs = <<>>
    <2>1. <<>> \in Seq(RunsWith(ARpcFailure)) /\ 1 \in Counted /\ instances[1].name \in Text
        BY CountedSizes, InstancesHave DEF Sizes
    <2>. QED BY <1>3, <2>1, NewPool
<1>. HIDE DEF q
<1>5. /\ ps \in Seq(APool(Counted)) /\ ps # <<>> /\ Len(ps) = Len(draft.pools) + 1
      /\ DOMAIN ps = 1 .. (Len(draft.pools) + 1)
      /\ \A j \in 1 .. Len(draft.pools) : ps[j] = draft.pools[j]
      /\ ps[Len(draft.pools) + 1] = q
    BY <1>2, <1>4, AppendProperties
<1>. HIDE DEF ps
<1>6. e \in ADraft(Counted) /\ e.pools = ps
    BY <1>2, <1>5, PoolsEdit
<1>. HIDE DEF e
<1>7. jobs(q) = {}
    BY <1>4 DEF jobs
<1>8. jobPools(e) = jobPools(draft)
    <2>1. \A j \in DOMAIN ps : j \notin DOMAIN draft.pools => ps[j] = q
        BY <1>2, <1>5
    <2>2. \A j \in DOMAIN draft.pools : j \in DOMAIN ps /\ ps[j] = draft.pools[j]
        BY <1>2, <1>5
    <2>3. jobPools(e) = {j \in DOMAIN ps : jobs(ps[j]) # {}}
        BY <1>6 DEF jobPools
    <2>4. jobPools(draft) = {j \in DOMAIN draft.pools : jobs(draft.pools[j]) # {}}
        BY DEF jobPools
    <2>5. \A j \in jobPools(e) : j \in jobPools(draft)
        BY <1>7, <2>1, <2>2, <2>3, <2>4
    <2>6. \A j \in jobPools(draft) : j \in jobPools(e)
        BY <2>2, <2>3, <2>4
    <2>. QED BY <2>5, <2>6
<1>9. Once(e)
    <2>1. ASSUME NEW j \in DOMAIN e.pools PROVE OnceIn(e.pools[j])
        <3>1. CASE j \in DOMAIN draft.pools
            BY <1>2, <1>5, <1>6, <3>1 DEF Ready, Once
        <3>2. CASE j \notin DOMAIN draft.pools
            BY <1>2, <1>5, <1>6, <1>7, <3>2 DEF OnceIn
        <3>. QED BY <3>1, <3>2
    <2>. QED BY <2>1 DEF Once
<1>. DEFINE f == [j \in jobPools(e) |-> j]
<1>10. f \in [jobPools(e) -> jobPools(draft)] /\ \A j, k \in jobPools(e) : f[j] = f[k] => j = k
    BY <1>8
<1>. HIDE DEF f
<1>11. Good(draft, e)
    BY <1>2, <1>6, <1>9, <1>10, GoodWhen
<1>. QED BY <1>1, <1>11 DEF GoodEdit

LEMMA RemovePoolGood == ASSUME Ready, RemovePool PROVE GoodEdit
<1>1. PICK i \in pools : Len(draft.pools) > 1 /\ edit([draft EXCEPT !.pools = without(@, i)])
    BY DEF RemovePool
<1>. DEFINE n == Len(draft.pools)
            ps == without(draft.pools, i)
            e == [draft EXCEPT !.pools = ps]
            at(j) == IF j < i THEN j ELSE j + 1
<1>2. /\ draft \in ADraft(Counted) /\ draft.pools \in Seq(APool(Counted))
      /\ n \in Nat /\ DOMAIN draft.pools = 1 .. n /\ i \in 1 .. n
    BY DraftHas DEF Ready, pools
<1>3. /\ ps \in Seq(APool(Counted)) /\ Len(ps) = n - 1
      /\ \A j \in 1 .. (n - 1) : ps[j] = draft.pools[at(j)]
    BY <1>2, Without
<1>. HIDE DEF n, ps
<1>4. DOMAIN ps = 1 .. (n - 1) /\ ps # <<>>
    BY <1>1, <1>3 DEF n
<1>5. edit(e) /\ e \in ADraft(Counted) /\ e.pools = ps
    BY <1>1, <1>2, <1>3, <1>4, PoolsEdit DEF ps
<1>. HIDE DEF e
<1>6. \A j \in 1 .. (n - 1) : at(j) \in 1 .. n
    BY <1>2
<1>7. \A j, k \in 1 .. (n - 1) : at(j) = at(k) => j = k
    BY <1>2
<1>. HIDE DEF at
<1>8. Once(e)
    BY <1>2, <1>3, <1>4, <1>5, <1>6 DEF Ready, Once
<1>. DEFINE f == [j \in jobPools(e) |-> at(j)]
<1>9. \A j \in jobPools(e) : j \in 1 .. (n - 1) /\ at(j) \in jobPools(draft)
    BY <1>2, <1>3, <1>4, <1>5, <1>6 DEF jobPools
<1>10. f \in [jobPools(e) -> jobPools(draft)] /\ \A j, k \in jobPools(e) : f[j] = f[k] => j = k
    BY <1>7, <1>9
<1>. HIDE DEF f
<1>11. Good(draft, e)
    BY <1>2, <1>5, <1>8, <1>10, GoodWhen
<1>. QED BY <1>5, <1>11 DEF GoodEdit

\* Of the places of a list that one is taken out of, none was that one.
LEMMA JobsWithout ==
    ASSUME NEW T, NEW p, p.runs \in Seq(T), NEW at \in 1 .. Len(p.runs),
           NEW q, q.runs = without(p.runs, at)
    PROVE  /\ \A j \in jobs(q) : \E k \in jobs(p) : k # at
           /\ OnceIn(p) => OnceIn(q)
<1>. DEFINE n == Len(p.runs)
            from(j) == IF j < at THEN j ELSE j + 1
<1>1. n \in Nat /\ DOMAIN p.runs = 1 .. n /\ at \in Nat
    BY Elements
<1>2. /\ q.runs \in Seq(T) /\ Len(q.runs) = n - 1
      /\ \A j \in 1 .. (n - 1) : q.runs[j] = p.runs[from(j)]
    BY Without
<1>3. DOMAIN q.runs = 1 .. (n - 1)
    BY <1>2, Elements
<1>. HIDE DEF n
<1>4. \A j \in 1 .. (n - 1) : from(j) \in 1 .. n /\ from(j) # at
    BY <1>1
<1>5. \A j, k \in 1 .. (n - 1) : from(j) = from(k) => j = k
    BY <1>1
<1>. HIDE DEF from
<1>6. \A j \in jobs(q) : j \in 1 .. (n - 1) /\ from(j) \in jobs(p)
    BY <1>1, <1>2, <1>3, <1>4 DEF jobs
<1>7. \A j \in jobs(q) : \E k \in jobs(p) : k # at
    BY <1>4, <1>6
<1>8. OnceIn(p) => OnceIn(q)
    BY <1>5, <1>6 DEF OnceIn
<1>. QED BY <1>7, <1>8

LEMMA OffJob ==
    ASSUME NEW p \in APool(Counted), OnceIn(p)
    PROVE  offJob(p) \in APool(Counted) /\ jobs(offJob(p)) = {}
<1>. DEFINE rs == p.runs
            J == {k \in 1 .. Len(rs) : rs[k].service = JOB}
            at == Place1(J)
            ys == IF at = 0 THEN rs ELSE without(rs, at)
            q == [p EXCEPT !.runs = ys]
<1>1. SelectInSeq(rs, LAMBDA r : r.service = JOB) = at
    BY DEF SelectInSeq, Place1
<1>2. offJob(p) = q
    BY <1>1 DEF offJob
<1>3. rs \in Seq(RunsWith(ARpcFailure)) /\ DOMAIN rs = 1 .. Len(rs) /\ Len(rs) \in Nat
    <2>1. rs \in Seq(RunsWith(ARpcFailure))
        BY DEF APool
    <2>. QED BY <2>1, Elements
<1>4. J = jobs(p) /\ J \in SUBSET (1 .. Len(rs))
    BY <1>3 DEF jobs
<1>5. (J = {} <=> at = 0) /\ (J # {} => at \in J)
    BY <1>3, <1>4, PlaceFound
<1>. HIDE DEF at, J
<1>6. ys \in Seq(RunsWith(ARpcFailure))
    <2>1. CASE at = 0
        BY <1>3, <2>1
    <2>2. CASE at # 0
        BY <1>3, <1>4, <1>5, <2>2, Without
    <2>. QED BY <2>1, <2>2
<1>. HIDE DEF ys
<1>7. q \in APool(Counted) /\ q.runs = ys
    BY <1>6 DEF APool
<1>. HIDE DEF q
<1>8. jobs(q) = {}
    <2>1. CASE at = 0
        BY <1>4, <1>5, <1>7, <2>1 DEF jobs, ys
    <2>2. CASE at # 0
        <3>1. at \in jobs(p) /\ at \in 1 .. Len(rs)
            BY <1>4, <1>5, <2>2
        <3>2. q.runs = without(rs, at)
            BY <1>7, <2>2 DEF ys
        <3>3. \A j \in jobs(q) : \E k \in jobs(p) : k # at
            BY <1>3, <3>1, <3>2, JobsWithout
        <3>. QED BY <3>1, <3>3 DEF OnceIn
    <2>. QED BY <2>1, <2>2
<1>. QED BY <1>2, <1>7, <1>8

LEMMA PlacedTyped ==
    ASSUME NEW s \in Opt(AService)
    PROVE  /\ placed(s) \in Seq(RunsWith(ARpcFailure)) /\ Len(placed(s)) \in 0 .. 1
           /\ \A k \in 1 .. Len(placed(s)) : placed(s)[k].service = s.service
<1>1. CASE s = Nothing
    <2>1. placed(s) = <<>>
        BY <1>1 DEF placed
    <2>. QED BY <2>1
<1>2. CASE s # Nothing
    <2>. DEFINE r == [service |-> s.service, file |-> s.file, failures |-> <<>>]
    <2>1. placed(s) = <<r>>
        BY <1>2 DEF placed
    <2>2. s \in AService /\ <<>> \in Seq(ARpcFailure)
        BY <1>2 DEF Opt
    <2>3. r \in RunsWith(ARpcFailure) /\ r.service = s.service
        BY <2>2 DEF AService, RunsWith
    <2>. HIDE DEF r
    <2>. QED BY <2>1, <2>3
<1>. QED BY <1>1, <1>2

\* A pool to whose runs a service that is not the job is put, or to which the
\* job is put when it did not run it.
LEMMA JobsWith ==
    ASSUME NEW p, p.runs \in Seq(RunsWith(ARpcFailure)), NEW s \in Opt(AService),
           NEW q, q.runs = p.runs \o placed(s)
    PROVE  /\ q.runs \in Seq(RunsWith(ARpcFailure))
           /\ s.service # JOB => jobs(q) = jobs(p)
           /\ jobs(p) = {} => OnceIn(q)
<1>. DEFINE n == Len(p.runs)
            x == placed(s)
            ys == p.runs \o x
<1>1. n \in Nat /\ DOMAIN p.runs = 1 .. n
    BY Elements
<1>2. /\ x \in Seq(RunsWith(ARpcFailure)) /\ Len(x) \in 0 .. 1
      /\ \A k \in 1 .. Len(x) : x[k].service = s.service
    BY PlacedTyped
<1>. HIDE DEF x
<1>3. /\ ys \in Seq(RunsWith(ARpcFailure)) /\ Len(ys) = n + Len(x)
      /\ \A j \in 1 .. (n + Len(x)) : ys[j] = IF j <= n THEN p.runs[j] ELSE x[j - n]
    BY <1>1, <1>2, ConcatProperties
<1>4. DOMAIN ys = 1 .. (n + Len(x)) /\ q.runs = ys
    BY <1>3, Elements DEF x
<1>. HIDE DEF n, ys
<1>5. \A j \in 1 .. (n + Len(x)) : j <= n \/ (j = n + 1 /\ Len(x) = 1)
    BY <1>1, <1>2
<1>6. \A j \in 1 .. n : j \in 1 .. (n + Len(x)) /\ q.runs[j] = p.runs[j]
    BY <1>1, <1>2, <1>3, <1>4
<1>7. Len(x) = 1 => q.runs[n + 1].service = s.service
    BY <1>1, <1>2, <1>3, <1>4
<1>8. ASSUME s.service # JOB PROVE jobs(q) = jobs(p)
    <2>1. ASSUME NEW j \in jobs(q) PROVE j \in jobs(p)
        <3>1. j \in 1 .. (n + Len(x)) /\ q.runs[j].service = JOB
            BY <1>4 DEF jobs
        <3>2. j <= n
            BY <1>5, <1>7, <1>8, <3>1
        <3>3. j \in 1 .. n
            BY <1>1, <3>1, <3>2
        <3>. QED BY <1>1, <1>6, <3>1, <3>3 DEF jobs
    <2>2. ASSUME NEW j \in jobs(p) PROVE j \in jobs(q)
        BY <1>1, <1>4, <1>6 DEF jobs
    <2>. QED BY <2>1, <2>2
<1>9. ASSUME jobs(p) = {} PROVE OnceIn(q)
    <2>1. ASSUME NEW j \in jobs(q) PROVE j = n + 1
        <3>1. j \in 1 .. (n + Len(x)) /\ q.runs[j].service = JOB
            BY <1>4 DEF jobs
        <3>2. ASSUME j <= n PROVE FALSE
            <4>1. j \in 1 .. n
                BY <1>1, <3>1, <3>2
            <4>. QED BY <1>1, <1>6, <1>9, <3>1, <4>1 DEF jobs
        <3>. QED BY <1>5, <3>1, <3>2
    <2>. QED BY <2>1 DEF OnceIn
<1>. QED BY <1>3, <1>4, <1>8, <1>9

LEMMA PlacedGood == ASSUME Ready, Placed PROVE GoodEdit
<1>1. PICK i \in pools, n \in DOMAIN services : edit(Place(i, services[n]))
    BY DEF Placed
<1>. DEFINE s == services[n]
            p == pool(i)
            I == {m \in 1 .. Len(p.runs) : p.runs[m].file = s.file}
            at == Place1(I)
            rest == IF s.entry THEN [k \in pools |-> offJob(pool(k))] ELSE draft.pools
            e == Place(i, s)
<1>2. s \in AService /\ s.entry = (s.service = JOB)
    BY PaletteAssumption, Elements
<1>3. /\ p \in APool(Counted) /\ p.runs \in Seq(RunsWith(ARpcFailure)) /\ p = draft.pools[i]
      /\ i \in DOMAIN draft.pools
    BY PoolHas DEF pools
<1>4. SelectInSeq(p.runs, LAMBDA r : r.file = s.file) = at
    BY DEF SelectInSeq, Place1
<1>5. e = IF at > 0 THEN [draft EXCEPT !.pools[i].runs = without(@, at)]
          ELSE [draft EXCEPT !.pools = [rest EXCEPT ![i].runs = @ \o placed(s)]]
    BY <1>4 DEF Place
<1>6. at \in Nat /\ (at > 0 => at \in 1 .. Len(p.runs))
    <2>1. I \in SUBSET (1 .. Len(p.runs)) /\ Len(p.runs) \in Nat
        BY <1>3, Elements
    <2>2. at \in Nat /\ (I = {} <=> at = 0) /\ (I # {} => at \in I)
        BY <2>1, PlaceFound
    <2>. HIDE DEF at
    <2>. QED BY <2>1, <2>2
<1>7. /\ draft \in ADraft(Counted) /\ Once(draft) /\ draft.pools \in Seq(APool(Counted))
      /\ draft.pools # <<>> /\ DOMAIN draft.pools = 1 .. Len(draft.pools) /\ Len(draft.pools) \in Nat
      /\ \A k \in DOMAIN draft.pools : draft.pools[k] \in APool(Counted)
    BY DraftHas DEF Ready
<1>. HIDE DEF at, s, p
<1>8. OnceIn(p)
    BY <1>3, <1>7 DEF Once
<1>9. CASE at > 0
    <2>. DEFINE rs == without(p.runs, at)
                q == [p EXCEPT !.runs = rs]
    <2>1. rs \in Seq(RunsWith(ARpcFailure))
        BY <1>3, <1>6, <1>9, Without
    <2>. HIDE DEF rs
    <2>2. q \in APool(Counted) /\ q.runs = rs
        BY <1>3, <2>1 DEF APool
    <2>3. e = [draft EXCEPT !.pools[i] = q]
        <3>1. [draft EXCEPT !.pools[i].runs = without(@, at)] = [draft EXCEPT !.pools[i] = q]
            BY <1>3, <1>7 DEF ADraft, rs
        <3>. QED BY <1>5, <1>9, <3>1
    <2>. HIDE DEF q
    <2>4. OnceIn(q) /\ (jobs(q) # {} => jobs(p) # {})
        BY <1>3, <1>6, <1>8, <1>9, <2>2, JobsWithout DEF rs
    <2>5. Good(draft, e)
        <3>. HIDE DEF e
        <3>1. jobs(q) # {} => jobs(draft.pools[i]) # {}
            BY <1>3, <2>4
        <3>2. Good(draft, [draft EXCEPT !.pools[i] = q])
            BY <1>3, <1>7, <2>2, <2>4, <3>1, GoodPool
        <3>. QED BY <2>3, <3>2
    <2>. QED BY <1>1, <2>5 DEF GoodEdit, s
<1>10. CASE ~(at > 0) /\ ~s.entry
    <2>. DEFINE rs == p.runs \o placed(s)
                q == [p EXCEPT !.runs = rs]
    <2>1. rs \in Seq(RunsWith(ARpcFailure))
        <3>1. placed(s) \in Seq(RunsWith(ARpcFailure))
            BY <1>2, PlacedTyped DEF Opt
        <3>. QED BY <1>3, <3>1, ConcatProperties
    <2>. HIDE DEF rs
    <2>2. q \in APool(Counted) /\ q.runs = rs
        BY <1>3, <2>1 DEF APool
    <2>3. e = [draft EXCEPT !.pools[i] = q]
        <3>1. e = [draft EXCEPT !.pools = [draft.pools EXCEPT ![i].runs = @ \o placed(s)]]
            BY <1>5, <1>10
        <3>2. [draft.pools EXCEPT ![i].runs = @ \o placed(s)] = [draft.pools EXCEPT ![i] = q]
            BY <1>3 DEF rs
        <3>3. [draft EXCEPT !.pools = [draft.pools EXCEPT ![i] = q]] = [draft EXCEPT !.pools[i] = q]
            BY <1>7 DEF ADraft
        <3>. QED BY <3>1, <3>2, <3>3
    <2>. HIDE DEF q
    <2>4. jobs(q) = jobs(p)
        <3>1. s \in Opt(AService) /\ s.service # JOB
            BY <1>2, <1>10 DEF Opt
        <3>. QED BY <1>3, <2>2, <3>1, JobsWith DEF rs
    <2>5. OnceIn(q) /\ (jobs(q) # {} => jobs(p) # {})
        BY <1>8, <2>4 DEF OnceIn
    <2>6. Good(draft, e)
        <3>. HIDE DEF e
        <3>1. jobs(q) # {} => jobs(draft.pools[i]) # {}
            BY <1>3, <2>5
        <3>2. Good(draft, [draft EXCEPT !.pools[i] = q])
            BY <1>3, <1>7, <2>2, <2>5, <3>1, GoodPool
        <3>. QED BY <2>3, <3>2
    <2>. QED BY <1>1, <2>6 DEF GoodEdit, s
<1>11. CASE ~(at > 0) /\ s.entry
    <2>. DEFINE off == [k \in pools |-> offJob(pool(k))]
                q == [off[i] EXCEPT !.runs = @ \o placed(s)]
                ps == [off EXCEPT ![i] = q]
    <2>1. ASSUME NEW k \in DOMAIN draft.pools
          PROVE  off[k] \in APool(Counted) /\ jobs(off[k]) = {}
        <3>1. off[k] = offJob(draft.pools[k])
            BY DEF pools, pool
        <3>2. draft.pools[k] \in APool(Counted) /\ OnceIn(draft.pools[k])
            BY <1>7 DEF Once
        <3>. QED BY <3>1, <3>2, OffJob
    <2>2. e = [draft EXCEPT !.pools = ps]
        <3>1. e = [draft EXCEPT !.pools = [off EXCEPT ![i].runs = @ \o placed(s)]]
            BY <1>5, <1>11
        <3>2. [off EXCEPT ![i].runs = @ \o placed(s)] = ps
            OBVIOUS
        <3>. QED BY <3>1, <3>2
    <2>3. DOMAIN off = DOMAIN draft.pools /\ DOMAIN ps = DOMAIN draft.pools
        BY DEF pools
    <2>4. \A k \in DOMAIN draft.pools : ps[k] = IF k = i THEN q ELSE off[k]
        BY <2>3
    <2>5. ps = [k \in DOMAIN draft.pools |-> ps[k]]
        BY <2>3
    <2>. DEFINE o == off[i]
    <2>6. /\ o \in APool(Counted) /\ jobs(o) = {} /\ o.runs \in Seq(RunsWith(ARpcFailure))
          /\ q = [o EXCEPT !.runs = @ \o placed(s)]
        <3>1. o \in APool(Counted) /\ jobs(o) = {}
            BY <1>3, <2>1
        <3>. QED BY <3>1 DEF APool
    <2>. HIDE DEF off, o, q, ps
    <2>7. q.runs = o.runs \o placed(s) /\ q.runs \in Seq(RunsWith(ARpcFailure)) /\ OnceIn(q)
        <3>1. q.runs = o.runs \o placed(s)
            BY <2>6 DEF APool
        <3>2. s \in Opt(AService)
            BY <1>2 DEF Opt
        <3>. QED BY <2>6, <3>1, <3>2, JobsWith
    <2>8. q \in APool(Counted)
        BY <2>6, <2>7 DEF APool
    <2>9. \A k \in DOMAIN draft.pools :
              ps[k] \in APool(Counted) /\ OnceIn(ps[k]) /\ (k # i => jobs(ps[k]) = {})
        BY <2>1, <2>4, <2>7, <2>8 DEF OnceIn
    <2>10. ps \in Seq(APool(Counted)) /\ ps # <<>>
        <3>1. ps \in Seq(APool(Counted)) /\ Len(ps) = Len(draft.pools)
            BY <1>7, <2>5, <2>9, ListOf
        <3>2. Len(draft.pools) # 0
            BY <1>7, EmptySeq
        <3>. QED BY <3>1, <3>2
    <2>11. e \in ADraft(Counted) /\ e.pools = ps
        BY <1>7, <2>2, <2>10, PoolsEdit
    <2>. HIDE DEF e
    <2>12. Once(e) /\ jobPools(e) \subseteq {i}
        BY <2>3, <2>9, <2>11 DEF Once, jobPools
    <2>13. entries(e) <= 1
        <3>1. IsFiniteSet({i}) /\ Cardinality({i}) = 1
            BY FS_Singleton
        <3>2. Cardinality(jobPools(e)) <= 1
            BY <2>12, <3>1, FS_Subset
        <3>. QED BY <2>11, <3>2, EntriesOf
    <2>14. Good(draft, e)
        <3>1. entries(e) \in Nat /\ entries(draft) \in Nat
            BY <1>7, <2>11, EntriesOf
        <3>. QED BY <2>11, <2>12, <2>13, <3>1, AtMost DEF Good
    <2>. QED BY <1>1, <2>14 DEF GoodEdit, s, e
<1>. QED BY <1>6, <1>9, <1>10, <1>11

LEMMA FormGood == ASSUME Ready, Form PROVE GoodEdit
BY AddExceptionGood, AddFailureGood, AddPoolGood, AddRetryGood, AddRpcFailureGood, CalledGood,
   CapsGood, CostsGood, ExceptionsGood, FailuresGood, HowManyGood, InstanceGood, NetworkGood,
   PlacedGood, RemovePoolGood, RenameGood, RetriesGood, RpcFailuresGood, SaveAsGood, ScaleGood,
   TheInputGood, ZonesGood DEF Form

-----------------------------------------------------------------------------
(* The invariant of the page.  What a draft is, and that it runs the job    *)
(* once in a pool, comes out of the lab's files when one is opened: that    *)
(* needs that they are files its loader takes, and that a draft on its way  *)
(* from the lab is as good as one on the page.                              *)

Held == /\ DOMAIN disk \subseteq Text
        /\ \A name \in DOMAIN disk : ~refuses(disk[name])
        /\ draft # Nothing => Once(draft)
        /\ \A r \in reading : r.draft # Nothing => Once(r.draft)

Inv == TypeOK /\ Held

LEMMA FirstDraftGood == firstDraft \in ADraft(Counted) /\ Once(firstDraft)
<1>. DEFINE E == {k \in 1 .. Len(services) : services[k].entry}
            W == {k \in 1 .. Len(services) : ~services[k].entry}
            entry == Found(services, E)
            worker == Found(services, W)
            p == newPool(<<"entry", <<>>>>, 1, preferred("m5.large"), placed(entry))
            q == newPool(<<"workers", <<>>>>, 3, preferred("c5.large"), placed(worker))
            prices == IF worker = Nothing THEN {}
                      ELSE {[runs |-> worker.file, rpc |-> m.name, fixed |-> 0, perUnit |-> 0] :
                              m \in ToSet(worker.rpcs)}
            net == [k \in NETS |-> 0]
            input == [source |-> "", unit |-> "item", count |-> 1]
<1>1. /\ first(services, LAMBDA s : s.entry) = entry
      /\ first(services, LAMBDA s : ~s.entry) = worker
    BY DEF first, SelectInSeq, Found, Place1
<1>2. firstDraft = [name |-> "authored", scale |-> 1, net |-> net, pools |-> <<p, q>>,
                    retries |-> <<>>, simulatedDuration |-> prices, input |-> input]
    BY <1>1 DEF firstDraft
<1>3. entry \in Opt(AService) /\ worker \in Opt(AService)
    <2>1. services \in Seq(AService) /\ E \in SUBSET (1 .. Len(services))
          /\ W \in SUBSET (1 .. Len(services))
        BY PaletteAssumption
    <2>. HIDE DEF E, W
    <2>. QED BY <2>1, FoundThere
<1>. HIDE DEF entry, worker
<1>4. prices \in SUBSET Price
    <2>1. CASE worker = Nothing
        BY <2>1
    <2>2. CASE worker # Nothing
        <3>1. worker \in AService /\ worker.file \in Text
            BY <1>3, <2>2 DEF Opt, AService
        <3>2. \A m \in ToSet(worker.rpcs) : m.name \in Text
            BY <3>1, RpcsAreText DEF ToSet
        <3>. QED BY <2>2, <3>1, <3>2 DEF Price
    <2>. QED BY <2>1, <2>2
<1>5. \A name : (\E i \in DOMAIN instances : instances[i].name = name) => name \in Text
    BY InstancesHave
<1>6. preferred("m5.large") \in Text /\ preferred("c5.large") \in Text
    BY <1>5, InstancesHave DEF preferred
<1>7. <<"entry", <<>>>> \in Name /\ <<"workers", <<>>>> \in Name
    <2>1. <<>> \in Seq(Nat)
        OBVIOUS
    <2>. QED BY <2>1, Words DEF Name
<1>8. 1 \in Counted /\ 3 \in Counted
    BY CountedSizes
<1>9. /\ p \in APool(Counted) /\ p.runs = placed(entry)
      /\ q \in APool(Counted) /\ q.runs = placed(worker)
    BY <1>3, <1>6, <1>7, <1>8, PlacedTyped, NewPool
<1>10. OnceIn(p) /\ OnceIn(q)
    <2>1. \A s \in Opt(AService) : DOMAIN placed(s) \subseteq {1}
        <3>1. TAKE s \in Opt(AService)
        <3>2. placed(s) \in Seq(RunsWith(ARpcFailure)) /\ Len(placed(s)) \in 0 .. 1
            BY PlacedTyped
        <3>3. DOMAIN placed(s) = 1 .. Len(placed(s))
            BY <3>2
        <3>. QED BY <3>2, <3>3
    <2>. HIDE DEF p, q
    <2>2. DOMAIN p.runs \subseteq {1} /\ DOMAIN q.runs \subseteq {1}
        BY <1>3, <1>9, <2>1
    <2>. QED BY <2>2 DEF OnceIn, jobs
<1>. HIDE DEF p, q, prices
<1>11. net \in Net(Nat) /\ input \in InputWith(Text)
    <2>1. "" \in Text /\ "item" \in Text
        BY Words
    <2>2. "loss" \in NETS
        BY DEF NETS
    <2>3. net \in [NETS -> Nat] /\ net["loss"] \in Opt(0 .. 1)
        BY <2>2 DEF Opt
    <2>4. net \in Net(Nat)
        <3>. HIDE DEF net
        <3>. QED BY <2>3 DEF Net
    <2>5. input \in InputWith(Text)
        BY <2>1 DEF InputWith
    <2>. QED BY <2>4, <2>5
<1>. HIDE DEF net, input
<1>12. /\ <<p, q>> \in Seq(APool(Counted)) /\ <<p, q>> # <<>>
       /\ DOMAIN <<p, q>> = {1, 2} /\ <<p, q>>[1] = p /\ <<p, q>>[2] = q
    BY <1>9
<1>13. <<>> \in Seq(RetryWith(Nat)) /\ "authored" \in Text
    <2>1. <<>> \in Seq(RetryWith(Nat))
        OBVIOUS
    <2>2. "authored" \in Text
        BY Words
    <2>. QED BY <2>1, <2>2
<1>14. firstDraft \in ADraft(Counted)
    BY <1>2, <1>4, <1>11, <1>12, <1>13 DEF ADraft
<1>15. firstDraft.pools = <<p, q>>
    BY <1>2
<1>16. Once(firstDraft)
    BY <1>10, <1>12, <1>15 DEF Once
<1>. QED BY <1>14, <1>16

\* What the lab is found with is counted.
LEMMA WrittenTyped == \A name \in DOMAIN Written : Written[name] \in AFile(Counted)
<1>1. SUFFICES ASSUME NEW name \in DOMAIN Written PROVE Written[name] \in AFile(Counted)
    OBVIOUS
<1>. DEFINE file == Written[name]
<1>2. file \in AFile(Nat \ {0})
    BY AuthorAssumption
<1>3. file.nodes \in Seq(PoolEntry(Nat \ {0}))
    BY <1>2 DEF AFile
<1>4. /\ DOMAIN file.nodes = 1 .. Len(file.nodes) /\ Len(file.nodes) \in Nat
      /\ \A i \in DOMAIN file.nodes : file.nodes[i] \in PoolEntry(Nat \ {0})
    BY <1>3, Elements
<1>5. ASSUME NEW i \in DOMAIN file.nodes PROVE file.nodes[i] \in PoolEntry(Counted)
    <2>. DEFINE spec == file.nodes[i]
    <2>1. spec \in PoolEntry(Nat \ {0}) /\ spec \in ToSet(file.nodes)
        BY <1>4 DEF ToSet
    <2>2. spec.count \in Opt(Nat \ {0})
        BY <2>1 DEF PoolEntry
    <2>3. spec.count \in Opt(Counted)
        BY <2>1, <2>2 DEF Opt, Counted
    <2>. HIDE DEF spec
    <2>4. spec \in PoolEntry(Counted)
        BY <2>1, <2>3 DEF PoolEntry
    <2>. QED BY <2>4 DEF spec
<1>. HIDE DEF file
<1>6. file.nodes \in Seq(PoolEntry(Counted))
    BY <1>3, <1>4, <1>5, ListOf
<1>7. file \in AFile(Counted)
    BY <1>2, <1>6 DEF AFile
<1>. QED BY <1>7 DEF file

LEMMA Start == Init => Inv
<1>. SUFFICES ASSUME Init PROVE Inv
    OBVIOUS
<1>1. disk = Written /\ DOMAIN disk = DOMAIN Written
    BY DEF Init
<1>2. DOMAIN disk \subseteq Text /\ \A name \in DOMAIN disk : ~refuses(disk[name])
    BY <1>1, AuthorAssumption
<1>3. disk \in [DOMAIN disk -> AFile(Counted)]
    <2>1. disk = [name \in DOMAIN disk |-> disk[name]]
        BY <1>1, AuthorAssumption
    <2>. QED BY <1>1, <2>1, WrittenTyped
<1>4. TypeOK
    BY <1>3, AuthorAssumption DEF Init, TypeOK, Opt
<1>5. Held
    BY <1>2 DEF Init, Held
<1>. QED BY <1>4, <1>5 DEF Inv

\* A step that leaves the lab's files alone.
LEMMA Kept ==
    ASSUME Inv, UNCHANGED disk,
           mode' \in {"list", "new", "edit"} /\ palette' \in {"asked", "none", "uncompiled", "here"},
           draft' # Nothing => draft' \in ADraft(Counted) /\ Once(draft'),
           editing' \in DOMAIN disk \cup {Nothing} /\ refused' \in {Nothing, "refused"},
           saying' \in {Nothing, "writing", "running", "saving"},
           (saying' = Nothing) = (writing' = Nothing),
           reading' \subseteq Read /\ writing' \in Opt(Write),
           \A r \in reading' : r.draft # Nothing => Once(r.draft),
           steps' \in 0 .. Steps /\ presses' \in 0 .. Presses
    PROVE  Inv'
<1>1. DOMAIN disk' = DOMAIN disk /\ disk' = disk
    OBVIOUS
<1>2. Read' = Read
    BY <1>1 DEF Read
<1>3. /\ disk \in [DOMAIN disk -> AFile(Counted)] /\ DOMAIN disk \subseteq Text
      /\ \A name \in DOMAIN disk : ~refuses(disk[name])
    BY DEF Inv, TypeOK, Held
<1>4. TypeOK'
    BY <1>1, <1>2, <1>3 DEF TypeOK
<1>5. Held'
    BY <1>1, <1>3 DEF Held
<1>. QED BY <1>4, <1>5 DEF Inv

\* What the page is before any of its steps.
LEMMA Before ==
    ASSUME Inv
    PROVE  /\ mode \in {"list", "new", "edit"} /\ palette \in {"asked", "none", "uncompiled", "here"}
           /\ draft # Nothing => draft \in ADraft(Counted) /\ Once(draft)
           /\ editing \in DOMAIN disk \cup {Nothing} /\ refused \in {Nothing, "refused"}
           /\ saying \in {Nothing, "writing", "running", "saving"}
           /\ (saying = Nothing) = (writing = Nothing)
           /\ reading \subseteq Read /\ writing \in Opt(Write)
           /\ \A r \in reading : r.draft # Nothing => Once(r.draft)
           /\ steps \in 0 .. Steps /\ presses \in 0 .. Presses
           /\ disk \in [DOMAIN disk -> AFile(Counted)] /\ DOMAIN disk \subseteq Text
           /\ \A name \in DOMAIN disk : ~refuses(disk[name])
BY DEF Inv, TypeOK, Held

LEMMA Pressed == ASSUME Inv, Press PROVE presses' \in 0 .. Presses
BY AuthorAssumption DEF Inv, TypeOK, Press

LEMMA ReadyForm == ASSUME Inv, formShown PROVE Ready
BY Before DEF formShown, Ready

LEMMA EditKeeps == ASSUME Inv, NEW e, Good(draft, e), edit(e) PROVE Inv'
<1>1. e \in ADraft(Counted) /\ Once(e)
    BY DEF Good
<1>2. draft' = e /\ refused' = Nothing /\ steps < Steps /\ steps' = steps + 1
      /\ UNCHANGED <<mode, palette, editing, saying, reading, writing, disk, presses>>
    BY DEF edit, Control
<1>3. steps' \in 0 .. Steps
    BY <1>2, Before, AuthorAssumption
<1>4. draft' \in ADraft(Counted) /\ Once(draft')
    BY <1>1, <1>2
<1>. QED BY <1>2, <1>3, <1>4, Before, Kept

LEMMA FormKeeps == ASSUME Inv, Form PROVE Inv'
<1>1. Ready
    BY ReadyForm DEF Form
<1>2. PICK e : Good(draft, e) /\ edit(e)
    BY <1>1, FormGood DEF GoodEdit
<1>. QED BY <1>2, EditKeeps

LEMMA PaletteCameKeeps == ASSUME Inv, paletteCame PROVE Inv'
<1>1. /\ palette' \in {"none", "uncompiled", "here"}
      /\ draft' = IF palette' = "here" THEN firstDraft ELSE draft
      /\ UNCHANGED <<mode, editing, saying, refused, reading, writing, disk, steps, presses>>
    BY DEF paletteCame
<1>2. draft' # Nothing => draft' \in ADraft(Counted) /\ Once(draft')
    BY <1>1, Before, FirstDraftGood
<1>. QED BY <1>1, <1>2, Before, Kept

LEMMA NewSimulationKeeps == ASSUME Inv, NewSimulation PROVE Inv'
<1>1. /\ Press /\ refused' = Nothing /\ draft' = firstDraft /\ mode' = "new"
      /\ UNCHANGED <<palette, editing, saying, reading, writing, disk, steps>>
    BY DEF NewSimulation
<1>2. draft' \in ADraft(Counted) /\ Once(draft')
    BY <1>1, FirstDraftGood
<1>. QED BY <1>1, <1>2, Before, Kept, Pressed

LEMMA CancelKeeps == ASSUME Inv, Cancel PROVE Inv'
<1>1. /\ Press /\ mode' = "list" /\ refused' = Nothing /\ editing' = Nothing
      /\ UNCHANGED <<palette, draft, saying, reading, writing, disk, steps>>
    BY DEF Cancel
<1>. QED BY <1>1, Before, Kept, Pressed

LEMMA OpenForEditKeeps == ASSUME Inv, openForEdit PROVE Inv'
<1>1. PICK name \in DOMAIN disk : reading' = reading \cup
          {[id |-> presses, name |-> name, answered |-> FALSE, draft |-> Nothing]}
    BY DEF openForEdit
<1>. DEFINE r == [id |-> presses, name |-> name, answered |-> FALSE, draft |-> Nothing]
<1>2. /\ Press /\ refused' = Nothing
      /\ UNCHANGED <<mode, palette, draft, editing, saying, writing, disk, steps>>
    BY DEF openForEdit
<1>3. r \in Read /\ r.draft = Nothing
    <2>1. presses \in Nat
        BY Before, AuthorAssumption
    <2>. QED BY <2>1 DEF Read, Opt
<1>. HIDE DEF r
<1>4. reading' \subseteq Read /\ \A q \in reading' : q.draft # Nothing => Once(q.draft)
    BY <1>1, <1>3, Before DEF r
<1>. QED BY <1>2, <1>4, Before, Kept, Pressed

\* What the lab answers of a file it has.
LEMMA AnswerGood ==
    ASSUME Inv, NEW name \in DOMAIN disk, ~cannotShow(disk[name])
    PROVE  Of(name, disk[name]) \in ADraft(Counted) /\ Once(Of(name, disk[name]))
<1>. DEFINE file == disk[name]
            d == Of(name, file)
<1>1. file \in AFile(Counted) /\ ~refuses(file) /\ name \in Text
    BY Before
<1>2. /\ file.nodes # <<>>
      /\ \A spec \in ToSet(file.nodes) : \A j, k \in DOMAIN spec.runs :
            spec.runs[j].service = spec.runs[k].service => j = k
    BY <1>1 DEF refuses, distinct
<1>. HIDE DEF file
<1>3. /\ d \in ADraft(Counted) /\ DOMAIN d.pools = DOMAIN file.nodes
      /\ \A i \in DOMAIN file.nodes :
            /\ DOMAIN d.pools[i].runs = DOMAIN file.nodes[i].runs
            /\ \A k \in DOMAIN file.nodes[i].runs :
                  d.pools[i].runs[k].service = file.nodes[i].runs[k].service
    BY <1>1, <1>2, CountedSizes, DraftOpened DEF file
<1>. HIDE DEF d
<1>4. ASSUME NEW i \in DOMAIN d.pools PROVE OnceIn(d.pools[i])
    <2>1. i \in DOMAIN file.nodes /\ file.nodes[i] \in ToSet(file.nodes)
        BY <1>3 DEF ToSet
    <2>. QED BY <1>2, <1>3, <2>1 DEF OnceIn, jobs
<1>5. Once(d)
    BY <1>4 DEF Once
<1>. QED BY <1>3, <1>5 DEF d, file

LEMMA ReadScenarioKeeps == ASSUME Inv, readScenario PROVE Inv'
<1>1. PICK r \in reading : \E said \in {Nothing} \cup
               (IF refuses(disk[r.name]) \/ cannotShow(disk[r.name]) THEN {}
                ELSE {Of(r.name, disk[r.name])}) :
             reading' = (reading \ {r}) \cup {[r EXCEPT !.answered = TRUE, !.draft = said]}
    BY DEF readScenario
<1>2. PICK said \in {Nothing} \cup
               (IF refuses(disk[r.name]) \/ cannotShow(disk[r.name]) THEN {}
                ELSE {Of(r.name, disk[r.name])}) :
             reading' = (reading \ {r}) \cup {[r EXCEPT !.answered = TRUE, !.draft = said]}
    BY <1>1
<1>. DEFINE q == [r EXCEPT !.answered = TRUE, !.draft = said]
<1>3. UNCHANGED <<mode, palette, draft, editing, saying, refused, writing, disk, steps, presses>>
    BY DEF readScenario
<1>4. r \in Read /\ r.name \in DOMAIN disk
    BY Before DEF Read
<1>5. said \in Opt(ADraft(Counted)) /\ (said # Nothing => Once(said))
    BY <1>2, <1>4, AnswerGood DEF Opt
<1>6. q \in Read /\ q.draft = said
    BY <1>4, <1>5 DEF Read
<1>. HIDE DEF q
<1>7. reading' \subseteq Read /\ \A x \in reading' : x.draft # Nothing => Once(x.draft)
    BY <1>2, <1>5, <1>6, Before DEF q
<1>. QED BY <1>3, <1>7, Before, Kept

LEMMA OpenedKeeps == ASSUME Inv, opened PROVE Inv'
<1>1. PICK r \in reading :
        /\ reading' = reading \ {r}
        /\ IF r.draft = Nothing
           THEN refused' = "refused" /\ UNCHANGED <<mode, draft, editing>>
           ELSE draft' = r.draft /\ editing' = r.name /\ mode' = "edit" /\ UNCHANGED refused
        /\ UNCHANGED <<palette, saying, writing, disk, steps, presses>>
    BY DEF opened
<1>2. /\ r.draft \in Opt(ADraft(Counted)) /\ (r.draft # Nothing => Once(r.draft))
      /\ r.name \in DOMAIN disk
    BY Before DEF Read
<1>3. reading' \subseteq Read /\ \A x \in reading' : x.draft # Nothing => Once(x.draft)
    BY <1>1, Before
<1>4. CASE r.draft = Nothing
    BY <1>1, <1>3, <1>4, Before, Kept
<1>5. CASE r.draft # Nothing
    <2>1. /\ draft' = r.draft /\ editing' = r.name /\ mode' = "edit" /\ UNCHANGED refused
        BY <1>1, <1>5
    <2>2. draft' \in ADraft(Counted) /\ Once(draft')
        BY <1>2, <1>5, <2>1 DEF Opt
    <2>. QED BY <1>1, <1>2, <1>3, <2>1, <2>2, Before, Kept
<1>. QED BY <1>4, <1>5

LEMMA WritesKeeps ==
    ASSUME Inv, NEW by \in {"create", "edit"}, NEW word \in {"writing", "saving"}, writes(by, word)
    PROVE  Inv'
<1>1. /\ Press /\ formShown
      /\ writing' = [by |-> by, name |-> draft.name, file |-> toYaml(draft)]
      /\ saying' = word /\ refused' = Nothing
      /\ UNCHANGED <<mode, palette, draft, editing, reading, disk, steps>>
    BY DEF writes
<1>2. draft \in ADraft(Counted)
    BY <1>1, ReadyForm DEF Ready
<1>3. draft.name \in Text /\ toYaml(draft) \in AFile(Counted)
    BY <1>2, CountedSizes, DraftHas, DraftWritten
<1>4. writing' \in Write
    BY <1>1, <1>3 DEF Write
<1>5. writing' # Nothing /\ saying' # Nothing
    BY <1>1, <1>4, AuthorAssumption
<1>6. saying' \in {Nothing, "writing", "running", "saving"} /\ writing' \in Opt(Write)
    BY <1>1, <1>4 DEF Opt
<1>. QED BY <1>1, <1>5, <1>6, Before, Kept, Pressed

LEMMA Wrote ==
    ASSUME Inv, writing # Nothing, ~refuses(writing.file), kept
    PROVE  /\ disk' \in [DOMAIN disk' -> AFile(Counted)]
           /\ DOMAIN disk \subseteq DOMAIN disk' /\ DOMAIN disk' \subseteq Text
           /\ \A name \in DOMAIN disk' : ~refuses(disk'[name])
           /\ Read \subseteq Read'
<1>. DEFINE names == DOMAIN disk \cup {writing.name}
            d == [n \in names |-> IF n = writing.name THEN writing.file ELSE disk[n]]
<1>1. disk' = d
    BY DEF kept
<1>2. writing.name \in Text /\ writing.file \in AFile(Counted)
    BY Before DEF Write, Opt
<1>3. /\ disk \in [DOMAIN disk -> AFile(Counted)] /\ DOMAIN disk \subseteq Text
      /\ \A name \in DOMAIN disk : ~refuses(disk[name])
    BY Before
<1>4. \A n \in names : d[n] \in AFile(Counted) /\ ~refuses(d[n])
    BY <1>2, <1>3
<1>5. DOMAIN d = names /\ d = [n \in names |-> d[n]]
    OBVIOUS
<1>. HIDE DEF d
<1>6. d \in [DOMAIN d -> AFile(Counted)] /\ DOMAIN d \subseteq Text /\ DOMAIN disk \subseteq DOMAIN d
    BY <1>2, <1>3, <1>4, <1>5
<1>7. Read \subseteq Read'
    BY <1>1, <1>6 DEF Read
<1>. QED BY <1>1, <1>4, <1>5, <1>6, <1>7

LEMMA WroteKeeps ==
    ASSUME Inv, writing # Nothing, ~refuses(writing.file), kept,
           UNCHANGED <<palette, draft, reading, steps, presses>>,
           mode' \in {"list", "new", "edit"},
           editing' \in DOMAIN disk \cup {Nothing}, refused' \in {Nothing, "refused"},
           saying' \in {Nothing, "writing", "running", "saving"},
           (saying' = Nothing) = (writing' = Nothing), writing' \in Opt(Write)
    PROVE  Inv'
<1>1. /\ disk' \in [DOMAIN disk' -> AFile(Counted)]
      /\ DOMAIN disk \subseteq DOMAIN disk' /\ DOMAIN disk' \subseteq Text
      /\ \A name \in DOMAIN disk' : ~refuses(disk'[name])
      /\ Read \subseteq Read'
    BY Wrote
<1>2. /\ palette \in {"asked", "none", "uncompiled", "here"}
      /\ draft # Nothing => draft \in ADraft(Counted) /\ Once(draft)
      /\ reading \subseteq Read
      /\ \A r \in reading : r.draft # Nothing => Once(r.draft)
      /\ steps \in 0 .. Steps /\ presses \in 0 .. Presses
    BY Before
<1>3. reading' \subseteq Read' /\ editing' \in DOMAIN disk' \cup {Nothing}
    BY <1>1, <1>2
<1>4. TypeOK'
    BY <1>1, <1>2, <1>3 DEF TypeOK
<1>5. Held'
    BY <1>1, <1>2 DEF Held
<1>. QED BY <1>4, <1>5 DEF Inv

LEMMA AnsweredNoKeeps == ASSUME Inv, answeredNo PROVE Inv'
<1>1. /\ writing # Nothing /\ writing' = Nothing /\ saying' = Nothing /\ refused' = "refused"
      /\ UNCHANGED <<mode, palette, draft, editing, reading, steps, presses>>
      /\ UNCHANGED disk \/ (~refuses(writing.file) /\ kept)
    BY DEF answeredNo
<1>2. writing' \in Opt(Write)
    BY <1>1 DEF Opt
<1>3. CASE UNCHANGED disk
    BY <1>1, <1>2, <1>3, Before, Kept
<1>4. CASE ~refuses(writing.file) /\ kept
    BY <1>1, <1>2, <1>4, Before, WroteKeeps
<1>. QED BY <1>1, <1>3, <1>4

LEMMA AnsweredYesKeeps == ASSUME Inv, answeredYes PROVE Inv'
<1>1. /\ writing # Nothing /\ ~refuses(writing.file) /\ kept
      /\ IF writing.by = "create"
         THEN saying' = "running" /\ UNCHANGED <<mode, editing, writing>>
         ELSE saying' = Nothing /\ editing' = Nothing /\ mode' = "list" /\ writing' = Nothing
      /\ UNCHANGED <<palette, draft, refused, reading, steps, presses>>
    BY DEF answeredYes
<1>2. CASE writing.by = "create"
    <2>1. saying' = "running" /\ UNCHANGED <<mode, editing, writing>> /\ saying' # Nothing
        BY <1>1, <1>2, AuthorAssumption
    <2>. QED BY <1>1, <2>1, Before, WroteKeeps
<1>3. CASE writing.by # "create"
    <2>1. saying' = Nothing /\ editing' = Nothing /\ mode' = "list" /\ writing' = Nothing
        BY <1>1, <1>3
    <2>2. writing' \in Opt(Write)
        BY <2>1 DEF Opt
    <2>. QED BY <1>1, <2>1, <2>2, Before, WroteKeeps
<1>. QED BY <1>2, <1>3

LEMMA StartedBuildKeeps == ASSUME Inv, startedBuild PROVE Inv'
<1>1. /\ saying' = Nothing /\ mode' = "list" /\ writing' = Nothing
      /\ UNCHANGED <<palette, draft, editing, refused, reading, disk, steps, presses>>
    BY DEF startedBuild
<1>2. writing' \in Opt(Write)
    BY <1>1 DEF Opt
<1>. QED BY <1>1, <1>2, Before, Kept

LEMMA PageKeeps == ASSUME Inv, Page PROVE Inv'
<1>1. CASE create
    BY <1>1, WritesKeeps DEF create
<1>2. CASE saveEdit
    BY <1>2, WritesKeeps DEF saveEdit
<1>. QED BY <1>1, <1>2, PaletteCameKeeps, NewSimulationKeeps, CancelKeeps, OpenForEditKeeps,
            ReadScenarioKeeps, OpenedKeeps, AnsweredNoKeeps, AnsweredYesKeeps,
            StartedBuildKeeps DEF Page

LEMMA StutterKeeps == ASSUME Inv, UNCHANGED vars PROVE Inv'
<1>1. /\ UNCHANGED <<mode, palette, draft, editing, saying, refused, reading, writing, disk>>
      /\ UNCHANGED <<steps, presses>>
    BY DEF vars
<1>. QED BY <1>1, Before, Kept

LEMMA Always == Spec => []Inv
<1>1. Init => Inv
    BY Start
<1>2. Inv /\ [Next]_vars => Inv'
    BY FormKeeps, PageKeeps, StutterKeeps DEF Next
<1>. QED BY <1>1, <1>2, PTL DEF Spec

-----------------------------------------------------------------------------
(* What the page keeps.                                                     *)

\* The types of the page's state, whatever is done with the controls in whatever
\* order and whenever the lab answers: a draft on the page is one the form can show
\* (author.ts), every file it writes is one Loader.of can read key by key, and what
\* the lab holds stays what its loader takes (Loader.java, Runs.java).
THEOREM AuthorTypeCorrect == Spec => []TypeOK
<1>1. Inv => TypeOK
    BY DEF Inv
<1>. QED BY <1>1, Always, PTL

\* The nodes the form names and counts (nodes() of author.ts) are, pool by pool, the
\* machines the loader deals out of the file the form writes (machines() of Loader.java),
\* for every draft that any controls can make, and sit where they sit wherever no
\* exception is left over.  It cannot be had without that condition: NodesAreProduced.
THEOREM FormNamesTheMachines == Spec => []NodesAreTheLoaders
<1>1. Inv => NodesAreTheLoaders
    <2>. SUFFICES ASSUME Inv, draft # Nothing, NEW p \in ToSet(draft.pools)
                  PROVE  namedAlike(p) /\ (leftOver(p) \/ dealtAlike(p))
        BY DEF NodesAreTheLoaders
    <2>1. draft \in ADraft(Counted)
        BY Before
    <2>2. p \in APool(Counted)
        BY <2>1, DraftHas DEF ToSet
    <2>. QED BY <2>2, CountedSizes, NodesAreMachines DEF namedAlike, dealtAlike
<1>. QED BY <1>1, Always, PTL

\* Whatever the controls made of a draft, the file toYaml writes of it opens in the
\* form again (Draft.java refuses nothing of it), and what is read out of it is
\* written back as the same file.
THEOREM FileReadsBack == Spec => []ReadsBack
<1>1. Inv => ReadsBack
    <2>. SUFFICES ASSUME Inv, draft # Nothing
                  PROVE  /\ ~cannotShow(toYaml(draft))
                         /\ toYaml(Of(draft.name, toYaml(draft))) = toYaml(draft)
        BY DEF ReadsBack
    <2>1. draft \in ADraft(Counted)
        BY Before
    <2>. QED BY <2>1, CountedSizes, DraftWritten
<1>. QED BY <1>1, Always, PTL

\* No control of the form leaves a draft with more pools that run the job than it had,
\* unless it had none: the pill that places the job takes it off every pool (Runs of
\* Simulations.tsx), which relies on no pool running it twice.  Of the nodes of that pool
\* it says nothing, of which there may be several: OneNodeStarts.
THEOREM JobInOnePool == Spec => OneEntryPool
<1>1. Inv /\ [Next]_vars => [draft # Nothing /\ draft' # Nothing /\ steps' # steps
                               => entries(draft') <= Max({1, entries(draft)})]_vars
    <2>. SUFFICES ASSUME Inv, Next, steps' # steps
                  PROVE  entries(draft') <= Max({1, entries(draft)})
        BY DEF vars
    <2>1. CASE Form
        <3>1. Ready
            BY <2>1, ReadyForm DEF Form
        <3>2. PICK e : Good(draft, e) /\ edit(e)
            BY <2>1, <3>1, FormGood DEF GoodEdit
        <3>3. draft' = e
            BY <3>2 DEF edit
        <3>. QED BY <3>2, <3>3 DEF Good
    <2>2. CASE Page
        BY <2>2 DEF Page, paletteCame, NewSimulation, Cancel, openForEdit, readScenario, opened,
                    create, saveEdit, writes, answeredNo, answeredYes, startedBuild
    <2>. QED BY <2>1, <2>2 DEF Next
<1>. QED BY <1>1, Always, PTL DEF Spec, OneEntryPool
=============================================================================
