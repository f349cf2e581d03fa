---------------------------- MODULE Player_proofs ----------------------------
(***************************************************************************)
(* What holds of the viewer for any runs a trace can say (TraceAssumption) *)
(* and any bills of them (BillAssumption), any number of gestures, any     *)
(* instant of the clock and any stage:                                     *)
(*                                                                         *)
(*   StateInvariant, TypeCorrect   where the clocks and the windows stand; *)
(*   NoStaleFace                   what is not drawn again need not be;    *)
(*   EveryCutIsWhole               the bill is divided without remainder;  *)
(*   PagesReadTheTrace             the film's index answers by instants,   *)
(*                                 and the charts draw what was read;      *)
(*   FilmRunsForward               nothing that has happened is taken back;*)
(*   PictureIsLegible              no node of the film covers another;     *)
(*   TimeIsKept                    the time of a span is accounted for.    *)
(*                                                                         *)
(* First what the sorts and sums of the viewer do, then the clock and the  *)
(* traces, then one part for each of the results.                          *)
(***************************************************************************)
EXTENDS Player, FiniteSetTheorems, SequenceTheorems, WellFoundedInduction, TLAPS

(* There is a least among some natural numbers.                               *)
LEMMA LeastNatural ==
    ASSUME NEW T \in SUBSET Nat, T # {}
    PROVE  \E n \in T : \A m \in T : n <= m
<1>1. PICK n \in T : \A m \in T : ~(<<m, n>> \in OpToRel(<, Nat))
    BY NatLessThanWellFounded, WFMin, Zenon
<1>2. ASSUME NEW m \in T, m < n PROVE FALSE
    <2>1. <<m, n>> \in Nat \X Nat /\ <<m, n>>[1] = m /\ <<m, n>>[2] = n
        OBVIOUS
    <2>2. <<m, n>> \in OpToRel(<, Nat)
        BY <2>1, <1>2 DEF OpToRel
    <2>. QED BY <1>1, <2>2
<1>3. \A m \in T : n <= m
    BY <1>2
<1>. QED BY <1>3

(* The largest of finitely many numbers, as FiniteSetsExt chooses it, is      *)
(* one.                                                                       *)
LEMMA FiniteMax ==
    ASSUME NEW S \in SUBSET Int, IsFiniteSet(S), S # {}
    PROVE  Max(S) \in S /\ \A y \in S : y <= Max(S)
<1>. DEFINE Topped(U) == \E x \in U : \A y \in U : y <= x
            Bad == {n \in Nat : \E U \in SUBSET Int : /\ IsFiniteSet(U) /\ Cardinality(U) = n
                                                       /\ U # {} /\ ~Topped(U)}
<1>1. Bad = {}
    <2>. SUFFICES ASSUME Bad # {} PROVE FALSE
        OBVIOUS
    <2>1. PICK n \in Bad : \A m \in Bad : n <= m
        BY LeastNatural
    <2>2. PICK U \in SUBSET Int : IsFiniteSet(U) /\ Cardinality(U) = n /\ U # {} /\ ~Topped(U)
        BY <2>1
    <2>3. PICK x \in U : TRUE
        BY <2>2
    <2>4. IsFiniteSet(U \ {x}) /\ Cardinality(U \ {x}) = n - 1
        BY <2>2, <2>3, FS_RemoveElement
    <2>. n - 1 \in Nat
        BY <2>4, FS_CardinalityType
    <2>5. U \ {x} # {}
        BY <2>2, <2>3
    <2>6. Topped(U \ {x})
        <3>. SUFFICES ASSUME ~Topped(U \ {x}) PROVE FALSE
            OBVIOUS
        <3>1. U \ {x} \in SUBSET Int
            BY <2>2
        <3>. HIDE DEF Topped
        <3>2. n - 1 \in Bad
            BY <2>4, <2>5, <3>1
        <3>. HIDE DEF Bad
        <3>3. n <= n - 1
            BY <2>1, <3>2
        <3>4. n \in Nat
            BY DEF Bad
        <3>. QED BY <3>3, <3>4
    <2>7. Topped(U)
        <3>1. PICK z \in U \ {x} : \A y \in U \ {x} : y <= z
            BY <2>6
        <3>2. x \in Int /\ z \in Int /\ U \in SUBSET Int
            BY <2>2, <2>3, <3>1
        <3>3. CASE x <= z
            <4>1. \A y \in U : y <= z
                BY <3>1, <3>3
            <4>. QED BY <3>1, <4>1
        <3>4. CASE z <= x
            <4>1. \A y \in U : y <= x
                BY <3>1, <3>2, <3>4
            <4>. QED BY <2>3, <4>1
        <3>. QED BY <3>2, <3>3, <3>4
    <2>. QED BY <2>2, <2>7
<1>2. Cardinality(S) \in Nat
    BY FS_CardinalityType
<1>3. Topped(S)
    BY <1>1, <1>2
<1>. QED BY <1>3 DEF Max

(* Positions that are taken from the front are the first so many.             *)
LEMMA PrefixCount ==
    ASSUME NEW n \in Nat, NEW P \in SUBSET (1 .. n),
           \A i \in P : \A j \in 1 .. n : j < i => j \in P
    PROVE  Cardinality(P) \in 0 .. n /\ P = 1 .. Cardinality(P)
<1>1. IsFiniteSet(P)
    <2>1. IsFiniteSet(1 .. n)
        BY FS_Interval
    <2>. QED BY <2>1, FS_Subset
<1>2. CASE P = {}
    <2>1. Cardinality(P) = 0
        BY <1>2, FS_EmptySet
    <2>. QED BY <2>1, <1>2
<1>3. CASE P # {}
    <2>1. P \in SUBSET Int
        OBVIOUS
    <2>2. PICK m \in P : \A y \in P : y <= m
        BY <2>1, <1>1, <1>3, FiniteMax
    <2>3. m \in 1 .. n
        OBVIOUS
    <2>4. \A j \in 1 .. m : j \in P
        BY <2>3
    <2>5. \A j \in P : j \in 1 .. m
        BY <2>2, <2>3
    <2>6. P = 1 .. m
        BY <2>4, <2>5
    <2>7. Cardinality(1 .. m) = m
        BY <2>3, FS_Interval
    <2>. QED BY <2>3, <2>6, <2>7
<1>. QED BY <1>2, <1>3

(* What is put in an order that is total has everything once, in that         *)
(* order: InOrder, which stands for every sort of the viewer.                 *)
LEMMA InOrderSorts ==
    ASSUME NEW S, IsFiniteSet(S), NEW order,
           \A x \in S : <<x, x>> \notin order,
           \A x, y \in S : x # y => <<x, y>> \in order \/ <<y, x>> \in order,
           \A x, y, z \in S : <<x, y>> \in order /\ <<y, z>> \in order => <<x, z>> \in order
    PROVE  /\ Cardinality(S) \in Nat
           /\ DOMAIN InOrder(S, order) = 1 .. Cardinality(S)
           /\ \A k \in 1 .. Cardinality(S) : InOrder(S, order)[k] \in S
           /\ \A x \in S : \E k \in 1 .. Cardinality(S) : InOrder(S, order)[k] = x
           /\ \A j, k \in 1 .. Cardinality(S) :
                  j < k => <<InOrder(S, order)[j], InOrder(S, order)[k]>> \in order
<1>. DEFINE ahead(x) == {y \in S : <<y, x>> \in order}
            n        == Cardinality(S)
            q        == InOrder(S, order)
            place    == [x \in S |-> Cardinality(ahead(x))]
<1>1. n \in Nat
    BY FS_CardinalityType
<1>2. \A x \in S : place[x] \in 0 .. n - 1
    <2>. TAKE x \in S
    <2>1. ahead(x) \in SUBSET S /\ ahead(x) # S
        OBVIOUS
    <2>. HIDE DEF ahead
    <2>2. IsFiniteSet(ahead(x)) /\ Cardinality(ahead(x)) <= n /\ Cardinality(ahead(x)) # n
        BY <2>1, FS_Subset
    <2>3. Cardinality(ahead(x)) \in Nat
        BY <2>2, FS_CardinalityType
    <2>. QED BY <2>2, <2>3, <1>1
<1>3. \A x, y \in S : <<x, y>> \in order => place[x] < place[y]
    <2>. TAKE x, y \in S
    <2>. HAVE <<x, y>> \in order
    <2>1. ahead(x) \in SUBSET ahead(y) /\ ahead(x) # ahead(y) /\ ahead(y) \in SUBSET S
        OBVIOUS
    <2>. HIDE DEF ahead
    <2>2. IsFiniteSet(ahead(y))
        BY <2>1, FS_Subset
    <2>3. Cardinality(ahead(x)) <= Cardinality(ahead(y)) /\ Cardinality(ahead(x)) # Cardinality(ahead(y))
        BY <2>1, <2>2, FS_Subset
    <2>. QED BY <2>3, <1>2, <1>1
<1>4. \A k \in 1 .. n : q[k] = CHOOSE x \in S : place[x] = k - 1
    <2>. TAKE k \in 1 .. n
    <2>1. q[k] = CHOOSE x \in S : Cardinality(ahead(x)) = k - 1
        BY DEF InOrder
    <2>. QED BY <2>1
<1>5. DOMAIN q = 1 .. n
    BY DEF InOrder
<1>6. place \in [S -> 0 .. n - 1]
    <2>. DEFINE g(x) == Cardinality(ahead(x))
    <2>1. place = [x \in S |-> g(x)]
        OBVIOUS
    <2>2. \A x \in S : g(x) \in 0 .. n - 1
        BY <1>2
    <2>. HIDE DEF g, place
    <2>. QED BY <2>1, <2>2
<1>. HIDE DEF ahead, n, q, place
<1>11. ASSUME NEW x \in S, NEW y \in S, place[x] = place[y]
       PROVE  x = y
    <2>1. place[x] \in Int /\ ~(place[x] < place[y]) /\ ~(place[y] < place[x])
        BY <1>1, <1>2, <1>11
    <2>2. <<x, y>> \notin order /\ <<y, x>> \notin order
        BY <2>1, <1>3
    <2>. QED BY <2>2
<1>7. place \in Surjection(S, 0 .. n - 1)
    <2>1. \A x, y \in S : place[x] = place[y] => x = y
        BY <1>11
    <2>2. place \in Injection(S, 0 .. n - 1)
        BY <1>6, <2>1 DEF Injection, IsInjective
    <2>3. n - 1 \in Int /\ 0 \in Int
        BY <1>1
    <2>4. IsFiniteSet(0 .. n - 1) /\ Cardinality(0 .. n - 1) = n
        BY <1>1, <2>3, FS_Interval
    <2>. QED BY <2>2, <2>4, FS_Injection DEF n
<1>8. \A k \in 1 .. n : q[k] \in S /\ place[q[k]] = k - 1
    <2>. TAKE k \in 1 .. n
    <2>1. \E x \in S : place[x] = k - 1
        <3>1. k - 1 \in 0 .. n - 1
            BY <1>1
        <3>. QED BY <3>1, <1>7 DEF Surjection
    <2>. QED BY <2>1, <1>4
<1>9. \A x \in S : \E k \in 1 .. n : q[k] = x
    <2>. TAKE x \in S
    <2>1. place[x] + 1 \in 1 .. n /\ (place[x] + 1) - 1 = place[x]
        BY <1>1, <1>2
    <2>2. place[q[place[x] + 1]] = place[x] /\ q[place[x] + 1] \in S
        BY <2>1, <1>8
    <2>3. q[place[x] + 1] = x
        BY <2>2, <1>11
    <2>. QED BY <2>1, <2>3
<1>10. \A j, k \in 1 .. n : j < k => <<q[j], q[k]>> \in order
    <2>. TAKE j, k \in 1 .. n
    <2>. HAVE j < k
    <2>1. q[j] \in S /\ q[k] \in S /\ place[q[j]] = j - 1 /\ place[q[k]] = k - 1
        BY <1>8
    <2>2. place[q[j]] \in Int /\ place[q[j]] < place[q[k]] /\ q[j] # q[k]
        BY <2>1
    <2>3. <<q[k], q[j]>> \notin order
        BY <2>1, <2>2, <1>3
    <2>. QED BY <2>1, <2>2, <2>3
<1>. QED BY <1>1, <1>5, <1>8, <1>9, <1>10 DEF n, q

(* Sorted by an instant, and as written where the instants are the same       *)
(* (the sort of JavaScript is stable).                                        *)
LEMMA ByTimeSorts ==
    ASSUME NEW seq, NEW f, NEW kept \in SUBSET (DOMAIN seq), IsFiniteSet(kept),
           \A i \in kept : i \in Int /\ seq[i][f] \in Int
    PROVE  /\ Cardinality(kept) \in Nat
           /\ DOMAIN ByTime(seq, kept, f) = 1 .. Cardinality(kept)
           /\ \E at \in [1 .. Cardinality(kept) -> kept] :
                /\ \A k \in 1 .. Cardinality(kept) : ByTime(seq, kept, f)[k] = seq[at[k]]
                /\ \A i \in kept : \E k \in 1 .. Cardinality(kept) : at[k] = i
                /\ \A j, k \in 1 .. Cardinality(kept) :
                      j < k => (seq[at[j]][f] < seq[at[k]][f]
                                \/ (seq[at[j]][f] = seq[at[k]][f] /\ at[j] < at[k]))
<1>. DEFINE n == Cardinality(kept)
            R == Sooner(seq, f)
            at == InOrder(kept, R)
<1>1. \A i, j \in kept :
          <<i, j>> \in R <=> (seq[i][f] < seq[j][f] \/ (seq[i][f] = seq[j][f] /\ i < j))
    <2>. TAKE i, j \in kept
    <2>. DEFINE p == <<i, j>>
    <2>1. p \in (DOMAIN seq) \X (DOMAIN seq) /\ p[1] = i /\ p[2] = j
        OBVIOUS
    <2>. HIDE DEF p
    <2>2. p \in R <=> (seq[p[1]][f] < seq[p[2]][f] \/ (seq[p[1]][f] = seq[p[2]][f] /\ p[1] < p[2]))
        BY <2>1 DEF Sooner
    <2>. QED BY <2>1, <2>2 DEF p
<1>. HIDE DEF R
<1>2. /\ \A x \in kept : <<x, x>> \notin R
      /\ \A x, y \in kept : x # y => <<x, y>> \in R \/ <<y, x>> \in R
      /\ \A x, y, z \in kept : <<x, y>> \in R /\ <<y, z>> \in R => <<x, z>> \in R
    <2>1. \A x \in kept : <<x, x>> \notin R
        BY <1>1
    <2>2. \A x, y \in kept : x # y => <<x, y>> \in R \/ <<y, x>> \in R
        BY <1>1
    <2>3. ASSUME NEW x \in kept, NEW y \in kept, NEW z \in kept, <<x, y>> \in R, <<y, z>> \in R
          PROVE  <<x, z>> \in R
        <3>1. x \in Int /\ y \in Int /\ z \in Int /\ seq[x][f] \in Int /\ seq[y][f] \in Int /\ seq[z][f] \in Int
            OBVIOUS
        <3>. QED BY <3>1, <2>3, <1>1
    <2>. QED BY <2>1, <2>2, <2>3
<1>3. /\ n \in Nat
      /\ DOMAIN at = 1 .. n
      /\ \A k \in 1 .. n : at[k] \in kept
      /\ \A x \in kept : \E k \in 1 .. n : at[k] = x
      /\ \A j, k \in 1 .. n : j < k => <<at[j], at[k]>> \in R
    BY <1>2, InOrderSorts
<1>4. /\ DOMAIN ByTime(seq, kept, f) = 1 .. n
      /\ \A k \in 1 .. n : ByTime(seq, kept, f)[k] = seq[at[k]]
    BY <1>3 DEF ByTime, R
<1>5. at \in [1 .. n -> kept]
    BY <1>3 DEF InOrder
<1>6. \A j, k \in 1 .. n :
          j < k => (seq[at[j]][f] < seq[at[k]][f] \/ (seq[at[j]][f] = seq[at[k]][f] /\ at[j] < at[k]))
    BY <1>1, <1>3
<1>. HIDE DEF at
<1>. QED BY <1>3, <1>4, <1>5, <1>6
-----------------------------------------------------------------------------
(* Sums over finite sets (SumFunctionOnSet of the community modules).          *)

One(s)        == CHOOSE x \in s : TRUE
Summed(f, g, s) == IF s = {} THEN 0 ELSE f[One(s)] + g[s \ {One(s)}]
Sums(f, S)    == CHOOSE g : g = [s \in SUBSET S |-> Summed(f, g, s)]

(* What the community modules define a sum by. *)
LEMMA SumIsThat ==
    ASSUME NEW f, NEW S
    PROVE  SumFunctionOnSet(f, S) = Sums(f, S)[S]
BY DEF SumFunctionOnSet, FoldFunctionOnSet, MapThenFoldSet, Sums, Summed, One

(* The recursion has a solution: by induction on the size of the sets. *)
LEMMA SumsExist ==
    ASSUME NEW f, NEW S, IsFiniteSet(S)
    PROVE  /\ DOMAIN Sums(f, S) = SUBSET S
           /\ \A s \in SUBSET S : Sums(f, S)[s] = Summed(f, Sums(f, S), s)
<1>. DEFINE Some(g, n) == \A s \in SUBSET S : Cardinality(s) <= n => g[s] = Summed(f, g, s)
            Bad == {n \in Nat : ~\E g : DOMAIN g = SUBSET S /\ Some(g, n)}
<1>1. \A s \in SUBSET S : IsFiniteSet(s) /\ Cardinality(s) \in Nat /\ (s = {} <=> Cardinality(s) = 0)
    BY FS_Subset, FS_CardinalityType, FS_EmptySet
<1>2. \A s \in SUBSET S : s # {} => /\ One(s) \in s /\ s \ {One(s)} \in SUBSET S
                                    /\ Cardinality(s \ {One(s)}) = Cardinality(s) - 1
    <2>. TAKE s \in SUBSET S
    <2>. HAVE s # {}
    <2>1. One(s) \in s
        BY DEF One
    <2>2. Cardinality(s \ {One(s)}) = Cardinality(s) - 1
        BY <1>1, <2>1, FS_RemoveElement
    <2>. QED BY <2>1, <2>2
<1>3. Bad = {}
    <2>. SUFFICES ASSUME Bad # {} PROVE FALSE
        OBVIOUS
    <2>1. PICK n \in Bad : \A k \in Bad : n <= k
        BY LeastNatural
    <2>2. CASE n = 0
        <3>. DEFINE g == [s \in SUBSET S |-> 0]
        <3>1. DOMAIN g = SUBSET S /\ Some(g, 0)
            BY <1>1 DEF Summed
        <3>. QED BY <2>1, <2>2, <3>1
    <2>3. CASE n # 0
        <3>1. n - 1 \in Nat /\ n - 1 \notin Bad
            <4>1. n \in Nat /\ n - 1 \in Nat /\ ~(n <= n - 1)
                BY <2>3
            <4>. HIDE DEF Bad
            <4>. QED BY <2>1, <4>1
        <3>2. PICK g : DOMAIN g = SUBSET S /\ Some(g, n - 1)
            BY <3>1
        <3>. DEFINE h == [s \in SUBSET S |-> Summed(f, g, s)]
        <3>3. \A s \in SUBSET S : Cardinality(s) <= n - 1 => h[s] = g[s]
            BY <3>2
        <3>4. ASSUME NEW s \in SUBSET S, Cardinality(s) <= n PROVE h[s] = Summed(f, h, s)
            <4>1. CASE s = {}
                BY <4>1 DEF Summed
            <4>2. CASE s # {}
                <5>1. s \ {One(s)} \in SUBSET S /\ Cardinality(s \ {One(s)}) <= n - 1
                    BY <1>1, <1>2, <3>4, <4>2
                <5>2. h[s \ {One(s)}] = g[s \ {One(s)}]
                    BY <3>3, <5>1
                <5>3. h[s] = f[One(s)] + g[s \ {One(s)}]
                    BY <4>2 DEF Summed
                <5>. HIDE DEF h
                <5>. QED BY <4>2, <5>2, <5>3 DEF Summed
            <4>. QED BY <4>1, <4>2
        <3>5. DOMAIN h = SUBSET S /\ Some(h, n)
            BY <3>4
        <3>. QED BY <2>1, <3>5
    <2>. QED BY <2>2, <2>3
<1>4. PICK g : DOMAIN g = SUBSET S /\ Some(g, Cardinality(S))
    BY <1>1, <1>3
<1>5. \A s \in SUBSET S : Cardinality(s) <= Cardinality(S)
    BY FS_Subset
<1>. DEFINE h == [s \in SUBSET S |-> g[s]]
<1>6. h = [s \in SUBSET S |-> Summed(f, h, s)]
    <2>1. \A s \in SUBSET S : Summed(f, h, s) = Summed(f, g, s)
        BY <1>2 DEF Summed
    <2>. QED BY <1>4, <1>5, <2>1
<1>. HIDE DEF h
<1>7. Sums(f, S) = [s \in SUBSET S |-> Summed(f, Sums(f, S), s)]
    BY <1>6 DEF Sums
<1>. QED BY <1>7

(* The sum over part of what is summed is the same, whatever it is part of.   *)
LEMMA SumsAgree ==
    ASSUME NEW f, NEW S, IsFiniteSet(S), NEW T \in SUBSET S
    PROVE  Sums(f, S)[T] = SumFunctionOnSet(f, T)
<1>. DEFINE Bad == {n \in Nat : \E U \in SUBSET T : Cardinality(U) = n /\ Sums(f, S)[U] # Sums(f, T)[U]}
<1>1. IsFiniteSet(T)
    BY FS_Subset
<1>2. /\ \A s \in SUBSET S : Sums(f, S)[s] = Summed(f, Sums(f, S), s)
      /\ \A s \in SUBSET T : Sums(f, T)[s] = Summed(f, Sums(f, T), s)
    BY <1>1, SumsExist
<1>3. Bad = {}
    <2>. SUFFICES ASSUME Bad # {} PROVE FALSE
        OBVIOUS
    <2>1. PICK n \in Bad : \A k \in Bad : n <= k
        BY LeastNatural
    <2>2. PICK U \in SUBSET T : Cardinality(U) = n /\ Sums(f, S)[U] # Sums(f, T)[U]
        BY <2>1
    <2>3. Sums(f, S)[U] = Summed(f, Sums(f, S), U) /\ Sums(f, T)[U] = Summed(f, Sums(f, T), U)
        BY <1>2
    <2>4. U # {}
        BY <2>2, <2>3 DEF Summed
    <2>. DEFINE V == U \ {One(U)}
    <2>5. One(U) \in U /\ IsFiniteSet(U)
        BY <1>1, <2>4, FS_Subset DEF One
    <2>6. Cardinality(V) = n - 1 /\ Cardinality(V) \in Nat /\ V \in SUBSET T
        BY <2>2, <2>5, FS_RemoveElement, FS_CardinalityType
    <2>7. Sums(f, S)[V] = Sums(f, T)[V]
        <3>1. n \in Nat /\ n - 1 \in Nat /\ ~(n <= n - 1)
            BY <2>6
        <3>2. n - 1 \notin Bad
            <4>. HIDE DEF Bad
            <4>. QED BY <2>1, <3>1
        <3>. HIDE DEF V
        <3>. QED BY <2>6, <3>1, <3>2
    <2>. QED BY <2>2, <2>3, <2>4, <2>7 DEF Summed
<1>4. Sums(f, S)[T] = Sums(f, T)[T]
    <2>1. Cardinality(T) \in Nat
        BY <1>1, FS_CardinalityType
    <2>. QED BY <1>3, <2>1
<1>. QED BY <1>4, SumIsThat

(* A sum of nothing is none, and of more than that one of them and the rest.  *)
LEMMA SumEquation ==
    ASSUME NEW f, NEW S, IsFiniteSet(S)
    PROVE  /\ S = {} => SumFunctionOnSet(f, S) = 0
           /\ S # {} => SumFunctionOnSet(f, S) = f[One(S)] + SumFunctionOnSet(f, S \ {One(S)})
<1>1. Sums(f, S)[S] = Summed(f, Sums(f, S), S)
    BY SumsExist
<1>2. Sums(f, S)[S \ {One(S)}] = SumFunctionOnSet(f, S \ {One(S)})
    BY SumsAgree
<1>. QED BY <1>1, <1>2, SumIsThat DEF Summed

(* A sum of whole numbers is one. *)
LEMMA SumType ==
    ASSUME NEW f, NEW S, IsFiniteSet(S), \A x \in S : f[x] \in Int
    PROVE  SumFunctionOnSet(f, S) \in Int
<1>. DEFINE Bad == {n \in Nat : \E U \in SUBSET S : Cardinality(U) = n /\ SumFunctionOnSet(f, U) \notin Int}
<1>1. Bad = {}
    <2>. SUFFICES ASSUME Bad # {} PROVE FALSE
        OBVIOUS
    <2>1. PICK n \in Bad : \A k \in Bad : n <= k
        BY LeastNatural
    <2>2. PICK U \in SUBSET S : Cardinality(U) = n /\ SumFunctionOnSet(f, U) \notin Int
        BY <2>1
    <2>3. IsFiniteSet(U)
        BY FS_Subset
    <2>4. U # {} /\ SumFunctionOnSet(f, U) = f[One(U)] + SumFunctionOnSet(f, U \ {One(U)})
        BY <2>2, <2>3, SumEquation
    <2>5. One(U) \in U
        BY <2>4 DEF One
    <2>. DEFINE V == U \ {One(U)}
    <2>6. Cardinality(V) = n - 1 /\ Cardinality(V) \in Nat /\ V \in SUBSET S
        BY <2>2, <2>3, <2>5, FS_RemoveElement, FS_CardinalityType, FS_Subset
    <2>7. SumFunctionOnSet(f, V) \in Int
        <3>1. n \in Nat /\ n - 1 \in Nat /\ ~(n <= n - 1)
            BY <2>6
        <3>2. n - 1 \notin Bad
            <4>. HIDE DEF Bad
            <4>. QED BY <2>1, <3>1
        <3>. HIDE DEF V
        <3>. QED BY <2>6, <3>1, <3>2
    <2>. QED BY <2>2, <2>4, <2>5, <2>7
<1>. QED BY <1>1, FS_CardinalityType

(* Whichever is taken first.                                                  *)
LEMMA SumWithout ==
    ASSUME NEW f, NEW S, IsFiniteSet(S), \A x \in S : f[x] \in Int, NEW a \in S
    PROVE  SumFunctionOnSet(f, S) = f[a] + SumFunctionOnSet(f, S \ {a})
<1>. DEFINE Sum(U) == SumFunctionOnSet(f, U)
            Bad == {n \in Nat : \E U \in SUBSET S : /\ Cardinality(U) = n
                                   /\ \E x \in U : Sum(U) # f[x] + Sum(U \ {x})}
<1>1. Bad = {}
    <2>. SUFFICES ASSUME Bad # {} PROVE FALSE
        OBVIOUS
    <2>1. PICK n \in Bad : \A k \in Bad : n <= k
        BY LeastNatural
    <2>2. PICK U \in SUBSET S : Cardinality(U) = n /\ \E x \in U : Sum(U) # f[x] + Sum(U \ {x})
        BY <2>1
    <2>3. PICK x \in U : Sum(U) # f[x] + Sum(U \ {x})
        BY <2>2
    <2>4. IsFiniteSet(U)
        BY FS_Subset
    <2>. DEFINE y == One(U)
    <2>5. y \in U /\ Sum(U) = f[y] + Sum(U \ {y})
        BY <2>3, <2>4, SumEquation DEF One
    <2>6. x # y
        BY <2>3, <2>5
    <2>. HIDE DEF y
    <2>7. /\ Cardinality(U \ {x}) = n - 1 /\ Cardinality(U \ {y}) = n - 1 /\ n - 1 \in Nat
          /\ U \ {x} \in SUBSET S /\ U \ {y} \in SUBSET S
        <3>1. x \in U /\ y \in U /\ Cardinality(U) = n
            BY <2>2, <2>3, <2>5
        <3>2. Cardinality(U \ {x}) = n - 1 /\ Cardinality(U \ {y}) = n - 1
            BY <2>4, <3>1, FS_RemoveElement
        <3>3. IsFiniteSet(U \ {x})
            BY <2>4, FS_RemoveElement, <3>1
        <3>4. n - 1 \in Nat
            BY <3>2, <3>3, FS_CardinalityType
        <3>. QED BY <2>2, <3>2, <3>4
    <2>8. n - 1 \notin Bad
        <3>1. n \in Nat /\ n - 1 \in Nat /\ ~(n <= n - 1)
            BY <2>7
        <3>. HIDE DEF Bad
        <3>. QED BY <2>1, <3>1
    <2>9. Sum(U \ {x}) = f[y] + Sum((U \ {x}) \ {y})
        <3>1. y \in U \ {x}
            BY <2>5, <2>6
        <3>. HIDE DEF Sum
        <3>. QED BY <2>7, <2>8, <3>1
    <2>10. Sum(U \ {y}) = f[x] + Sum((U \ {y}) \ {x})
        <3>1. x \in U \ {y}
            BY <2>3, <2>6
        <3>. HIDE DEF Sum
        <3>. QED BY <2>7, <2>8, <3>1
    <2>11. (U \ {x}) \ {y} = (U \ {y}) \ {x}
        OBVIOUS
    <2>12. f[x] \in Int /\ f[y] \in Int /\ Sum((U \ {x}) \ {y}) \in Int
        <3>1. (U \ {x}) \ {y} \in SUBSET S /\ IsFiniteSet((U \ {x}) \ {y})
            BY FS_Subset
        <3>2. Sum((U \ {x}) \ {y}) \in Int
            BY <3>1, SumType
        <3>. QED BY <2>5, <3>2
    <2>. DEFINE R == Sum((U \ {x}) \ {y})
    <2>. HIDE DEF Sum, R
    <2>13. f[y] + (f[x] + R) = f[x] + (f[y] + R)
        BY <2>12 DEF R
    <2>14. Sum(U) = f[y] + (f[x] + R) /\ Sum(U \ {x}) = f[y] + R
        BY <2>5, <2>9, <2>10, <2>11 DEF R
    <2>. QED BY <2>3, <2>13, <2>14
<1>2. Cardinality(S) \in Nat
    BY FS_CardinalityType
<1>3. Sum(S) = f[a] + Sum(S \ {a})
    <2>. HIDE DEF Sum
    <2>. QED BY <1>1, <1>2
<1>. QED BY <1>3

(* What holds of nothing, and of one more whenever it holds, holds of a finite set. *)
LEMMA FiniteInduction ==
    ASSUME NEW S, IsFiniteSet(S), NEW Good \in SUBSET (SUBSET S), {} \in Good,
           \A U \in Good : \A x \in S \ U : U \cup {x} \in Good
    PROVE  S \in Good
<1>. DEFINE Bad == {n \in Nat : \E U \in SUBSET S : Cardinality(U) = n /\ U \notin Good}
<1>1. Bad = {}
    <2>. SUFFICES ASSUME Bad # {} PROVE FALSE
        OBVIOUS
    <2>1. PICK n \in Bad : \A k \in Bad : n <= k
        BY LeastNatural
    <2>2. PICK U \in SUBSET S : Cardinality(U) = n /\ U \notin Good
        BY <2>1
    <2>3. PICK x \in U : TRUE
        BY <2>2
    <2>4. IsFiniteSet(U)
        BY FS_Subset
    <2>5. Cardinality(U \ {x}) = n - 1 /\ n - 1 \in Nat /\ U \ {x} \in SUBSET S
        BY <2>2, <2>3, <2>4, FS_RemoveElement, FS_CardinalityType, FS_Subset
    <2>6. n - 1 \notin Bad
        <3>1. n \in Nat /\ n - 1 \in Nat /\ ~(n <= n - 1)
            BY <2>5
        <3>. HIDE DEF Bad
        <3>. QED BY <2>1, <3>1
    <2>7. U \ {x} \in Good
        BY <2>5, <2>6
    <2>8. (U \ {x}) \cup {x} = U /\ x \in S \ (U \ {x})
        BY <2>3
    <2>. QED BY <2>2, <2>7, <2>8
<1>. QED BY <1>1, FS_CardinalityType

(* The sum of nothing. *)
LEMMA SumNone ==
    ASSUME NEW f
    PROVE  SumFunctionOnSet(f, {}) = 0
BY SumEquation, FS_EmptySet

(* One more term. *)
LEMMA SumAdd ==
    ASSUME NEW S, IsFiniteSet(S), NEW a, a \notin S, NEW f, \A x \in S \cup {a} : f[x] \in Int
    PROVE  SumFunctionOnSet(f, S \cup {a}) = f[a] + SumFunctionOnSet(f, S)
<1>1. IsFiniteSet(S \cup {a}) /\ a \in S \cup {a} /\ (S \cup {a}) \ {a} = S
    BY FS_AddElement
<1>. QED BY <1>1, SumWithout

(* One term. *)
LEMMA SumOne ==
    ASSUME NEW f, NEW a, f[a] \in Int
    PROVE  SumFunctionOnSet(f, {a}) = f[a]
<1>1. {} \cup {a} = {a} /\ IsFiniteSet({})
    BY FS_EmptySet
<1>2. SumFunctionOnSet(f, {} \cup {a}) = f[a] + SumFunctionOnSet(f, {})
    BY <1>1, SumAdd
<1>. QED BY <1>1, <1>2, SumNone

(* Term by term. *)
LEMMA SumSame ==
    ASSUME NEW S, IsFiniteSet(S), NEW f, NEW g, \A x \in S : f[x] \in Int /\ f[x] = g[x]
    PROVE  SumFunctionOnSet(f, S) = SumFunctionOnSet(g, S)
<1>. DEFINE Good == {U \in SUBSET S : SumFunctionOnSet(f, U) = SumFunctionOnSet(g, U)}
<1>1. {} \in Good
    BY SumNone
<1>2. ASSUME NEW U \in Good, NEW x \in S \ U PROVE U \cup {x} \in Good
    <2>1. IsFiniteSet(U)
        BY FS_Subset
    <2>2. SumFunctionOnSet(f, U \cup {x}) = f[x] + SumFunctionOnSet(f, U)
        BY <2>1, SumAdd
    <2>3. SumFunctionOnSet(g, U \cup {x}) = g[x] + SumFunctionOnSet(g, U)
        BY <2>1, SumAdd
    <2>. QED BY <2>2, <2>3
<1>. HIDE DEF Good
<1>3. S \in Good
    BY <1>1, <1>2, FiniteInduction DEF Good
<1>. QED BY <1>3 DEF Good

(* A sum of what is larger is larger. *)
LEMMA SumUp ==
    ASSUME NEW S, IsFiniteSet(S), NEW f, NEW g,
           \A x \in S : f[x] \in Int /\ g[x] \in Int /\ f[x] <= g[x]
    PROVE  SumFunctionOnSet(f, S) <= SumFunctionOnSet(g, S)
<1>. DEFINE Good == {U \in SUBSET S : SumFunctionOnSet(f, U) <= SumFunctionOnSet(g, U)}
<1>1. {} \in Good
    BY SumNone
<1>2. ASSUME NEW U \in Good, NEW x \in S \ U PROVE U \cup {x} \in Good
    <2>1. IsFiniteSet(U)
        BY FS_Subset
    <2>2. SumFunctionOnSet(f, U \cup {x}) = f[x] + SumFunctionOnSet(f, U)
        BY <2>1, SumAdd
    <2>3. SumFunctionOnSet(g, U \cup {x}) = g[x] + SumFunctionOnSet(g, U)
        BY <2>1, SumAdd
    <2>4. SumFunctionOnSet(f, U) \in Int /\ SumFunctionOnSet(g, U) \in Int
        BY <2>1, SumType
    <2>5. SumFunctionOnSet(f, U) <= SumFunctionOnSet(g, U)
        OBVIOUS
    <2>6. f[x] + SumFunctionOnSet(f, U) <= g[x] + SumFunctionOnSet(g, U)
        BY <2>4, <2>5
    <2>. QED BY <2>2, <2>3, <2>6
<1>. HIDE DEF Good
<1>3. S \in Good
    BY <1>1, <1>2, FiniteInduction DEF Good
<1>. QED BY <1>3 DEF Good

(* A sum of what is not negative is neither, and no term is above it. *)
LEMMA SumNatural ==
    ASSUME NEW S, IsFiniteSet(S), NEW f, \A x \in S : f[x] \in Nat
    PROVE  /\ SumFunctionOnSet(f, S) \in Nat
           /\ \A x \in S : f[x] <= SumFunctionOnSet(f, S)
<1>. DEFINE none == [x \in S |-> 0]
<1>1. \A U \in SUBSET S : SumFunctionOnSet(f, U) \in Nat
    <2>. TAKE U \in SUBSET S
    <2>. DEFINE Good == {V \in SUBSET U : SumFunctionOnSet(f, V) \in Nat}
    <2>1. {} \in Good
        BY SumNone
    <2>2. ASSUME NEW V \in Good, NEW x \in U \ V PROVE V \cup {x} \in Good
        <3>1. IsFiniteSet(V)
            BY FS_Subset
        <3>2. \A y \in V \cup {x} : f[y] \in Int
            OBVIOUS
        <3>3. SumFunctionOnSet(f, V \cup {x}) = f[x] + SumFunctionOnSet(f, V)
            BY <3>1, <3>2, SumAdd
        <3>. QED BY <3>3
    <2>3. IsFiniteSet(U)
        BY FS_Subset
    <2>. HIDE DEF Good
    <2>4. U \in Good
        BY <2>1, <2>2, <2>3, FiniteInduction DEF Good
    <2>. QED BY <2>4 DEF Good
<1>2. ASSUME NEW x \in S PROVE f[x] <= SumFunctionOnSet(f, S)
    <2>1. SumFunctionOnSet(f, S) = f[x] + SumFunctionOnSet(f, S \ {x})
        BY SumWithout
    <2>2. SumFunctionOnSet(f, S \ {x}) \in Nat
        BY <1>1
    <2>. QED BY <2>1, <2>2
<1>. QED BY <1>1, <1>2

(* A sum of sums. *)
LEMMA SumBoth ==
    ASSUME NEW S, IsFiniteSet(S), NEW f, NEW g, NEW h,
           \A x \in S : f[x] \in Int /\ g[x] \in Int /\ h[x] = f[x] + g[x]
    PROVE  SumFunctionOnSet(h, S) = SumFunctionOnSet(f, S) + SumFunctionOnSet(g, S)
<1>. DEFINE Good == {U \in SUBSET S : SumFunctionOnSet(h, U) = SumFunctionOnSet(f, U) + SumFunctionOnSet(g, U)}
<1>1. {} \in Good
    BY SumNone
<1>2. ASSUME NEW U \in Good, NEW x \in S \ U PROVE U \cup {x} \in Good
    <2>1. IsFiniteSet(U)
        BY FS_Subset
    <2>2. SumFunctionOnSet(f, U \cup {x}) = f[x] + SumFunctionOnSet(f, U)
        BY <2>1, SumAdd
    <2>3. SumFunctionOnSet(g, U \cup {x}) = g[x] + SumFunctionOnSet(g, U)
        BY <2>1, SumAdd
    <2>4. SumFunctionOnSet(h, U \cup {x}) = h[x] + SumFunctionOnSet(h, U)
        <3>1. \A y \in U \cup {x} : h[y] \in Int
            OBVIOUS
        <3>. QED BY <2>1, <3>1, SumAdd
    <2>5. SumFunctionOnSet(f, U) \in Int /\ SumFunctionOnSet(g, U) \in Int
        BY <2>1, SumType
    <2>6. SumFunctionOnSet(h, U) = SumFunctionOnSet(f, U) + SumFunctionOnSet(g, U)
        OBVIOUS
    <2>7. h[x] = f[x] + g[x] /\ f[x] \in Int /\ g[x] \in Int
        OBVIOUS
    <2>8. h[x] + SumFunctionOnSet(h, U) =
              (f[x] + SumFunctionOnSet(f, U)) + (g[x] + SumFunctionOnSet(g, U))
        BY <2>5, <2>6, <2>7
    <2>. QED BY <2>2, <2>3, <2>4, <2>8
<1>. HIDE DEF Good
<1>3. S \in Good
    BY <1>1, <1>2, FiniteInduction DEF Good
<1>. QED BY <1>3 DEF Good

(* A sum over two sets that have nothing in common. *)
LEMMA SumUnion ==
    ASSUME NEW S, IsFiniteSet(S), NEW T, IsFiniteSet(T), S \cap T = {}, NEW f,
           \A x \in S \cup T : f[x] \in Int
    PROVE  SumFunctionOnSet(f, S \cup T) = SumFunctionOnSet(f, S) + SumFunctionOnSet(f, T)
<1>. DEFINE Good == {U \in SUBSET T : SumFunctionOnSet(f, S \cup U) = SumFunctionOnSet(f, S) + SumFunctionOnSet(f, U)}
<1>1. {} \in Good
    <2>1. SumFunctionOnSet(f, S) \in Int
        BY SumType
    <2>2. S \cup {} = S
        OBVIOUS
    <2>. QED BY <2>1, <2>2, SumNone
<1>2. ASSUME NEW U \in Good, NEW x \in T \ U PROVE U \cup {x} \in Good
    <2>1. IsFiniteSet(U) /\ IsFiniteSet(S \cup U)
        BY FS_Subset, FS_Union
    <2>2. SumFunctionOnSet(f, U \cup {x}) = f[x] + SumFunctionOnSet(f, U)
        BY <2>1, SumAdd
    <2>3. SumFunctionOnSet(f, (S \cup U) \cup {x}) = f[x] + SumFunctionOnSet(f, S \cup U)
        BY <2>1, SumAdd
    <2>4. (S \cup U) \cup {x} = S \cup (U \cup {x})
        OBVIOUS
    <2>5. SumFunctionOnSet(f, S) \in Int /\ SumFunctionOnSet(f, U) \in Int /\ f[x] \in Int
        BY <2>1, SumType
    <2>6. SumFunctionOnSet(f, S \cup U) = SumFunctionOnSet(f, S) + SumFunctionOnSet(f, U)
        OBVIOUS
    <2>7. f[x] + SumFunctionOnSet(f, S \cup U) = SumFunctionOnSet(f, S) + (f[x] + SumFunctionOnSet(f, U))
        BY <2>5, <2>6
    <2>. QED BY <2>2, <2>3, <2>4, <2>7
<1>. HIDE DEF Good
<1>3. T \in Good
    BY <1>1, <1>2, FiniteInduction DEF Good
<1>. QED BY <1>3 DEF Good

(* A sum, gathered by a key and summed again. *)
LEMMA SumGathered ==
    ASSUME NEW S, IsFiniteSet(S), NEW f, \A x \in S : f[x] \in Int,
           NEW K, IsFiniteSet(K), NEW key, \A x \in S : key[x] \in K,
           NEW at, \A k \in K : at[k] \in SUBSET S /\ \A x \in S : x \in at[k] <=> key[x] = k,
           NEW g, \A k \in K : g[k] = SumFunctionOnSet(f, at[k])
    PROVE  SumFunctionOnSet(g, K) = SumFunctionOnSet(f, S)
<1>. DEFINE Gathered(U) == {x \in S : key[x] \in U}
            Good == {U \in SUBSET K : SumFunctionOnSet(g, U) = SumFunctionOnSet(f, Gathered(U))}
<1>1. {} \in Good
    <2>1. Gathered({}) = {}
        OBVIOUS
    <2>. HIDE DEF Gathered
    <2>. QED BY <2>1, SumNone
<1>2. \A k \in K : IsFiniteSet(at[k]) /\ SumFunctionOnSet(f, at[k]) \in Int
    <2>. TAKE k \in K
    <2>2. IsFiniteSet(at[k]) /\ \A x \in at[k] : f[x] \in Int
        BY FS_Subset
    <2>. QED BY <2>2, SumType
<1>3. ASSUME NEW U \in Good, NEW k \in K \ U PROVE U \cup {k} \in Good
    <2>1. IsFiniteSet(U) /\ k \notin U
        BY FS_Subset
    <2>2. \A j \in U \cup {k} : g[j] \in Int
        BY <1>2
    <2>3. SumFunctionOnSet(g, U \cup {k}) = g[k] + SumFunctionOnSet(g, U)
        <3>. HIDE DEF Good, Gathered
        <3>. QED BY <2>1, <2>2, SumAdd
    <2>4. Gathered(U \cup {k}) = Gathered(U) \cup at[k] /\ Gathered(U) \cap at[k] = {}
          /\ Gathered(U) \in SUBSET S
        OBVIOUS
    <2>5. g[k] = SumFunctionOnSet(f, at[k]) /\ SumFunctionOnSet(g, U) = SumFunctionOnSet(f, Gathered(U))
        OBVIOUS
    <2>. HIDE DEF Gathered
    <2>6. IsFiniteSet(Gathered(U)) /\ \A x \in Gathered(U) : f[x] \in Int
        BY <2>4, FS_Subset
    <2>7. SumFunctionOnSet(f, Gathered(U)) \in Int
        BY <2>6, SumType
    <2>8. SumFunctionOnSet(f, Gathered(U) \cup at[k]) =
              SumFunctionOnSet(f, Gathered(U)) + SumFunctionOnSet(f, at[k])
        <3>1. \A x \in Gathered(U) \cup at[k] : f[x] \in Int
            BY DEF Gathered
        <3>. QED BY <1>2, <2>4, <2>6, <3>1, SumUnion
    <2>9. SumFunctionOnSet(f, Gathered(U)) + SumFunctionOnSet(f, at[k]) =
              SumFunctionOnSet(f, at[k]) + SumFunctionOnSet(f, Gathered(U))
        BY <1>2, <2>7
    <2>10. SumFunctionOnSet(g, U \cup {k}) = SumFunctionOnSet(f, Gathered(U \cup {k}))
        BY <2>3, <2>4, <2>5, <2>8, <2>9
    <2>. QED BY <2>10 DEF Good
<1>. HIDE DEF Good
<1>4. K \in Good
    BY <1>1, <1>3, FiniteInduction DEF Good
<1>5. Gathered(K) = S
    OBVIOUS
<1>. QED BY <1>4, <1>5 DEF Good
-----------------------------------------------------------------------------
(* The clock: what its operators keep. *)

Clocks == [total : Nat \ {0}, d : Nat, rate : Nat \ {0}, fitted : BOOLEAN, playing : BOOLEAN]

ClockOK(c) == c \in Clocks /\ c.d <= c.total

(* The larger of two, as Math.max() has it.                                   *)
LEMMA MaxOfTwo ==
    ASSUME NEW a \in Int, NEW b \in Int
    PROVE  Max({a, b}) = IF a >= b THEN a ELSE b
BY DEF Max

(* The smaller of two, as Math.min() has it.                                  *)
LEMMA MinOfTwo ==
    ASSUME NEW a \in Int, NEW b \in Int
    PROVE  Min({a, b}) = IF a <= b THEN a ELSE b
BY DEF Min

(* What is cut off at both ends of the film is an instant of it.              *)
LEMMA InsideTheFilm ==
    ASSUME NEW c, ClockOK(c), NEW t \in Int
    PROVE  /\ Inside(c, t) \in 0 .. c.total
           /\ t \in 0 .. c.total => Inside(c, t) = t
<1>1. c.total \in Nat
    BY DEF ClockOK, Clocks
<1>2. Min({c.total, t}) \in Int /\ Min({c.total, t}) = IF c.total <= t THEN c.total ELSE t
    BY <1>1, MinOfTwo
<1>. DEFINE m == Min({c.total, t})
<1>. HIDE DEF m
<1>3. Max({0, m}) = IF 0 >= m THEN 0 ELSE m
    BY <1>2, MaxOfTwo DEF m
<1>. QED BY <1>1, <1>2, <1>3 DEF Inside, m

(* A clock that is made stands at the start of a film of at least a           *)
(* millisecond.                                                               *)
LEMMA NewClockOK ==
    ASSUME NEW length \in Int
    PROVE  /\ ClockOK(NewClock(length))
           /\ NewClock(length).total = IF 1 >= length THEN 1 ELSE length
           /\ NewClock(length).d = 0
BY MaxOfTwo DEF NewClock, ClockOK, Clocks

(* Seeking leaves it in its film.                                             *)
LEMMA SeekOK ==
    ASSUME NEW c, ClockOK(c), NEW t \in Int
    PROVE  ClockOK(Seek(c, t)) /\ Seek(c, t).total = c.total
BY InsideTheFilm DEF Seek, ClockOK, Clocks

(* Pausing leaves it where it is.                                             *)
LEMMA PauseOK ==
    ASSUME NEW c, ClockOK(c)
    PROVE  ClockOK(Pause(c)) /\ Pause(c).total = c.total /\ Pause(c).d = c.d
BY DEF Pause, ClockOK, Clocks

(* So does choosing a rate.                                                   *)
LEMMA RateOK ==
    ASSUME NEW c, ClockOK(c), NEW rate \in Rates
    PROVE  ClockOK(SetRate(c, rate)) /\ SetRate(c, rate).total = c.total
BY ClockAssumption DEF SetRate, ClockOK, Clocks

(* So does fitting the run into the usual length of a film.                   *)
LEMMA FitOK ==
    ASSUME NEW c, ClockOK(c)
    PROVE  ClockOK(FitIn(c)) /\ FitIn(c).total = c.total
BY DEF FitIn, ClockOK, Clocks

(* Playing on from the end begins anew.                                       *)
LEMMA ToggleOK ==
    ASSUME NEW c, ClockOK(c)
    PROVE  ClockOK(Toggle(c)) /\ Toggle(c).total = c.total
<1>1. Pause(c) \in Clocks /\ Pause(c).total = c.total /\ Pause(c).d = c.d
    BY DEF Pause, ClockOK, Clocks
<1>. DEFINE from  == IF c.d >= c.total THEN 0 ELSE c.d
            again == [c EXCEPT !.playing = TRUE, !.d = from]
<1>2. from \in Nat /\ from <= c.total
    BY DEF ClockOK, Clocks
<1>. HIDE DEF from
<1>3. ClockOK(again) /\ again.total = c.total
    BY <1>2 DEF ClockOK, Clocks
<1>4. Play(c) = c \/ Play(c) = again
    BY DEF Play, from
<1>5. ClockOK(Play(c)) /\ Play(c).total = c.total
    BY <1>3, <1>4
<1>. QED BY <1>1, <1>5 DEF Toggle, ClockOK

(* It is never driven at no speed.                                            *)
LEMMA SpeedOK ==
    ASSUME NEW c, ClockOK(c)
    PROVE  Speed(c) \in Nat \ {0}
<1>1. c.total \div FitTicks \in Int
    BY ClockAssumption DEF ClockOK, Clocks
<1>2. Max({1, c.total \div FitTicks}) \in Nat \ {0}
    BY <1>1, MaxOfTwo
<1>. QED BY <1>2 DEF Speed, ClockOK, Clocks

(* A step to the side stays in the film.                                      *)
LEMMA StepOK ==
    ASSUME NEW c, ClockOK(c), NEW direction \in Int
    PROVE  ClockOK(Step(c, direction)) /\ Step(c, direction).total = c.total
<1>1. c.d + direction * Speed(c) \in Int
    <2>1. Speed(c) \in Int
        BY SpeedOK
    <2>. QED BY <2>1 DEF ClockOK, Clocks
<1>2. Inside(c, c.d + direction * Speed(c)) \in 0 .. c.total
    BY <1>1, InsideTheFilm
<1>. QED BY <1>2, PauseOK DEF Step, ClockOK, Clocks

(* A tick moves a clock on, never back, and never past the end.               *)
LEMMA TickOK ==
    ASSUME NEW c, ClockOK(c), NEW ticks \in Nat
    PROVE  ClockOK(Tick(c, ticks)) /\ Tick(c, ticks).total = c.total /\ c.d <= Tick(c, ticks).d
<1>. DEFINE on == c.d + ticks * Speed(c)
<1>1. on \in Nat /\ c.d <= on
    <2>1. Speed(c) \in Nat /\ c.d \in Nat
        BY SpeedOK DEF ClockOK, Clocks
    <2>2. ticks * Speed(c) \in Nat
        BY <2>1
    <2>. HIDE DEF Speed
    <2>. QED BY <2>1, <2>2
<1>. HIDE DEF on
<1>2. CASE on >= c.total
    <2>. DEFINE over == [c EXCEPT !.d = c.total]
    <2>1. ClockOK(over) /\ over.d = c.total /\ over.total = c.total
        BY DEF ClockOK, Clocks
    <2>. HIDE DEF over
    <2>2. Tick(c, ticks) = Pause(over)
        BY <1>2 DEF Tick, on, over
    <2>. QED BY <2>1, <2>2, PauseOK DEF ClockOK, Clocks
<1>3. CASE ~(on >= c.total)
    <2>1. Tick(c, ticks) = [c EXCEPT !.d = on]
        BY <1>3 DEF Tick, on
    <2>. QED BY <2>1, <1>1, <1>3 DEF ClockOK, Clocks
<1>. QED BY <1>2, <1>3
-----------------------------------------------------------------------------
(* The traces: how long they are. *)

(* A list of no length is the empty one.                                      *)
LEMMA EmptyList ==
    ASSUME NEW s, IsList(s), Len(s) = 0
    PROVE  s = <<>>
BY DEF IsList

(* The positions of a list are counted from 1.                                *)
LEMMA ListDomain ==
    ASSUME NEW s, IsList(s)
    PROVE  Len(s) \in Nat /\ DOMAIN s = 1 .. Len(s) /\ IsFiniteSet(DOMAIN s)
<1>1. Len(s) \in Nat /\ DOMAIN s = 1 .. Len(s)
    BY DEF IsList
<1>2. IsFiniteSet(1 .. Len(s))
    BY <1>1, FS_Interval
<1>. QED BY <1>1, <1>2

(* A list has finitely many entries,                                          *)
LEMMA FiniteRange ==
    ASSUME NEW s, IsList(s)
    PROVE  IsFiniteSet(Range(s))
<1>1. IsFiniteSet(DOMAIN s)
    BY ListDomain
<1>2. s \in Surjection(DOMAIN s, Range(s))
    BY DEF IsList, Range, Surjection
<1>. QED BY <1>1, <1>2, FS_Surjection

(* and they have finitely many values of a field.                             *)
LEMMA FiniteField ==
    ASSUME NEW s, IsList(s), NEW f
    PROVE  IsFiniteSet({x[f] : x \in Range(s)})
<1>. DEFINE g == [i \in DOMAIN s |-> s[i][f]]
<1>1. IsFiniteSet(DOMAIN s)
    BY ListDomain
<1>2. g \in Surjection(DOMAIN s, {x[f] : x \in Range(s)})
    BY DEF Range, Surjection
<1>. QED BY <1>1, <1>2, FS_Surjection

(* A run lasts at least a millisecond, and nothing in it is later than its    *)
(* end.                                                                       *)
LEMMA DurationOK ==
    ASSUME NEW trace, WellFormed(trace)
    PROVE  /\ Duration(trace) \in Nat \ {0}
           /\ \A s \in SpanSet(trace) : s.t1 <= Duration(trace)
           /\ \A e \in Range(trace.events) : e.t <= Duration(trace)
<1>. DEFINE ends   == {s.t1 : s \in SpanSet(trace)}
            events == {e.t : e \in Range(trace.events)}
            last   == IF trace.times = <<>> THEN {} ELSE {Last(trace.times)}
            all    == {1, trace.job} \cup ends \cup events \cup last
<1>1. IsFiniteSet(ends) /\ ends \in SUBSET Int
    <2>1. IsFiniteSet(ends)
        BY FiniteField DEF WellFormed, SpanSet
    <2>2. \A s \in SpanSet(trace) : s.t1 \in Int
        BY DEF WellFormed, Open
    <2>. QED BY <2>1, <2>2
<1>2. IsFiniteSet(events) /\ events \in SUBSET Int
    <2>1. IsFiniteSet(events)
        <3>1. IsList(trace.events)
            BY DEF WellFormed
        <3>. QED BY <3>1, FiniteField
    <2>2. \A e \in Range(trace.events) : e.t \in Int
        BY DEF WellFormed
    <2>. QED BY <2>1, <2>2
<1>3. IsFiniteSet(last) /\ last \in SUBSET Int
    <2>1. CASE trace.times = <<>>
        BY <2>1, FS_EmptySet
    <2>2. CASE trace.times # <<>>
        <3>1. IsList(trace.times) /\ Len(trace.times) \in DOMAIN trace.times
            BY <2>2, EmptyList, ListDomain DEF WellFormed
        <3>2. Last(trace.times) \in Int
            BY <3>1 DEF WellFormed, Last
        <3>. QED BY <2>2, <3>2, FS_Singleton
    <2>. QED BY <2>1, <2>2
<1>4. IsFiniteSet({1, trace.job}) /\ {1, trace.job} \in SUBSET Int
    <2>1. {1, trace.job} = {1} \cup {trace.job}
        OBVIOUS
    <2>2. IsFiniteSet({1, trace.job})
        <3>. IsFiniteSet({1})
            BY FS_Singleton
        <3>. QED BY <2>1, FS_AddElement
    <2>. QED BY <2>2 DEF WellFormed
<1>5. Duration(trace) = Max(all)
    BY DEF Duration
<1>. HIDE DEF ends, events, last
<1>6. IsFiniteSet(all) /\ all \in SUBSET Int /\ 1 \in all
    BY <1>1, <1>2, <1>3, <1>4, FS_Union
<1>7. Max(all) \in all /\ \A y \in all : y <= Max(all)
    BY <1>6, FiniteMax
<1>8. Max(all) \in Nat \ {0}
    BY <1>6, <1>7
<1>. QED BY <1>5, <1>7, <1>8 DEF ends, events

(* No run is longer than the longest.                                         *)
LEMMA AsLongOK ==
    ASSUME NEW r \in Runs
    PROVE  /\ Duration(Opened[r]) \in Nat \ {0} /\ AsLong \in Nat \ {0}
           /\ Duration(Opened[r]) <= AsLong /\ AsLong < Forever
<1>. DEFINE lengths == {Duration(Opened[x]) : x \in Runs}
            length  == [x \in Runs |-> Duration(Opened[x])]
<1>1. \A x \in Runs : Duration(Opened[x]) \in Nat \ {0} /\ Duration(Opened[x]) < Forever
    BY TraceAssumption, DurationOK
<1>2. IsFiniteSet(lengths)
    <2>1. length \in Surjection(Runs, lengths)
        BY DEF Surjection
    <2>. QED BY <2>1, TraceAssumption, FS_Surjection
<1>3. lengths \in SUBSET Int /\ Duration(Opened[r]) \in lengths
    BY <1>1
<1>4. AsLong \in lengths /\ \A y \in lengths : y <= AsLong
    BY <1>2, <1>3, FiniteMax DEF AsLong
<1>. QED BY <1>1, <1>3, <1>4

-----------------------------------------------------------------------------
(* What is drawn of a node. *)

(* Of the samples that were taken by an instant, if any, there is a last.     *)
LEMMA SamplesBefore ==
    ASSUME NEW trace, WellFormed(trace), NEW t,
           NEW before, before = {i \in DOMAIN trace.times : trace.times[i] <= t}, before # {}
    PROVE  /\ Max(before) \in DOMAIN trace.times /\ Max(before) \in Nat \ {0}
           /\ Max(before) \in before /\ \A i \in before : i <= Max(before)
<1>1. IsList(trace.times)
    BY DEF WellFormed
<1>2. DOMAIN trace.times = 1 .. Len(trace.times) /\ IsFiniteSet(DOMAIN trace.times)
    BY <1>1, ListDomain
<1>3. IsFiniteSet(before) /\ before \in SUBSET Int
    BY <1>1, <1>2, ListDomain, FS_Subset
<1>4. Max(before) \in before /\ \A i \in before : i <= Max(before)
    BY <1>3, FiniteMax
<1>5. before \in SUBSET DOMAIN trace.times /\ Len(trace.times) \in Nat
    BY <1>1, ListDomain
<1>6. Max(before) \in DOMAIN trace.times
    BY <1>4, <1>5
<1>. QED BY <1>2, <1>4, <1>5, <1>6

(* A series that is too short goes on with its last value.                    *)
LEMMA SeriesValue ==
    ASSUME NEW v, IsList(v), v # <<>>, NEW T, \A i \in DOMAIN v : v[i] \in T, NEW k \in Nat \ {0}
    PROVE  v[Min({k, Len(v)})] \in T
<1>1. Len(v) \in Nat \ {0} /\ DOMAIN v = 1 .. Len(v)
    BY EmptyList, ListDomain
<1>2. Min({k, Len(v)}) \in DOMAIN v
    BY <1>1, MinOfTwo
<1>. QED BY <1>2

(* The numbers a series may have: only the gauges of the handlers may be      *)
(* below nought.                                                              *)
Numbers(metric) == IF metric \in SIGNED THEN Int ELSE Nat

LEMMA NumbersAre ==
    ASSUME NEW metric
    PROVE  Numbers(metric) \in SUBSET Int /\ (metric \notin SIGNED => Numbers(metric) = Nat)
BY DEF Numbers

LEMMA SeriesNumbers ==
    ASSUME NEW trace, WellFormed(trace), NEW c \in DOMAIN trace.channels, NEW metric, c[2] = metric,
           NEW v, v = trace.channels[c]
    PROVE  IsList(v) /\ \A i \in DOMAIN v : v[i] \in Numbers(metric)
<1>1. /\ IsList(v) /\ \A i \in DOMAIN v : v[i] \in Int
      /\ metric \notin SIGNED => \A i \in DOMAIN v : v[i] >= 0
    BY DEF WellFormed, Measured
<1>2. CASE metric \in SIGNED
    BY <1>1, <1>2 DEF Numbers
<1>3. CASE metric \notin SIGNED
    BY <1>1, <1>3 DEF Numbers
<1>. QED BY <1>2, <1>3

(* A gauge shows such a number at any instant,                                *)
LEMMA ChannelOK ==
    ASSUME NEW trace, WellFormed(trace), NEW vm, NEW metric, NEW t
    PROVE  Channel(trace, vm, metric, t) \in Numbers(metric)
<1>. DEFINE c      == <<vm, metric>>
            v      == trace.channels[c]
            before == {i \in DOMAIN trace.times : trace.times[i] <= t}
<1>0. 0 \in Numbers(metric) /\ c[2] = metric
    BY DEF Numbers
<1>1. CASE c \notin DOMAIN trace.channels \/ trace.times = <<>> \/ v = <<>>
    BY <1>0, <1>1 DEF Channel
<1>2. CASE c \in DOMAIN trace.channels /\ trace.times # <<>> /\ v # <<>>
    <2>. HIDE DEF c
    <2>1. IsList(v) /\ \A i \in DOMAIN v : v[i] \in Numbers(metric)
        BY <1>0, <1>2, SeriesNumbers
    <2>. HIDE DEF v, before
    <2>2. CASE before = {}
        <3>1. v[1] \in Numbers(metric)
            BY <2>1, <1>2, EmptyList, ListDomain
        <3>. QED BY <3>1, <2>2, <1>2 DEF Channel, c, v, before
    <2>3. CASE before # {}
        <3>1. Max(before) \in Nat \ {0}
            BY <2>3, SamplesBefore DEF before
        <3>2. v[Min({Max(before), Len(v)})] \in Numbers(metric)
            BY <3>1, <2>1, <1>2, SeriesValue
        <3>. QED BY <3>2, <2>3, <1>2 DEF Channel, c, v, before
    <2>. QED BY <2>2, <2>3
<1>. QED BY <1>1, <1>2

(* which is nothing or a number of its series;                                *)
LEMMA ChannelReads ==
    ASSUME NEW trace, WellFormed(trace), NEW vm, NEW metric, NEW t
    PROVE  \/ Channel(trace, vm, metric, t) = 0
           \/ /\ <<vm, metric>> \in DOMAIN trace.channels
              /\ \E k \in DOMAIN trace.channels[<<vm, metric>>] :
                     Channel(trace, vm, metric, t) = trace.channels[<<vm, metric>>][k]
<1>. DEFINE c      == <<vm, metric>>
            v      == trace.channels[c]
            before == {i \in DOMAIN trace.times : trace.times[i] <= t}
<1>1. CASE c \notin DOMAIN trace.channels \/ trace.times = <<>> \/ v = <<>>
    BY <1>1 DEF Channel
<1>2. CASE c \in DOMAIN trace.channels /\ trace.times # <<>> /\ v # <<>>
    <2>. HIDE DEF c
    <2>1. IsList(v)
        BY <1>2 DEF WellFormed, Measured
    <2>. HIDE DEF v, before
    <2>2. Len(v) \in Nat \ {0} /\ DOMAIN v = 1 .. Len(v)
        BY <1>2, <2>1, EmptyList, ListDomain
    <2>3. CASE before = {}
        BY <2>2, <2>3, <1>2 DEF Channel, c, v, before
    <2>4. CASE before # {}
        <3>1. Max(before) \in Nat \ {0}
            BY <2>4, SamplesBefore DEF before
        <3>2. Min({Max(before), Len(v)}) \in DOMAIN v
            BY <2>2, <3>1, MinOfTwo
        <3>3. Channel(trace, vm, metric, t) = v[Min({Max(before), Len(v)})]
            BY <2>4, <1>2 DEF Channel, c, v, before
        <3>. QED BY <1>2, <3>2, <3>3 DEF c, v
    <2>. QED BY <2>3, <2>4
<1>. QED BY <1>1, <1>2

(* and so has every series at any sample.                                     *)
LEMMA SeriesOK ==
    ASSUME NEW trace, WellFormed(trace), NEW vm, NEW metric, NEW i \in Nat \ {0}
    PROVE  Series(trace, vm, metric, i) \in Numbers(metric)
<1>. DEFINE c == <<vm, metric>>
            v == trace.channels[c]
<1>0. 0 \in Numbers(metric) /\ c[2] = metric
    BY DEF Numbers
<1>1. CASE c \notin DOMAIN trace.channels \/ v = <<>>
    BY <1>0, <1>1 DEF Series
<1>2. CASE c \in DOMAIN trace.channels /\ v # <<>>
    <2>. HIDE DEF c
    <2>1. IsList(v) /\ \A k \in DOMAIN v : v[k] \in Numbers(metric)
        BY <1>0, <1>2, SeriesNumbers
    <2>. HIDE DEF v
    <2>2. v[Min({i, Len(v)})] \in Numbers(metric)
        BY <2>1, <1>2, SeriesValue
    <2>. QED BY <2>2, <1>2 DEF Series, c, v
<1>. QED BY <1>1, <1>2

(* A disk has a size, of a run that names none too.                           *)
LEMMA DiskCapOK ==
    ASSUME NEW trace, WellFormed(trace), NEW vm
    PROVE  DiskCap(trace, vm) \in Nat
<1>. DEFINE pct(i) == Series(trace, vm, "diskPct", i)
            cap(i) == (Series(trace, vm, "diskMb", i) * 100 * Percent) \div pct(i)
            full   == {k \in DOMAIN trace.times : 2 * pct(k) > Percent}
            caps   == {cap(i) : i \in full}
<1>1. IsList(trace.times)
    BY DEF WellFormed
<1>2. DOMAIN trace.times = 1 .. Len(trace.times) /\ IsFiniteSet(DOMAIN trace.times) /\ Len(trace.times) \in Nat
    BY <1>1, ListDomain
<1>3. \A i \in full : cap(i) \in Int
    <2>. TAKE i \in full
    <2>1. i \in Nat \ {0}
        BY <1>2
    <2>2. pct(i) \in Nat /\ pct(i) > 0 /\ Series(trace, vm, "diskMb", i) \in Nat
        <3>1. Numbers("diskPct") = Nat /\ Numbers("diskMb") = Nat
            BY DEF Numbers, SIGNED
        <3>. QED BY <2>1, <3>1, SeriesOK DEF Percent
    <2>. QED BY <2>2 DEF Percent
<1>4. IsFiniteSet(full)
    BY <1>2, FS_Subset
<1>5. IsFiniteSet(caps)
    <2>. DEFINE g == [i \in full |-> cap(i)]
    <2>1. g \in Surjection(full, caps)
        BY DEF Surjection
    <2>. QED BY <2>1, <1>4, FS_Surjection
<1>6. DiskCap(trace, vm) = Max({0} \cup caps)
    BY DEF DiskCap
<1>7. caps \in SUBSET Int
    BY <1>3
<1>. HIDE DEF caps
<1>8. IsFiniteSet({0} \cup caps) /\ {0} \cup caps \in SUBSET Int /\ {0} \cup caps # {}
    <2>1. IsFiniteSet(caps \cup {0}) /\ caps \cup {0} = {0} \cup caps
        BY <1>5, FS_AddElement
    <2>. QED BY <2>1, <1>7
<1>9. Max({0} \cup caps) \in Int /\ 0 <= Max({0} \cup caps)
    BY <1>8, FiniteMax
<1>. QED BY <1>6, <1>9
-----------------------------------------------------------------------------
(* What the state of the viewer is made of, wherever the reader has been.     *)

FilmOK(c) == ClockOK(c) /\ c.total <= AsLong

UrlOK(u) ==
    /\ u = [t |-> u.t, m |-> u.m, show |-> u.show, sv |-> u.sv, fail |-> u.fail,
            method |-> u.method]
    /\ u.t \in -1 .. AsLong

UiOK(r, u) ==
    /\ u = [pinned |-> u.pinned, hovered |-> u.hovered, held |-> u.held, zone |-> u.zone,
            role |-> u.role, task |-> u.task, box |-> u.box]
    /\ u.pinned \in NodeNames(Opened[r]) \cup {Nobody}
    /\ u.box \in Boxes

SavingOK(s) ==
    /\ s = [state |-> s.state, frame |-> s.frame, shown |-> s.shown]
    /\ s.frame \in 0 .. Frames - 1

WindowOK(r, s) ==
    /\ s = [collapsed |-> s.collapsed, node |-> s.node, slower |-> s.slower, crit |-> s.crit,
            by |-> s.by, selected |-> s.selected, w0 |-> s.w0, w1 |-> s.w1]
    /\ s.w0 \in Nat /\ s.w1 \in Nat /\ s.w0 < s.w1 /\ s.w1 <= Duration(Opened[r])

(* A page that is left keeps nothing. *)
OffStage ==
    page = "overview" => film = NewClock(0) /\ ui = NewUi /\ recording = Idle /\ comparing = {}

StateInv ==
    /\ run \in Runs /\ page \in {"overview", "film"}
    /\ FilmOK(clock)
    /\ FilmOK(film)
    /\ UrlOK(url)
    /\ UiOK(run, ui)
    /\ SavingOK(recording)
    /\ WindowOK(run, spans)
    /\ against \in Runs \cup {Nobody} /\ comparing \subseteq Runs
    /\ DOMAIN faces = IF page = "film" THEN Nodes ELSE {}
    /\ OffStage

(* The film's clock is never longer than the longest run, whichever two are   *)
(* up, nor is the console's.                                                  *)
LEMMA LongestOK ==
    ASSUME NEW r \in Runs, NEW other \in Runs \cup {Nobody}
    PROVE  Longest(r, other) \in Nat \ {0} /\ Longest(r, other) <= AsLong
<1>1. CASE other = Nobody
    BY <1>1, AsLongOK DEF Longest
<1>2. CASE other # Nobody
    <2>1. other \in Runs
        BY <1>2
    <2>2. Duration(Opened[other]) \in Int /\ Duration(Opened[r]) \in Int
        BY <2>1, AsLongOK
    <2>3. Longest(r, other) \in {Duration(Opened[r]), Duration(Opened[other])}
        BY <2>2, <1>2, MaxOfTwo DEF Longest
    <2>. QED BY <2>1, <2>3, AsLongOK
<1>. QED BY <1>1, <1>2

(* A new clock that is no longer than the longest run is within bounds.       *)
LEMMA NewFilmOK ==
    ASSUME NEW r \in Runs, NEW length \in Int, length <= AsLong
    PROVE  FilmOK(NewClock(length))
BY NewClockOK, AsLongOK DEF FilmOK

(* So is the clock of the console, at whatever moment it is put up.           *)
LEMMA ClockOfOK ==
    ASSUME NEW r \in Runs, NEW at \in Int
    PROVE  FilmOK(ClockOf(r, at))
<1>1. FilmOK(NewClock(Duration(Opened[r])))
    BY AsLongOK, NewFilmOK
<1>. DEFINE c == NewClock(Duration(Opened[r]))
<1>. HIDE DEF c
<1>2. FilmOK(Seek(c, at))
    BY <1>1, SeekOK DEF FilmOK, c
<1>. QED BY <1>1, <1>2 DEF ClockOf, c

(* What the film writes into the address bar is a moment of it.               *)
LEMMA ParkedOK ==
    ASSUME NEW r \in Runs, NEW c, FilmOK(c), NEW u, UrlOK(u), NEW m
    PROVE  UrlOK(Parked(c, u, m))
<1>. DEFINE there == [u EXCEPT !.t = c.d]
            at    == [u EXCEPT !.t = c.d, !.m = m]
<1>1. c.d \in -1 .. AsLong
    BY AsLongOK DEF FilmOK, ClockOK, Clocks
<1>2. at = [t |-> c.d, m |-> m, show |-> u.show, sv |-> u.sv, fail |-> u.fail, method |-> u.method]
    <2>1. there = [t |-> c.d, m |-> u.m, show |-> u.show, sv |-> u.sv, fail |-> u.fail,
                   method |-> u.method]
        BY DEF UrlOK
    <2>2. at = [there EXCEPT !.m = m]
        OBVIOUS
    <2>. HIDE DEF there, at
    <2>. QED BY <2>1, <2>2
<1>3. UrlOK(at)
    BY <1>1, <1>2 DEF UrlOK
<1>. QED BY <1>3 DEF Parked

(* A film is mounted with what is in the address bar, as far as it fits.      *)
LEMMA MountOK ==
    ASSUME NEW r \in Runs, NEW other \in Runs \cup {Nobody}, UrlOK(url), Mount(r, other, url)
    PROVE  FilmOK(film') /\ UiOK(r, ui') /\ SavingOK(recording') /\ UrlOK(url')
<1>. DEFINE fresh == NewClock(Longest(r, other))
            at    == IF url.t = NoMoment THEN fresh ELSE Seek(fresh, Min({url.t, fresh.total}))
            m     == IF url.m \in NodeNames(Opened[r]) THEN url.m ELSE Nobody
            show  == IF url.show \in Keys(r) THEN url.show ELSE Nobody
            asked == [url EXCEPT !.show = show]
<1>1. /\ film' = at /\ ui' = [NewUi EXCEPT !.pinned = m] /\ recording' = Idle
      /\ url' = Parked(at, asked, m)
    BY DEF Mount
<1>2. m \in NodeNames(Opened[r]) \cup {Nobody}
    OBVIOUS
<1>. HIDE DEF m, show
<1>3. FilmOK(fresh)
    BY LongestOK, NewFilmOK
<1>. HIDE DEF fresh
<1>4. FilmOK(at)
    <2>1. url.t \in Int /\ fresh.total \in Int
        BY <1>3 DEF UrlOK, FilmOK, ClockOK, Clocks
    <2>2. Min({url.t, fresh.total}) \in Int
        BY <2>1, MinOfTwo
    <2>3. FilmOK(Seek(fresh, Min({url.t, fresh.total})))
        BY <1>3, <2>2, SeekOK DEF FilmOK
    <2>. QED BY <1>3, <2>3
<1>. HIDE DEF at
<1>5. UrlOK(asked)
    <2>1. asked = [t |-> url.t, m |-> url.m, show |-> show, sv |-> url.sv, fail |-> url.fail,
                   method |-> url.method]
        BY DEF UrlOK
    <2>. QED BY <2>1 DEF UrlOK
<1>6. UrlOK(Parked(at, asked, m))
    BY <1>4, <1>5, ParkedOK
<1>7. UiOK(r, ui')
    BY <1>1, <1>2, PlayerAssumption DEF UiOK, NewUi
<1>8. SavingOK(recording')
    BY <1>1, PlayerAssumption DEF SavingOK, Idle
<1>. QED BY <1>1, <1>4, <1>6, <1>7, <1>8

(* The Spans page begins with the whole length of the run.                    *)
LEMMA NewSpansOK ==
    ASSUME NEW r \in Runs
    PROVE  WindowOK(r, NewSpans(r))
BY AsLongOK DEF WindowOK, NewSpans

(* The instants ] and [ jump to are those of events, so the nearest of them   *)
(* in either direction is there whenever any is.                              *)
LEMMA StopsOK ==
    ASSUME NEW r \in Runs, r = run, NEW now \in Nat
    PROVE  /\ Stops \subseteq Nat
           /\ Beyond(now) # {} => Min(Beyond(now)) \in Nat
           /\ Behind(now) # {} => Max(Behind(now)) \in Nat
<1>. DEFINE events == Opened[r].events
            kept   == Where(events, LAMBDA e : e.kind \in NOTABLE)
            jumps  == ByTime(events, kept, "t")
<1>1. IsList(events) /\ \A e \in Range(events) : e.t \in Nat
    BY TraceAssumption DEF WellFormed
<1>2. DOMAIN events = 1 .. Len(events) /\ Len(events) \in Nat /\ IsFiniteSet(DOMAIN events)
    BY <1>1, ListDomain
<1>3. kept \in SUBSET DOMAIN events
    BY DEF Where
<1>4. Index[run].notable = jumps
    BY DEF Index, IndexOf
<1>. HIDE DEF kept, events
<1>5. \A i \in kept : i \in Int /\ events[i]["t"] \in Nat
    BY <1>1, <1>2, <1>3 DEF Range
<1>6. IsFiniteSet(kept)
    BY <1>2, <1>3, FS_Subset
<1>. DEFINE n == Cardinality(kept)
<1>7. n \in Nat /\ DOMAIN jumps = 1 .. n /\ \A k \in 1 .. n : jumps[k].t \in Nat
    <2>1. /\ n \in Nat /\ DOMAIN jumps = 1 .. n
          /\ \E at \in [1 .. n -> kept] : \A k \in 1 .. n : jumps[k] = events[at[k]]
        BY <1>3, <1>5, <1>6, ByTimeSorts
    <2>. HIDE DEF jumps
    <2>. QED BY <2>1, <1>5
<1>. HIDE DEF jumps, n
<1>8. Stops = {jumps[k].t : k \in 1 .. n}
    BY <1>4, <1>7 DEF Stops, Range
<1>9. Stops \subseteq Nat
    BY <1>7, <1>8
<1>10. ASSUME Beyond(now) # {} PROVE Min(Beyond(now)) \in Nat
    <2>1. Beyond(now) \in SUBSET Nat
        BY <1>9 DEF Beyond
    <2>2. \E x \in Beyond(now) : \A y \in Beyond(now) : x <= y
        BY <2>1, <1>10, LeastNatural
    <2>. QED BY <2>1, <2>2 DEF Min
<1>11. ASSUME Behind(now) # {} PROVE Max(Behind(now)) \in Nat
    <2>1. \A x \in Behind(now) : x \in Nat /\ x \in 0 .. now
        <3>1. \A x \in Behind(now) : x \in Stops /\ (x <= now - 1 \/ x < now - 1)
            BY DEF Behind
        <3>. TAKE x \in Behind(now)
        <3>2. x \in Nat
            BY <3>1, <1>9
        <3>3. x <= now - 1 \/ x < now - 1
            BY <3>1
        <3>. QED BY <3>2, <3>3
    <2>2. IsFiniteSet(0 .. now)
        BY FS_Interval
    <2>3. IsFiniteSet(Behind(now)) /\ Behind(now) \in SUBSET Int
        BY <2>1, <2>2, FS_Subset
    <2>4. Max(Behind(now)) \in Behind(now)
        BY <2>3, <1>11, FiniteMax
    <2>. QED BY <2>1, <2>4
<1>. QED BY <1>9, <1>10, <1>11
-----------------------------------------------------------------------------
(* It is so when a run is opened, and every step leaves it so.                *)

(* A viewer that has just opened a run.                                       *)
LEMMA StateInit == Init => StateInv
<1>. SUFFICES ASSUME Init PROVE StateInv
    OBVIOUS
<1>1. run \in Runs /\ page \in {"overview", "film"} /\ against = Nobody /\ comparing = {}
    BY DEF Init
<1>2. FilmOK(clock)
    BY <1>1, ClockOfOK DEF Init, NoMoment
<1>3. FilmOK(film) /\ (page = "overview" => film = NewClock(0))
    <2>1. CASE page = "film"
        BY <1>1, <2>1, LongestOK, NewFilmOK DEF Init
    <2>2. CASE page # "film"
        BY <1>1, <2>2, AsLongOK, NewFilmOK DEF Init
    <2>. QED BY <2>1, <2>2
<1>4. UrlOK(url)
    BY <1>1, AsLongOK DEF Init, UrlOK, NoMoment
<1>5. ui = NewUi /\ UiOK(run, ui) /\ recording = Idle /\ SavingOK(recording)
    BY PlayerAssumption DEF Init, UiOK, NewUi, SavingOK, Idle
<1>6. WindowOK(run, spans)
    BY <1>1, NewSpansOK DEF Init
<1>7. DOMAIN faces = IF page = "film" THEN Nodes ELSE {}
    BY DEF Init, Anew
<1>. QED BY <1>1, <1>2, <1>3, <1>4, <1>5, <1>6, <1>7 DEF StateInv, OffStage

(* A page that is mounted is drawn anew.                                      *)
LEMMA AnewDomain ==
    faces' = Anew' => DOMAIN faces' = IF page' = "film" THEN Nodes' ELSE {}
BY DEF Anew

(* Driving the clock of the page that is up.                                  *)
LEMMA DriveKeeps ==
    ASSUME StateInv, NEW c, FilmOK(c), Drive(c), UNCHANGED Others, Painted
    PROVE  StateInv'
<1>1. FilmOK(clock') /\ FilmOK(film') /\ UrlOK(url')
    BY ParkedOK DEF Drive, StateInv
<1>2. page = "overview" => film' = film
    BY DEF Drive
<1>3. DOMAIN faces' = DOMAIN faces
    BY DEF Painted
<1>. QED BY <1>1, <1>2, <1>3 DEF StateInv, Others, OffStage, Nodes, tr

(* What only writes the address bar, the film's state or the download.        *)
LEMMA OnstageKeeps ==
    ASSUME StateInv, page = "film", UiOK(run, ui'), UrlOK(url'), FilmOK(film'),
           SavingOK(recording'),
           UNCHANGED <<run, page, clock, against, spans>>, comparing' \subseteq Runs,
           DOMAIN faces' = DOMAIN faces
    PROVE  StateInv'
BY DEF StateInv, OffStage, Nodes, tr

(* What only changes the Spans page and the console's clock.                  *)
LEMMA SpansKeep ==
    ASSUME StateInv, WindowOK(run, spans'), FilmOK(clock'), UrlOK(url'),
           UNCHANGED <<run, page, film, ui, against, comparing, recording, faces>>
    PROVE  StateInv'
BY DEF StateInv, OffStage, Nodes, tr

(* Going to the film, to the overview and to another run.                     *)
LEMMA GoKeeps ==
    ASSUME StateInv
    PROVE  (GoFilm => StateInv') /\ (GoOverview => StateInv') /\ \A r \in Runs : OpenRun(r) => StateInv'
<1>1. ASSUME GoFilm PROVE StateInv'
    <2>1. Mount(run, Nobody, url) /\ run \in Runs /\ UrlOK(url)
        BY <1>1 DEF GoFilm, StateInv
    <2>2. FilmOK(film') /\ UiOK(run, ui') /\ SavingOK(recording') /\ UrlOK(url')
        BY <2>1, MountOK
    <2>3. WindowOK(run, spans')
        BY <1>1, <2>1, NewSpansOK DEF GoFilm
    <2>4. page' = "film" /\ DOMAIN faces' = Nodes'
        BY <1>1, AnewDomain DEF GoFilm
    <2>. QED BY <1>1, <2>2, <2>3, <2>4 DEF GoFilm, StateInv, OffStage
<1>2. ASSUME GoOverview PROVE StateInv'
    <2>1. FilmOK(film')
        BY <1>2, AsLongOK, NewFilmOK DEF GoOverview, Unmount, StateInv
    <2>2. UiOK(run, ui') /\ SavingOK(recording')
        BY <1>2, PlayerAssumption DEF GoOverview, Unmount, UiOK, NewUi, SavingOK, Idle
    <2>3. DOMAIN faces' = {}
        BY <1>2 DEF GoOverview
    <2>. QED BY <1>2, <2>1, <2>2, <2>3 DEF GoOverview, Unmount, StateInv, OffStage
<1>3. ASSUME NEW r \in Runs, OpenRun(r) PROVE StateInv'
    <2>1. run' = r /\ UNCHANGED <<page, against, comparing>> /\ faces' = Anew' /\ UrlOK(url)
        BY <1>3 DEF OpenRun, StateInv
    <2>2. FilmOK(clock')
        BY <1>3, ClockOfOK DEF OpenRun, StateInv, UrlOK
    <2>3. DOMAIN faces' = IF page' = "film" THEN Nodes' ELSE {}
        BY <2>1, AnewDomain
    <2>4. CASE page = "film"
        <3>1. Mount(r, against, url) /\ spans' = NewSpans(r) /\ against \in Runs \cup {Nobody}
            BY <1>3, <2>4 DEF OpenRun, StateInv
        <3>2. FilmOK(film') /\ UiOK(r, ui') /\ SavingOK(recording') /\ UrlOK(url')
            BY <2>1, <3>1, MountOK
        <3>. QED BY <2>1, <2>2, <2>3, <2>4, <3>1, <3>2, NewSpansOK DEF StateInv, OffStage
    <2>5. CASE page # "film"
        <3>1. UNCHANGED <<film, ui, recording, url>> /\ page = "overview"
            BY <1>3, <2>5 DEF OpenRun, filmVars, StateInv
        <3>2. spans' = [spans EXCEPT !.w0 = 0, !.w1 = Duration(Opened[r])]
            BY <1>3, <2>5 DEF OpenRun
        <3>3. WindowOK(r, spans')
            <4>. DEFINE left == [spans EXCEPT !.w0 = 0]
            <4>1. spans' = [left EXCEPT !.w1 = Duration(Opened[r])]
                BY <3>2
            <4>2. left = [collapsed |-> spans.collapsed, node |-> spans.node, slower |-> spans.slower,
                          crit |-> spans.crit, by |-> spans.by, selected |-> spans.selected,
                          w0 |-> 0, w1 |-> spans.w1]
                BY DEF StateInv, WindowOK
            <4>. HIDE DEF left
            <4>3. spans' = [collapsed |-> spans.collapsed, node |-> spans.node,
                            slower |-> spans.slower, crit |-> spans.crit, by |-> spans.by,
                            selected |-> spans.selected, w0 |-> 0, w1 |-> Duration(Opened[r])]
                BY <4>1, <4>2
            <4>4. Duration(Opened[r]) \in Nat \ {0}
                BY AsLongOK
            <4>. QED BY <4>3, <4>4 DEF WindowOK
        <3>4. ui' = NewUi /\ UiOK(r, ui')
            BY <3>1, PlayerAssumption DEF StateInv, OffStage, UiOK, NewUi
        <3>. QED BY <2>1, <2>2, <2>3, <3>1, <3>3, <3>4 DEF StateInv, OffStage
    <2>. QED BY <2>4, <2>5
<1>. QED BY <1>1, <1>2, <1>3

(* Whatever moves a clock: the keys, the timeline and the frames.             *)
LEMMA ClockKeeps ==
    ASSUME StateInv
    PROVE  (Key => StateInv') /\ (Scrub => StateInv')
           /\ (ConsoleTick => StateInv') /\ (FilmTick => StateInv')
<1>1. FilmOK(Shown) /\ Shown.d \in Nat
    BY DEF StateInv, Shown, FilmOK, ClockOK, Clocks
<1>. DEFINE c == Shown
<1>. HIDE DEF c
<1>2. FilmOK(c) /\ ClockOK(c) /\ c.d \in Nat
    BY <1>1 DEF FilmOK, c
<1>3. \A t \in Int : FilmOK(Seek(Pause(c), t))
    <2>. TAKE t \in Int
    <2>1. ClockOK(Pause(c)) /\ Pause(c).total = c.total
        BY <1>2, PauseOK
    <2>2. ClockOK(Seek(Pause(c), t)) /\ Seek(Pause(c), t).total = c.total
        BY <2>1, SeekOK
    <2>. QED BY <1>2, <2>2 DEF FilmOK
<1>4. run \in Runs
    BY DEF StateInv
<1>5. ASSUME Key PROVE StateInv'
    <2>1. UNCHANGED Others /\ Painted
        BY <1>5 DEF Key
    <2>2. \E x : FilmOK(x) /\ Drive(x)
        <3>1. CASE Drive(Toggle(c))
            BY <1>2, <3>1, ToggleOK DEF FilmOK
        <3>2. CASE \E n \in {-10, -1, 1, 10} : Drive(Step(c, n))
            <4>1. PICK n \in {-10, -1, 1, 10} : Drive(Step(c, n))
                BY <3>2
            <4>2. n \in Int
                OBVIOUS
            <4>. QED BY <1>2, <4>1, <4>2, StepOK DEF FilmOK
        <3>3. CASE Beyond(c.d) # {} /\ Drive(Seek(Pause(c), Min(Beyond(c.d))))
            <4>1. Min(Beyond(c.d)) \in Int
                BY <1>2, <1>4, <3>3, StopsOK
            <4>. QED BY <1>3, <3>3, <4>1
        <3>4. CASE Behind(c.d) # {} /\ Drive(Seek(Pause(c), Max(Behind(c.d))))
            <4>1. Max(Behind(c.d)) \in Int
                BY <1>2, <1>4, <3>4, StopsOK
            <4>. QED BY <1>3, <3>4, <4>1
        <3>5. CASE \E r \in Rates : Drive(SetRate(c, r))
            BY <1>2, <3>5, RateOK DEF FilmOK
        <3>6. CASE Drive(FitIn(c))
            BY <1>2, <3>6, FitOK DEF FilmOK
        <3>. QED BY <1>5, <3>1, <3>2, <3>3, <3>4, <3>5, <3>6 DEF Key, c
    <2>. QED BY <2>1, <2>2, DriveKeeps
<1>6. ASSUME Scrub PROVE StateInv'
    <2>1. PICK t \in (0 .. Duration(tr)) \cup Stops : Drive(Seek(Pause(c), t))
        BY <1>6 DEF Scrub, c
    <2>2. t \in Int
        BY <1>2, <1>4, StopsOK
    <2>3. UNCHANGED Others /\ Painted
        BY <1>6 DEF Scrub
    <2>. QED BY <1>3, <2>1, <2>2, <2>3, DriveKeeps
<1>7. ASSUME ConsoleTick PROVE StateInv'
    <2>1. PICK n \in 1 .. 2 : clock' = Tick(clock, n)
        BY <1>7 DEF ConsoleTick
    <2>2. FilmOK(clock')
        BY <2>1, TickOK DEF StateInv, FilmOK
    <2>3. UNCHANGED <<film, url, faces>> /\ UNCHANGED Others
        BY <1>7 DEF ConsoleTick
    <2>. QED BY <2>2, <2>3 DEF StateInv, Others, OffStage, Nodes, tr
<1>8. ASSUME FilmTick PROVE StateInv'
    <2>1. PICK n \in 1 .. 2 : film' = Tick(film, n)
        BY <1>8 DEF FilmTick
    <2>2. FilmOK(film')
        BY <2>1, TickOK DEF StateInv, FilmOK
    <2>3. UrlOK(url')
        BY <1>4, <1>8, <2>2, ParkedOK DEF FilmTick, StateInv
    <2>4. page = "film" /\ UNCHANGED <<run, page, clock, ui, against, comparing, recording, spans>>
        BY <1>8 DEF FilmTick, Others
    <2>5. DOMAIN faces' = DOMAIN faces
        BY <1>8 DEF FilmTick, Painted
    <2>. QED BY <2>2, <2>3, <2>4, <2>5, OnstageKeeps DEF StateInv
<1>. QED BY <1>5, <1>6, <1>7, <1>8

(* What is pointed at, pinned, set aside and held: one field of the film's    *)
(* state at a time, and what is parked with it.                               *)
LEMMA FilmKeeps ==
    ASSUME StateInv
    PROVE  /\ Hover => StateInv'
           /\ \A vm \in Nodes : Pin(vm) => StateInv'
           /\ ClosePanel => StateInv'
           /\ \A key : Nominate(key) => StateInv'
           /\ SetFilter => StateInv'
           /\ Clear => StateInv'
           /\ \A box \in Boxes : Resize(box) => StateInv'
           /\ HoldMessage => StateInv'
           /\ Escape => StateInv'
<1>. DEFINE Kept == UNCHANGED Rest /\ page = "film" /\ DOMAIN faces' = DOMAIN faces
<1>1. run \in Runs /\ UiOK(run, ui) /\ UrlOK(url) /\ FilmOK(film) /\ SavingOK(recording)
      /\ comparing \subseteq Runs
    BY DEF StateInv
<1>2. ASSUME Kept, UiOK(run, ui'), UrlOK(url') PROVE StateInv'
    BY <1>1, <1>2, OnstageKeeps DEF Rest
<1>3. Painted => DOMAIN faces' = DOMAIN faces
    BY DEF Painted
<1>. HIDE DEF Kept
<1>4. \A m : UrlOK(Parked(film, url, m))
    BY <1>1, ParkedOK
<1>5. ASSUME Hover PROVE StateInv'
    <2>1. Kept /\ url' = url
        BY <1>3, <1>5 DEF Hover, Onstage, Kept
    <2>2. UiOK(run, ui')
        BY <1>1, <1>5 DEF Hover, UiOK
    <2>. QED BY <1>1, <1>2, <2>1, <2>2
<1>6. ASSUME NEW vm \in Nodes, Pin(vm) PROVE StateInv'
    <2>1. Kept
        BY <1>3, <1>6 DEF Pin, Onstage, Kept
    <2>2. UiOK(run, ui')
        <3>. DEFINE m == IF faces[vm].pin = vm THEN Nobody ELSE vm
        <3>1. ui' = [ui EXCEPT !.pinned = m] /\ m \in NodeNames(Opened[run]) \cup {Nobody}
            BY <1>6 DEF Pin, Nodes, tr
        <3>. HIDE DEF m
        <3>. QED BY <1>1, <3>1 DEF UiOK
    <2>3. UrlOK(url')
        BY <1>4, <1>6 DEF Pin
    <2>. QED BY <1>2, <2>1, <2>2, <2>3
<1>7. ASSUME ClosePanel PROVE StateInv'
    <2>1. Kept
        BY <1>3, <1>7 DEF ClosePanel, Onstage, Kept
    <2>2. UiOK(run, ui')
        BY <1>1, <1>7 DEF ClosePanel, UiOK
    <2>3. UrlOK(url')
        BY <1>4, <1>7 DEF ClosePanel
    <2>. QED BY <1>2, <2>1, <2>2, <2>3
<1>8. ASSUME NEW key, Nominate(key) PROVE StateInv'
    <2>1. Kept /\ ui' = ui
        BY <1>3, <1>8 DEF Nominate, Onstage, Kept
    <2>2. UrlOK(url')
        BY <1>1, <1>8 DEF Nominate, UrlOK
    <2>. QED BY <1>1, <1>2, <2>1, <2>2
<1>9. ASSUME SetFilter PROVE StateInv'
    <2>1. Kept /\ url' = url
        BY <1>3, <1>9 DEF SetFilter, Onstage, Kept
    <2>2. UiOK(run, ui')
        <3>1. CASE \E zone \in Zones(tr) \cup {0} : ui' = [ui EXCEPT !.zone = zone]
            BY <1>1, <3>1 DEF UiOK
        <3>2. CASE \E role \in DOMAIN Roles[run] \cup {0} : ui' = [ui EXCEPT !.role = role]
            BY <1>1, <3>2 DEF UiOK
        <3>3. CASE \E task \in Range(Index[run].tasks) \cup {-1} : ui' = [ui EXCEPT !.task = task]
            BY <1>1, <3>3 DEF UiOK
        <3>. QED BY <1>9, <3>1, <3>2, <3>3 DEF SetFilter
    <2>. QED BY <1>1, <1>2, <2>1, <2>2
<1>10. ASSUME Clear PROVE StateInv'
    <2>1. Kept
        BY <1>3, <1>10 DEF Clear, Onstage, Kept
    <2>2. UiOK(run, ui')
        <3>1. ui' = [ui EXCEPT !.zone = 0, !.role = 0, !.task = -1]
            BY <1>10 DEF Clear
        <3>. QED BY <1>1, <3>1 DEF UiOK
    <2>3. UrlOK(url')
        BY <1>1, <1>10 DEF Clear, UrlOK
    <2>. QED BY <1>2, <2>1, <2>2, <2>3
<1>11. ASSUME NEW box \in Boxes, Resize(box) PROVE StateInv'
    <2>1. Kept /\ url' = url
        BY <1>3, <1>11 DEF Resize, Onstage, Kept
    <2>2. UiOK(run, ui')
        BY <1>1, <1>11 DEF Resize, UiOK
    <2>. QED BY <1>1, <1>2, <2>1, <2>2
<1>12. ASSUME HoldMessage PROVE StateInv'
    <2>1. Kept /\ url' = url
        BY <1>12 DEF HoldMessage, Onstage, Kept
    <2>2. UiOK(run, ui')
        <3>1. PICK message : ui' = [ui EXCEPT !.held = message]
            BY <1>12 DEF HoldMessage
        <3>. QED BY <1>1, <3>1 DEF UiOK
    <2>. QED BY <1>1, <1>2, <2>1, <2>2
<1>13. ASSUME Escape PROVE StateInv'
    <2>1. Kept
        BY <1>3, <1>13 DEF Escape, Onstage, Kept
    <2>2. UiOK(run, ui')
        <3>. DEFINE m == IF ui.held = <<>> THEN Nobody ELSE ui.pinned
        <3>1. ui' = [ui EXCEPT !.held = <<>>, !.pinned = m]
            BY <1>13 DEF Escape
        <3>2. m \in NodeNames(Opened[run]) \cup {Nobody}
            BY <1>1 DEF UiOK
        <3>. HIDE DEF m
        <3>. QED BY <1>1, <3>1, <3>2 DEF UiOK
    <2>3. UrlOK(url')
        BY <1>4, <1>13 DEF Escape
    <2>. QED BY <1>2, <2>1, <2>2, <2>3
<1>. QED BY <1>5, <1>6, <1>7, <1>8, <1>9, <1>10, <1>11, <1>12, <1>13

(* The second run of the film: chosen, come, refused and put away.            *)
LEMMA CompareKeeps ==
    ASSUME StateInv
    PROVE  /\ \A r \in Runs : Compare(r) \/ CompareAnswered(r) \/ CompareFailed(r) => StateInv'
           /\ CompareNone => StateInv'
<1>1. ASSUME NEW other \in Runs \cup {Nobody}, Remounted(other), page = "film",
             UNCHANGED <<run, page, clock, spans>>, comparing' \subseteq Runs
      PROVE  StateInv'
    <2>1. CASE against = other
        <3>1. UNCHANGED <<film, ui, recording, url, faces>> /\ against' = against
            BY <1>1, <2>1 DEF Remounted, filmVars
        <3>. QED BY <1>1, <3>1, OnstageKeeps DEF StateInv
    <2>2. CASE against # other
        <3>1. Mount(run, other, url) /\ faces' = Anew' /\ run \in Runs /\ UrlOK(url)
            BY <1>1, <2>2 DEF Remounted, StateInv
        <3>2. FilmOK(film') /\ UiOK(run, ui') /\ SavingOK(recording') /\ UrlOK(url')
            BY <1>1, <3>1, MountOK
        <3>3. DOMAIN faces' = Nodes' /\ against' = other
            BY <1>1, <3>1, AnewDomain DEF Remounted
        <3>. QED BY <1>1, <3>2, <3>3 DEF StateInv, OffStage
    <2>. QED BY <2>1, <2>2
<1>2. ASSUME NEW r \in Runs, Compare(r) PROVE StateInv'
    <2>1. comparing' \subseteq Runs
        BY <1>2 DEF Compare, StateInv
    <2>. QED BY <1>2, <2>1, OnstageKeeps DEF Compare, StateInv
<1>3. ASSUME NEW r \in Runs, CompareAnswered(r) PROVE StateInv'
    <2>1. page = "film" /\ comparing' \subseteq Runs
        BY <1>3 DEF CompareAnswered, StateInv, OffStage
    <2>2. Remounted(r) /\ UNCHANGED <<run, page, clock, spans>>
        BY <1>3 DEF CompareAnswered
    <2>. QED BY <1>1, <2>1, <2>2
<1>4. ASSUME NEW r \in Runs, CompareFailed(r) PROVE StateInv'
    <2>1. page = "film" /\ comparing' \subseteq Runs
        BY <1>4 DEF CompareFailed, StateInv, OffStage
    <2>2. UNCHANGED <<run, page, clock, spans, against, film, ui, recording, url, faces>>
        BY <1>4 DEF CompareFailed, filmVars
    <2>. QED BY <2>1, <2>2, OnstageKeeps DEF StateInv
<1>5. ASSUME CompareNone PROVE StateInv'
    <2>1. page = "film" /\ comparing' \subseteq Runs
        BY <1>5 DEF CompareNone, StateInv
    <2>2. Remounted(Nobody) /\ UNCHANGED <<run, page, clock, spans>>
        BY <1>5 DEF CompareNone
    <2>. QED BY <1>1, <2>1, <2>2
<1>. QED BY <1>2, <1>3, <1>4, <1>5

(* What is saved of the film, frame by frame or as a picture.                 *)
LEMMA SaveKeeps ==
    ASSUME StateInv
    PROVE  /\ Download => StateInv'
           /\ ShowFrame => StateInv'
           /\ DrawFrame => StateInv'
           /\ Still \/ StillSaved \/ SaveFails => StateInv'
<1>1. run \in Runs /\ UiOK(run, ui) /\ UrlOK(url) /\ FilmOK(film) /\ SavingOK(recording)
      /\ comparing \subseteq Runs
    BY DEF StateInv
<1>2. recording.state # "idle" => page = "film"
    BY DEF StateInv, OffStage, Idle
<1>3. ASSUME Download PROVE StateInv'
    <2>1. FilmOK(film')
        BY <1>1, <1>3, PauseOK DEF Download, FilmOK
    <2>2. UrlOK(url')
        BY <1>1, <1>3, <2>1, ParkedOK DEF Download
    <2>3. SavingOK(recording')
        BY <1>3, PlayerAssumption DEF Download, SavingOK
    <2>. QED BY <1>1, <1>3, <2>1, <2>2, <2>3, OnstageKeeps DEF Download, MaySave
<1>4. ASSUME ShowFrame PROVE StateInv'
    <2>. DEFINE at == (recording.frame * film.total) \div (Frames - 1)
    <2>1. at \in Int
        <3>1. recording.frame \in Int /\ film.total \in Int /\ Frames - 1 \in Nat \ {0}
            BY <1>1, PlayerAssumption DEF SavingOK, FilmOK, ClockOK, Clocks
        <3>. DEFINE part == recording.frame * film.total
                    last == Frames - 1
        <3>2. part \in Int /\ last \in Nat \ {0}
            BY <3>1
        <3>. HIDE DEF part, last
        <3>3. part \div last \in Int
            BY <3>2
        <3>. QED BY <3>3 DEF part, last
    <2>. HIDE DEF at
    <2>2. film' = Seek(film, at)
        BY <1>4 DEF ShowFrame, at
    <2>3. FilmOK(film')
        BY <1>1, <2>1, <2>2, SeekOK DEF FilmOK
    <2>4. UrlOK(url')
        BY <1>1, <1>4, <2>3, ParkedOK DEF ShowFrame
    <2>5. SavingOK(recording')
        BY <1>1, <1>4 DEF ShowFrame, SavingOK
    <2>6. DOMAIN faces' = DOMAIN faces
        BY <1>4 DEF ShowFrame, Painted
    <2>. QED BY <1>1, <1>2, <1>4, <2>3, <2>4, <2>5, <2>6, OnstageKeeps DEF ShowFrame
<1>5. ASSUME DrawFrame PROVE StateInv'
    <2>1. SavingOK(recording')
        <3>. DEFINE next == [recording EXCEPT !.frame = @ + 1, !.shown = FALSE]
        <3>1. CASE recording.frame + 1 = Frames
            BY <1>5, <3>1, PlayerAssumption DEF DrawFrame, SavingOK, Idle
        <3>2. CASE recording.frame + 1 # Frames
            <4>1. recording.frame + 1 \in 0 .. Frames - 1
                BY <1>1, <3>2, PlayerAssumption DEF SavingOK
            <4>2. recording' = [recording EXCEPT !.frame = recording.frame + 1, !.shown = FALSE]
                BY <1>5, <3>2 DEF DrawFrame
            <4>3. recording' = [state |-> recording.state, frame |-> recording.frame + 1, shown |-> FALSE]
                BY <1>1, <4>2 DEF SavingOK
            <4>. QED BY <4>1, <4>3 DEF SavingOK
        <3>. QED BY <3>1, <3>2
    <2>. QED BY <1>1, <1>2, <1>5, <2>1, OnstageKeeps DEF DrawFrame
<1>6. ASSUME Still \/ StillSaved \/ SaveFails PROVE StateInv'
    <2>1. SavingOK(recording')
        BY <1>6, PlayerAssumption DEF Still, StillSaved, SaveFails, SavingOK, Idle
    <2>2. page = "film" /\ UNCHANGED <<run, page, clock, film, url, ui, against, comparing, spans, faces>>
        BY <1>2, <1>6 DEF Still, StillSaved, SaveFails, MaySave
    <2>. QED BY <1>1, <2>1, <2>2, OnstageKeeps
<1>. QED BY <1>3, <1>4, <1>5, <1>6

(* The window of the waterfall: as wide as the code asks for, never turned    *)
(* round and never beyond the run.                                            *)
LEMMA WindowMoves ==
    ASSUME NEW r \in Runs, NEW s, WindowOK(r, s), NEW a \in Int, NEW b \in Int,
           0 <= a, a < b, b <= Duration(Opened[r])
    PROVE  WindowOK(r, [s EXCEPT !.w0 = a, !.w1 = b])
<1>. DEFINE left == [s EXCEPT !.w0 = a]
            both == [s EXCEPT !.w0 = a, !.w1 = b]
<1>1. left = [collapsed |-> s.collapsed, node |-> s.node, slower |-> s.slower, crit |-> s.crit,
              by |-> s.by, selected |-> s.selected, w0 |-> a, w1 |-> s.w1]
    BY DEF WindowOK
<1>2. both = [left EXCEPT !.w1 = b]
    OBVIOUS
<1>. HIDE DEF left, both
<1>3. both = [collapsed |-> s.collapsed, node |-> s.node, slower |-> s.slower, crit |-> s.crit,
              by |-> s.by, selected |-> s.selected, w0 |-> a, w1 |-> b]
    BY <1>1, <1>2
<1>4. WindowOK(r, both)
    BY <1>3 DEF WindowOK
<1>. QED BY <1>4 DEF both

(* What the reader does to the waterfall.                                     *)
LEMMA SpansStep ==
    ASSUME StateInv
    PROVE  /\ \A i \in DOMAIN Tree[run].span : Collapse(i) => StateInv'
           /\ Filter => StateInv'
           /\ \A at \in 0 .. Long : Zoom(at) \/ DoubleClick(at) => StateInv'
           /\ Pan => StateInv'
           /\ ShowAll => StateInv'
<1>1. run \in Runs /\ WindowOK(run, spans) /\ FilmOK(clock) /\ UrlOK(url)
    BY DEF StateInv
<1>2. spans.w0 \in Nat /\ spans.w1 \in Nat /\ spans.w0 < spans.w1 /\ spans.w1 <= Long
      /\ Long \in Nat /\ Long = Duration(Opened[run])
    BY <1>1, AsLongOK DEF WindowOK, Long, tr
<1>. DEFINE Kept == UNCHANGED <<run, page, clock, film, ui, against, comparing, recording, faces>>
<1>3. ASSUME Kept, WindowOK(run, spans'), UrlOK(url') PROVE StateInv'
    BY <1>1, <1>3, SpansKeep
<1>. HIDE DEF Kept
<1>4. ASSUME NEW i \in DOMAIN Tree[run].span, Collapse(i) PROVE StateInv'
    <2>1. Kept /\ url' = url
        BY <1>4 DEF Collapse, Asks, Kept
    <2>2. WindowOK(run, spans')
        BY <1>1, <1>4 DEF Collapse, WindowOK
    <2>. QED BY <1>1, <1>3, <2>1, <2>2
<1>5. ASSUME Filter PROVE StateInv'
    <2>1. Kept
        BY <1>5 DEF Filter, Asks, Kept
    <2>2. CASE UNCHANGED url
        <3>1. WindowOK(run, spans')
            <4>1. CASE \E vm \in Nodes \cup {Nobody} : spans' = [spans EXCEPT !.node = vm]
                BY <1>1, <4>1 DEF WindowOK
            <4>2. CASE \E least \in {0, 3} : spans' = [spans EXCEPT !.slower = least]
                BY <1>1, <4>2 DEF WindowOK
            <4>3. CASE spans' = [spans EXCEPT !.crit = ~@]
                BY <1>1, <4>3 DEF WindowOK
            <4>4. CASE \E by \in {"method", "node", "zone", "task"} : spans' = [spans EXCEPT !.by = by]
                BY <1>1, <4>4 DEF WindowOK
            <4>5. CASE spans' = spans
                BY <1>1, <4>5
            <4>. QED BY <1>5, <4>1, <4>2, <4>3, <4>4, <4>5 DEF Filter
        <3>. QED BY <1>1, <1>3, <2>1, <2>2, <3>1
    <2>3. CASE UNCHANGED spans
        <3>1. UrlOK(url')
            <4>1. CASE url' = [url EXCEPT !.fail = ~@]
                BY <1>1, <4>1 DEF UrlOK
            <4>2. CASE \E q : url' = [url EXCEPT !.method = q]
                BY <1>1, <4>2 DEF UrlOK
            <4>3. CASE \E v : url' = [url EXCEPT !.sv = v]
                BY <1>1, <4>3 DEF UrlOK
            <4>4. CASE url' = url
                BY <1>1, <4>4
            <4>. QED BY <1>5, <4>1, <4>2, <4>3, <4>4 DEF Filter
        <3>. QED BY <1>1, <1>3, <2>1, <2>3, <3>1
    <2>. QED BY <1>5, <2>2, <2>3 DEF Filter
<1>6. ASSUME NEW at \in 0 .. Long, Zoom(at) PROVE StateInv'
    <2>1. Kept /\ url' = url /\ at \in spans.w0 .. spans.w1
        BY <1>6 DEF Zoom, Asks, Kept
    <2>2. \A a, b \in Int : 0 <= a /\ b <= Long => WindowOK(run, ZoomTo(a, b))
        <3>. TAKE a, b \in Int
        <3>. HAVE 0 <= a /\ b <= Long
        <3>1. CASE 5000 * (b - a) > Long
            <4>1. a < b
                BY <1>2, <3>1
            <4>2. WindowOK(run, [spans EXCEPT !.w0 = a, !.w1 = b])
                BY <1>1, <1>2, <4>1, WindowMoves
            <4>. QED BY <3>1, <4>2 DEF ZoomTo
        <3>2. CASE ~(5000 * (b - a) > Long)
            BY <1>1, <3>2 DEF ZoomTo
        <3>. QED BY <3>1, <3>2
    <2>3. CASE spans' = ZoomTo(at - (at - spans.w0) \div 2, at + (spans.w1 - at) \div 2)
        <3>1. /\ at - (at - spans.w0) \div 2 \in Int /\ 0 <= at - (at - spans.w0) \div 2
              /\ at + (spans.w1 - at) \div 2 \in Int /\ at + (spans.w1 - at) \div 2 <= Long
            BY <1>2, <2>1
        <3>. QED BY <1>1, <1>3, <2>1, <2>2, <2>3, <3>1
    <2>4. CASE spans' = ZoomTo(Max({0, at - 2 * (at - spans.w0)}), Min({Long, at + 2 * (spans.w1 - at)}))
        <3>1. at - 2 * (at - spans.w0) \in Int /\ at + 2 * (spans.w1 - at) \in Int
            BY <1>2, <2>1
        <3>2. /\ Max({0, at - 2 * (at - spans.w0)}) \in Int /\ 0 <= Max({0, at - 2 * (at - spans.w0)})
              /\ Min({Long, at + 2 * (spans.w1 - at)}) \in Int
              /\ Min({Long, at + 2 * (spans.w1 - at)}) <= Long
            BY <1>2, <3>1, MaxOfTwo, MinOfTwo
        <3>. QED BY <1>1, <1>3, <2>1, <2>2, <2>4, <3>2
    <2>. QED BY <1>6, <2>3, <2>4 DEF Zoom
<1>7. ASSUME NEW at \in 0 .. Long, DoubleClick(at) PROVE StateInv'
    <2>1. at \in Int /\ clock' = Seek(Pause(clock), at)
        BY <1>2, <1>7 DEF DoubleClick
    <2>2. FilmOK(clock')
        <3>1. ClockOK(Pause(clock)) /\ Pause(clock).total = clock.total
            BY <1>1, PauseOK DEF FilmOK
        <3>2. ClockOK(Seek(Pause(clock), at)) /\ Seek(Pause(clock), at).total = clock.total
            BY <2>1, <3>1, SeekOK
        <3>. QED BY <1>1, <2>1, <3>2 DEF FilmOK
    <2>. QED BY <1>1, <1>7, <2>2, SpansKeep DEF DoubleClick
<1>8. ASSUME Pan PROVE StateInv'
    <2>1. Kept /\ url' = url
        BY <1>8 DEF Pan, Asks, Kept
    <2>2. PICK by \in {-1, 1} :
              spans' = [spans EXCEPT !.w0 = Max({0, spans.w0 + by * ((spans.w1 - spans.w0) \div 2)}),
                                     !.w1 = Min({Long, spans.w1 + by * ((spans.w1 - spans.w0) \div 2)})]
        BY <1>8 DEF Pan
    <2>. DEFINE half == (spans.w1 - spans.w0) \div 2
                on   == by * half
                a    == Max({0, spans.w0 + on})
                b    == Min({Long, spans.w1 + on})
    <2>3. half \in Nat /\ half < spans.w1 - spans.w0
        BY <1>2
    <2>. HIDE DEF half
    <2>4. on \in Int /\ (on = half \/ on = 0 - half)
        BY <2>3
    <2>5. spans' = [spans EXCEPT !.w0 = a, !.w1 = b]
        BY <2>2 DEF half
    <2>. HIDE DEF on
    <2>6. /\ a = IF 0 >= spans.w0 + on THEN 0 ELSE spans.w0 + on
          /\ b = IF Long <= spans.w1 + on THEN Long ELSE spans.w1 + on
        BY <1>2, <2>4, MaxOfTwo, MinOfTwo
    <2>. HIDE DEF a, b
    <2>7. a \in Int /\ b \in Int /\ 0 <= a /\ a < b /\ b <= Long
        BY <1>2, <2>3, <2>4, <2>6
    <2>8. WindowOK(run, spans')
        BY <1>1, <1>2, <2>5, <2>7, WindowMoves
    <2>. QED BY <1>1, <1>3, <2>1, <2>8
<1>9. ASSUME ShowAll PROVE StateInv'
    <2>1. Kept /\ url' = url /\ spans' = [spans EXCEPT !.w0 = 0, !.w1 = Long]
        BY <1>9 DEF ShowAll, Asks, Kept
    <2>2. 0 \in Int /\ Long \in Int /\ 0 <= 0 /\ 0 < Long /\ Long <= Long
        BY <1>2
    <2>3. WindowOK(run, [spans EXCEPT !.w0 = 0, !.w1 = Long])
        BY <1>1, <1>2, <2>2, WindowMoves
    <2>. QED BY <1>1, <1>3, <2>1, <2>3
<1>. QED BY <1>4, <1>5, <1>6, <1>7, <1>8, <1>9

(* A span begins at a whole instant of the run.                               *)
LEMMA SpanBegins ==
    ASSUME NEW r \in Runs, NEW i \in DOMAIN Tree[r].span
    PROVE  Tree[r].span[i] \in SpanSet(Opened[r]) /\ Tree[r].span[i].t0 \in Nat
<1>. DEFINE all == SpanSet(Opened[r])
            ids == {s.id : s \in all}
<1>1. Tree[r].span = [k \in ids |-> CHOOSE s \in all : s.id = k]
    BY DEF Tree, TreeOf, ById
<1>. HIDE DEF all
<1>2. i \in ids /\ Tree[r].span[i] = CHOOSE s \in all : s.id = i
    BY <1>1
<1>3. Tree[r].span[i] \in all
    BY <1>2
<1>4. \A s \in all : s.t0 \in Nat
    BY TraceAssumption DEF WellFormed, all
<1>. QED BY <1>3, <1>4 DEF all

(* A span that is selected takes the clock to where it begins.                *)
LEMMA SelectKeeps ==
    ASSUME StateInv, NEW i \in DOMAIN Tree[run].span, Select(i)
    PROVE  StateInv'
<1>1. run \in Runs /\ WindowOK(run, spans) /\ FilmOK(clock) /\ UrlOK(url)
    BY DEF StateInv
<1>. DEFINE begin == Tree[run].span[i].t0
<1>2. begin \in Int /\ clock' = Seek(Pause(clock), begin)
    BY <1>1, SpanBegins DEF Select
<1>. HIDE DEF begin
<1>3. FilmOK(clock')
    <2>1. ClockOK(Pause(clock)) /\ Pause(clock).total = clock.total
        BY <1>1, PauseOK DEF FilmOK
    <2>2. ClockOK(Seek(Pause(clock), begin)) /\ Seek(Pause(clock), begin).total = clock.total
        BY <1>2, <2>1, SeekOK
    <2>. QED BY <1>1, <1>2, <2>2 DEF FilmOK
<1>4. WindowOK(run, spans')
    BY <1>1 DEF Select, WindowOK
<1>. QED BY <1>1, <1>3, <1>4, SpansKeep DEF Select

(* Every step of the viewer.                                                  *)
LEMMA StateStep == StateInv /\ [Next]_vars => StateInv'
<1>. SUFFICES ASSUME StateInv, [Next]_vars PROVE StateInv'
    OBVIOUS
<1>1. CASE GoFilm \/ GoOverview \/ \E r \in Runs : OpenRun(r)
    BY <1>1, GoKeeps
<1>2. CASE \/ \E r \in Runs : Compare(r) \/ CompareAnswered(r) \/ CompareFailed(r)
           \/ CompareNone
    BY <1>2, CompareKeeps
<1>3. CASE Key \/ Scrub \/ ConsoleTick \/ FilmTick
    BY <1>3, ClockKeeps
<1>4. CASE \/ Hover \/ (\E vm \in Nodes : Pin(vm)) \/ ClosePanel \/ (\E key : Nominate(key))
           \/ SetFilter \/ Clear \/ (\E box \in Boxes : Resize(box)) \/ HoldMessage \/ Escape
    BY <1>4, FilmKeeps
<1>5. CASE Download \/ ShowFrame \/ DrawFrame \/ Still \/ StillSaved \/ SaveFails
    BY <1>5, SaveKeeps
<1>6. CASE \/ \E i \in DOMAIN Tree[run].span : Collapse(i)
           \/ Filter \/ (\E at \in 0 .. Long : Zoom(at) \/ DoubleClick(at)) \/ Pan \/ ShowAll
    BY <1>6, SpansStep
<1>7. CASE \E i \in DOMAIN Tree[run].span : Select(i)
    BY <1>7, SelectKeeps
<1>8. CASE UNCHANGED vars
    BY <1>8 DEF vars, StateInv, OffStage, Nodes, tr
<1>. QED BY <1>1, <1>2, <1>3, <1>4, <1>5, <1>6, <1>7, <1>8 DEF Next

(* Wherever the reader has been: the clocks stand within their films, neither *)
(* is longer than the longest run, the address bar names a moment of it, what *)
(* is pinned is a node of the run that is open, a page that is left keeps     *)
(* nothing, and the waterfall shows a part of the run and never nothing.      *)
THEOREM StateInvariant == Spec => []StateInv
BY StateInit, StateStep, PTL DEF Spec

(* The state of the viewer is of its type (TypeOK of run "player").           *)
THEOREM TypeCorrect == Spec => []TypeOK
<1>1. StateInv => TypeOK
    <2>. SUFFICES ASSUME StateInv PROVE TypeOK
        OBVIOUS
    <2>1. run \in Runs /\ clock.d \in 0 .. clock.total /\ film.d \in 0 .. film.total
        BY DEF StateInv, FilmOK, ClockOK, Clocks
    <2>2. url.t \in -1 .. Max({Duration(Opened[r]) : r \in Runs})
        BY DEF StateInv, UrlOK, AsLong
    <2>3. ui.pinned \in Nodes \cup {Nobody} /\ ui.box \in Boxes
        BY DEF StateInv, UiOK, Nodes, tr
    <2>4. 0 <= spans.w0 /\ spans.w0 < spans.w1 /\ spans.w1 <= Duration(tr)
        BY DEF StateInv, WindowOK, tr
    <2>. QED BY <2>1, <2>2, <2>3, <2>4 DEF TypeOK, StateInv, SavingOK
<1>. QED BY <1>1, StateInvariant, PTL

-----------------------------------------------------------------------------
(* The faces.  A node that is not drawn again looks as if it had been.         *)

(* Two shares of the cores of one type that are compared as equal light as     *)
(* many slots: the steps of the comparison are coarser than a slot, but no     *)
(* type of the catalogue has shares that fall between them.                    *)
LEMMA SameLit ==
    ASSUME NEW vcpu \in VCPUS, NEW x \in Int, NEW y \in Int, BusyShare(vcpu, x), BusyShare(vcpu, y),
           Nearest(x, 12 * Percent) = Nearest(y, 12 * Percent),
           NEW n, n = (IF vcpu = 16 THEN 8 ELSE vcpu), NEW i \in 1 .. n
    PROVE  i <= Nearest(n * x, 100 * Percent) <=> i <= Nearest(n * y, 100 * Percent)
<1>. DEFINE Few(v, z) == z < 0 \/ \E k \in 0 .. v : z = (2000 * k + v) \div (2 * v)
<1>1. Few(vcpu, x) /\ Few(vcpu, y)
    BY DEF BusyShare, Nearest, Percent, VCPUS
<1>2. (2 * x + 120) \div 240 = (2 * y + 120) \div 240
    BY DEF Nearest, Percent
<1>3. CASE vcpu = 1
    <2>1. n = 1 /\ i = 1
        BY <1>3
    <2>2. (x < 0 \/ x = 0 \/ x = 1000) /\ (y < 0 \/ y = 0 \/ y = 1000)
        BY <1>1, <1>3
    <2>3. x = y \/ (x < 500 /\ y < 500)
        BY <1>2, <2>2
    <2>. QED BY <2>1, <2>3 DEF Nearest, Percent
<1>4. CASE vcpu = 2
    <2>1. (x < 0 \/ x \in {0, 500, 1000}) /\ (y < 0 \/ y \in {0, 500, 1000})
        BY <1>1, <1>4
    <2>. QED BY <1>2, <1>4, <2>1 DEF Nearest, Percent
<1>5. CASE vcpu = 4
    <2>1. /\ x < 0 \/ x \in {0, 250, 500, 750, 1000}
          /\ y < 0 \/ y \in {0, 250, 500, 750, 1000}
        BY <1>1, <1>5
    <2>. QED BY <1>2, <1>5, <2>1 DEF Nearest, Percent
<1>6. CASE vcpu = 8
    <2>1. x < 0 \/ x \in {0, 125, 250, 375, 500, 625, 750, 875, 1000}
        BY <1>1, <1>6
    <2>2. y < 0 \/ y \in {0, 125, 250, 375, 500, 625, 750, 875, 1000}
        BY <1>1, <1>6
    <2>. QED BY <1>2, <1>6, <2>1, <2>2 DEF Nearest, Percent
<1>7. CASE vcpu = 16
    <2>1. \A z \in Int : Few(16, z) => z < 0 \/
              z \in {0, 63, 125, 188, 250, 313, 375, 438, 500, 563, 625, 688, 750, 813, 875, 938, 1000}
        OBVIOUS
    <2>. QED BY <1>1, <1>2, <1>7, <2>1 DEF Nearest, Percent
<1>. QED BY <1>3, <1>4, <1>5, <1>6, <1>7 DEF VCPUS

(* What is compared tells apart everything that is told: for one node of one   *)
(* run, two looks that are the same are drawn the same but for two colours.    *)
LEMMA SameFace ==
    ASSUME NEW m, NEW n, m.name = n.name, m.serves = n.serves, m.cap = n.cap,
           m.instance = n.instance, m.vcpu = n.vcpu, m.vcpu \in VCPUS,
           m.busy \in Int, n.busy \in Int, BusyShare(m.vcpu, m.busy), BusyShare(n.vcpu, n.busy),
           NEW show, NEW dim, NEW dense, NEW show2, NEW dim2, NEW dense2,
           Look(m, show, dim, dense) = Look(n, show2, dim2, dense2)
    PROVE  Told(Face(m, show, dim, dense)) = Told(Face(n, show2, dim2, dense2))
<1>1. /\ m.place = n.place /\ m.size = n.size /\ m.state = n.state /\ Label(m) = Label(n)
      /\ Nearest(m.busy, 12 * Percent) = Nearest(n.busy, 12 * Percent) /\ m.queued = n.queued
      /\ mb(m.free) = mb(n.free) /\ m.revealed = n.revealed
      /\ show = show2 /\ dim = dim2 /\ dense = dense2
    BY DEF Look
<1>2. Slots(m) = (IF m.vcpu = 16 THEN 8 ELSE m.vcpu) /\ Slots(n) = Slots(m)
    <2>1. m.vcpu \in Int /\ Min({m.vcpu, 8}) = IF m.vcpu <= 8 THEN m.vcpu ELSE 8
        BY MinOfTwo DEF VCPUS
    <2>2. Max({1, Min({m.vcpu, 8})}) = IF 1 >= Min({m.vcpu, 8}) THEN 1 ELSE Min({m.vcpu, 8})
        BY <2>1, MaxOfTwo
    <2>3. Slots(m) = (IF m.vcpu = 16 THEN 8 ELSE m.vcpu)
        BY <2>1, <2>2 DEF Slots, VCPUS
    <2>. QED BY <2>3 DEF Slots
<1>3. Lit(m) = Lit(n)
    <2>1. \A i \in 1 .. Slots(m) : i <= Nearest(Slots(m) * m.busy, 100 * Percent)
                                   <=> i <= Nearest(Slots(m) * n.busy, 100 * Percent)
        BY <1>1, <1>2, SameLit
    <2>. QED BY <1>2, <2>1 DEF Lit
<1>4. /\ m.work = <<>> <=> n.work = <<>>
      /\ m.work # <<>> => /\ m.work[1].method = n.work[1].method
                          /\ m.work[1].task = n.work[1].task
                          /\ Len(m.work) = Len(n.work)
    BY <1>1 DEF Label
<1>. DEFINE F == Face(m, show, dim, dense)
            G == Face(n, show2, dim2, dense2)
            parts == {"title", "place", "size", "dashed", "struck", "hatched", "nominated",
                      "labels", "slots", "lit", "waiting", "headroom", "dim"}
<1>5. DOMAIN F = parts \cup {"colours", "alarmed"} /\ DOMAIN G = parts \cup {"colours", "alarmed"}
    BY DEF Face
<1>6. F.title = G.title
    BY <1>4 DEF Face
<1>7. /\ F.place = G.place /\ F.size = G.size /\ F.dashed = G.dashed /\ F.struck = G.struck
      /\ F.hatched = G.hatched
    BY <1>1 DEF Face
<1>8. F.nominated = G.nominated /\ F.labels = G.labels /\ F.slots = G.slots
    BY <1>1, <1>2 DEF Face
<1>9. F.lit = G.lit /\ F.waiting = G.waiting /\ F.headroom = G.headroom /\ F.dim = G.dim
    BY <1>1, <1>3 DEF Face
<1>. HIDE DEF F, G
<1>10. \A part \in parts : F[part] = G[part]
    BY <1>6, <1>7, <1>8, <1>9
<1>11. Told(F) = [part \in parts |-> F[part]] /\ Told(G) = [part \in parts |-> G[part]]
    <2>1. (parts \cup {"colours", "alarmed"}) \ {"colours", "alarmed"} = parts
        OBVIOUS
    <2>. HIDE DEF parts
    <2>. QED BY <1>5, <2>1 DEF Told
<1>. HIDE DEF parts
<1>12. Told(F) = Told(G)
    BY <1>10, <1>11
<1>. QED BY <1>12 DEF F, G

(* By name a node is found. *)
LEMMA NodeFound ==
    ASSUME NEW trace, WellFormed(trace), NEW k \in DOMAIN trace.nodes
    PROVE  NodeOf(trace, trace.nodes[k].name) = trace.nodes[k]
<1>1. \A m \in Range(trace.nodes) : m.name = trace.nodes[k].name => m = trace.nodes[k]
    BY DEF WellFormed, Range
<1>2. trace.nodes[k] \in Range(trace.nodes)
    BY DEF Range
<1>. QED BY <1>1, <1>2 DEF NodeOf

(* A node of a frame: whatever the moment and the stage, its name, its        *)
(* services, its type and its disk are the run's, and so many of its cores are *)
(* in use as handlers can be using.                                            *)
Sees(node, r, vm) ==
    /\ node.name = vm /\ node.serves = NodeOf(Opened[r], vm).serves
    /\ node.instance = NodeOf(Opened[r], vm).instance
    /\ node.vcpu = NodeOf(Opened[r], vm).vcpu /\ node.vcpu \in VCPUS
    /\ node.cap = Index[r].diskCap[vm]
    /\ node.busy \in Int /\ BusyShare(node.vcpu, node.busy)

LEMMA FrameAtSees ==
    ASSUME NEW r \in Runs, NEW box \in Stages, NEW t \in 0 .. AsLong,
           NEW vm \in NodeNames(Opened[r])
    PROVE  Sees(FrameAt[r][box][t][vm], r, vm)
<1>. DEFINE node == NodeAt(Index[r], Opened[r], Plan[r][box], vm, t)
<1>1. FrameAt[r][box][t][vm] = node
    BY DEF FrameAt
<1>2. /\ node.name = vm /\ node.serves = NodeOf(Opened[r], vm).serves
      /\ node.instance = NodeOf(Opened[r], vm).instance
      /\ node.vcpu = NodeOf(Opened[r], vm).vcpu
      /\ node.cap = Index[r].diskCap[vm] /\ node.busy = Channel(Opened[r], vm, "busyPct", t)
    BY DEF NodeAt
<1>3. PICK k \in DOMAIN Opened[r].nodes : Opened[r].nodes[k].name = vm
    BY DEF NodeNames, Range
<1>4. WellFormed(Opened[r]) /\ NodeOf(Opened[r], vm) = Opened[r].nodes[k]
    BY <1>3, NodeFound, TraceAssumption
<1>5. node.vcpu \in VCPUS
    BY <1>2, <1>4 DEF WellFormed, Range
<1>6. node.busy \in Int
    BY <1>2, <1>4, ChannelOK, NumbersAre
<1>7. BusyShare(node.vcpu, node.busy)
    <2>1. CASE node.busy = 0
        BY <1>5, <2>1 DEF BusyShare, Nearest, Percent, VCPUS
    <2>2. CASE node.busy # 0
        <3>. DEFINE c == <<vm, "busyPct">>
        <3>1. PICK i \in DOMAIN Opened[r].channels[c] :
                  c \in DOMAIN Opened[r].channels /\ node.busy = Opened[r].channels[c][i]
            BY <1>2, <1>4, <2>2, ChannelReads
        <3>2. BusyShare(Opened[r].nodes[k].vcpu, Opened[r].channels[c][i])
            BY <1>3, <1>4, <3>1 DEF WellFormed, Range
        <3>. QED BY <1>2, <1>4, <3>1, <3>2
    <2>. QED BY <2>1, <2>2
<1>. HIDE DEF node
<1>8. Sees(node, r, vm)
    BY <1>2, <1>5, <1>6, <1>7 DEF Sees
<1>. QED BY <1>1, <1>8

FacesInv ==
    page = "film" =>
        \A vm \in Nodes : /\ faces[vm].look = Drawing(vm).look
                          /\ Told(faces[vm].drawn) = Told(Drawing(vm).drawn)

(* The stage always has a size the film was laid out for, at a moment of it.  *)
LEMMA StageKnown ==
    StateInv => run \in Runs /\ StageBox \in Stages /\ film.d \in 0 .. AsLong
<1>. SUFFICES ASSUME StateInv PROVE run \in Runs /\ StageBox \in Stages /\ film.d \in 0 .. AsLong
    OBVIOUS
<1>1. run \in Runs /\ ui.box \in Boxes
    BY DEF StateInv, UiOK
<1>2. StageBox \in Stages
    BY <1>1 DEF StageBox, Stages
<1>3. film.d \in 0 .. AsLong
    BY <1>1, AsLongOK DEF StateInv, FilmOK, ClockOK, Clocks
<1>. QED BY <1>1, <1>2, <1>3

(* From one state to the next, a node that looks the same is drawn the same.  *)
LEMMA SameDrawing ==
    ASSUME StateInv, StateInv', run' = run, NEW vm \in Nodes,
           Drawing(vm).look = Drawing(vm)'.look
    PROVE  Told(Drawing(vm).drawn) = Told(Drawing(vm)'.drawn)
<1>. DEFINE m    == Moment[vm]
            dim  == DimNode(Muted, InFocus, vm)
            n    == Moment'[vm]
            dim2 == DimNode(Muted', InFocus', vm)
<1>1. run \in Runs /\ StageBox \in Stages /\ film.d \in 0 .. AsLong
    BY StageKnown
<1>2. StageBox' \in Stages /\ film'.d \in 0 .. AsLong
    <2>1. (StateInv => run \in Runs /\ StageBox \in Stages /\ film.d \in 0 .. AsLong)'
        BY StageKnown, PTL
    <2>. QED BY <2>1
<1>3. vm \in NodeNames(Opened[run])
    BY DEF Nodes, tr
<1>4. Moment = FrameAt[run][StageBox][film.d] /\ Moment' = FrameAt[run][StageBox'][film'.d]
    BY DEF Moment
<1>5. /\ m.name = n.name /\ m.serves = n.serves /\ m.cap = n.cap
      /\ m.instance = n.instance /\ m.vcpu = n.vcpu /\ m.vcpu \in VCPUS
      /\ m.busy \in Int /\ n.busy \in Int
      /\ BusyShare(m.vcpu, m.busy) /\ BusyShare(n.vcpu, n.busy)
    <2>1. m = FrameAt[run][StageBox][film.d][vm] /\ n = FrameAt[run][StageBox'][film'.d][vm]
        BY <1>4
    <2>. HIDE DEF m, n
    <2>2. Sees(m, run, vm)
        BY <1>1, <1>3, <2>1, FrameAtSees
    <2>3. Sees(n, run, vm)
        BY <1>1, <1>2, <1>3, <2>1, FrameAtSees
    <2>. QED BY <2>2, <2>3 DEF Sees
<1>6. /\ Drawing(vm).look = Look(m, url.show, dim, Dense)
      /\ Drawing(vm).drawn = Face(m, url.show, dim, Dense)
    BY DEF Drawing, Portrait
<1>7. /\ Drawing(vm)'.look = Look(n, url'.show, dim2, Dense')
      /\ Drawing(vm)'.drawn = Face(n, url'.show, dim2, Dense')
    BY DEF Drawing, Portrait
<1>. HIDE DEF m, n, dim, dim2
<1>8. Look(m, url.show, dim, Dense) = Look(n, url'.show, dim2, Dense')
    BY <1>6, <1>7
<1>9. Told(Face(m, url.show, dim, Dense)) = Told(Face(n, url'.show, dim2, Dense'))
    BY <1>5, <1>8, SameFace
<1>. QED BY <1>6, <1>7, <1>9

(* What is looked at again is drawn again, if it looks different.             *)
LEMMA PaintedIsFresh ==
    ASSUME StateInv, StateInv', FacesInv, UNCHANGED <<run, page>>, Painted
    PROVE  FacesInv'
<1>. SUFFICES ASSUME page = "film", NEW vm \in Nodes
              PROVE  /\ faces'[vm].look = Drawing(vm)'.look
                     /\ Told(faces'[vm].drawn) = Told(Drawing(vm)'.drawn)
    BY DEF FacesInv, Nodes, tr
<1>1. vm \in DOMAIN faces
    BY DEF StateInv
<1>2. faces'[vm] = Redrawn(faces[vm], Drawing(vm)')
    BY <1>1 DEF Painted
<1>3. faces[vm].look = Drawing(vm).look /\ Told(faces[vm].drawn) = Told(Drawing(vm).drawn)
    BY DEF FacesInv
<1>4. CASE faces[vm].look = Drawing(vm)'.look
    <2>1. Told(Drawing(vm).drawn) = Told(Drawing(vm)'.drawn)
        BY <1>3, <1>4, SameDrawing
    <2>. QED BY <1>2, <1>3, <1>4, <2>1 DEF Redrawn
<1>5. CASE faces[vm].look # Drawing(vm)'.look
    BY <1>2, <1>5 DEF Redrawn
<1>. QED BY <1>4, <1>5

(* What is mounted is drawn from nothing.                                     *)
LEMMA AnewIsFresh ==
    ASSUME faces' = Anew'
    PROVE  FacesInv'
BY DEF Anew, FacesInv

(* What no drawing depends on may change without a node being drawn again.    *)
LEMMA UntouchedIsFresh ==
    ASSUME FacesInv, UNCHANGED <<run, page, against, faces>>, film'.d = film.d,
           ui'.box = ui.box, ui'.zone = ui.zone, ui'.role = ui.role,
           ui'.pinned = ui.pinned, ui'.hovered = ui.hovered, url'.show = url.show
    PROVE  FacesInv'
<1>1. StageBox' = StageBox
    BY DEF StageBox
<1>2. Pictured' = Pictured /\ Moment' = Moment /\ InFocus' = InFocus
    BY <1>1 DEF Pictured, Moment, InFocus
<1>3. Dense' = Dense
    BY <1>1, <1>2 DEF Dense
<1>4. Muted' = Muted
    BY DEF Muted, SetAside, tr
<1>5. \A vm : Drawing(vm)'.look = Drawing(vm).look /\ Drawing(vm)'.drawn = Drawing(vm).drawn
    BY <1>2, <1>3, <1>4 DEF Drawing, Portrait
<1>. QED BY <1>5 DEF FacesInv, Nodes, tr

(* The overview has no faces.                                                 *)
LEMMA OffStageIsFresh == page' = "overview" => FacesInv'
BY DEF FacesInv

(* Every step of the viewer leaves the faces fresh.                           *)
LEMMA FacesStep ==
    StateInv /\ StateInv' /\ FacesInv /\ [Next]_vars => FacesInv'
<1>. SUFFICES ASSUME StateInv, StateInv', FacesInv, [Next]_vars PROVE FacesInv'
    OBVIOUS
<1>1. CASE GoFilm \/ GoOverview \/ \E r \in Runs : OpenRun(r)
    <2>1. CASE GoFilm
        BY <2>1, AnewIsFresh DEF GoFilm
    <2>2. CASE GoOverview
        BY <2>2, OffStageIsFresh DEF GoOverview
    <2>3. ASSUME NEW r \in Runs, OpenRun(r) PROVE FacesInv'
        BY <2>3, AnewIsFresh DEF OpenRun
    <2>. QED BY <1>1, <2>1, <2>2, <2>3
<1>2. CASE Key \/ Scrub \/ FilmTick
    BY <1>2, PaintedIsFresh DEF Key, Scrub, FilmTick, Others
<1>3. CASE ConsoleTick
    BY <1>3, UntouchedIsFresh DEF ConsoleTick, Others
<1>4. CASE \/ Hover \/ (\E vm \in Nodes : Pin(vm)) \/ ClosePanel \/ (\E key : Nominate(key))
           \/ SetFilter \/ Clear \/ (\E box \in Boxes : Resize(box)) \/ Escape
    <2>1. Painted /\ UNCHANGED Rest
        BY <1>4 DEF Hover, Pin, ClosePanel, Nominate, SetFilter, Clear, Resize, Escape
    <2>. QED BY <2>1, PaintedIsFresh DEF Rest
<1>5. CASE HoldMessage
    <2>1. UNCHANGED <<run, page, film, against, url, faces>>
        BY <1>5 DEF HoldMessage, Rest
    <2>2. PICK message : ui' = [ui EXCEPT !.held = message]
        BY <1>5 DEF HoldMessage
    <2>3. /\ ui'.box = ui.box /\ ui'.zone = ui.zone /\ ui'.role = ui.role
          /\ ui'.pinned = ui.pinned /\ ui'.hovered = ui.hovered
        BY <2>2 DEF StateInv, UiOK
    <2>. QED BY <2>1, <2>3, UntouchedIsFresh
<1>6. CASE (\E r \in Runs : Compare(r) \/ CompareFailed(r)) \/ DrawFrame \/ Still \/ StillSaved
           \/ SaveFails
    <2>1. UNCHANGED <<run, page, against, faces, film, ui, url>>
        BY <1>6 DEF Compare, CompareFailed, DrawFrame, Still, StillSaved, SaveFails, filmVars
    <2>. QED BY <2>1, UntouchedIsFresh
<1>7. CASE CompareNone \/ \E r \in Runs : CompareAnswered(r)
    <2>1. PICK other : Remounted(other) /\ UNCHANGED <<run, page>>
        BY <1>7 DEF CompareNone, CompareAnswered
    <2>2. CASE against = other
        <3>1. UNCHANGED <<run, page, against, faces, film, ui, url>>
            BY <2>1, <2>2 DEF Remounted, filmVars
        <3>. QED BY <3>1, UntouchedIsFresh
    <2>3. CASE against # other
        BY <2>1, <2>3, AnewIsFresh DEF Remounted
    <2>. QED BY <2>2, <2>3
<1>8. CASE Download
    <2>1. film'.d = film.d
        BY <1>8, PauseOK DEF Download, StateInv, FilmOK
    <2>2. url'.show = url.show
        BY <1>8 DEF Download, Parked, StateInv, UrlOK
    <2>. QED BY <1>8, <2>1, <2>2, UntouchedIsFresh DEF Download
<1>9. CASE ShowFrame
    BY <1>9, PaintedIsFresh DEF ShowFrame
<1>10. CASE \/ \E i \in DOMAIN Tree[run].span : Collapse(i) \/ Select(i)
            \/ Filter \/ (\E at \in 0 .. Long : Zoom(at) \/ DoubleClick(at)) \/ Pan \/ ShowAll
    <2>1. page' = "overview"
        BY <1>10 DEF Collapse, Select, Filter, Zoom, DoubleClick, Pan, ShowAll, OnSpans, Asks
    <2>. QED BY <2>1, OffStageIsFresh
<1>11. CASE UNCHANGED vars
    BY <1>11, UntouchedIsFresh DEF vars
<1>. QED BY <1>1, <1>2, <1>3, <1>4, <1>5, <1>6, <1>7, <1>8, <1>9, <1>10, <1>11 DEF Next

(* The overview is what a reader sees first, and has no faces.                *)
LEMMA FacesInit == Init => FacesInv
BY DEF Init, Anew, FacesInv

(* A node that React does not draw again - because nothing it compares has     *)
(* changed - says what it would if it had been drawn: its words to the last    *)
(* digit of its headroom, its lines and the number of its slots that are lit,  *)
(* on every type of the catalogue, for runs, nodes, disks and stages of every  *)
(* kind (FacesAreFresh of run "player").                                       *)
THEOREM NoStaleFace == Spec => []FacesAreFresh
<1>1. StateInv /\ FacesInv => FacesAreFresh
    BY DEF StateInv, FacesInv, FacesAreFresh
<1>2. Spec => []FacesInv
    BY FacesInit, FacesStep, StateInvariant, PTL DEF Spec
<1>. QED BY <1>1, <1>2, StateInvariant, PTL

-----------------------------------------------------------------------------
(* The bill: how much of a line has arrived.                                   *)

(* Whatever is cut off at both ends is a part of the whole. *)
LEMMA ClampOK ==
    ASSUME NEW part \in Int
    PROVE  Clamp(part) \in 0 .. Whole
<1>1. Whole \in Int /\ 0 <= Whole
    BY DEF Whole
<1>. HIDE DEF Whole
<1>2. Min({Whole, part}) = IF Whole <= part THEN Whole ELSE part
    BY <1>1, MinOfTwo
<1>3. Max({0, Min({Whole, part})}) = IF 0 >= Min({Whole, part}) THEN 0 ELSE Min({Whole, part})
    BY <1>1, <1>2, MaxOfTwo
<1>. QED BY <1>1, <1>2, <1>3 DEF Clamp

(* The time that has passed is a part of the whole.                           *)
LEMMA ShareOK ==
    ASSUME NEW t \in Int, NEW of \in Nat \ {0}
    PROVE  Share(t, of) \in 0 .. Whole
<1>1. (Whole * t) \div of \in Int
    BY DEF Whole
<1>. QED BY <1>1, ClampOK DEF Share

(* A level of the cluster, and the area under one, are not negative. *)
LEMMA LevelOK ==
    ASSUME NEW trace, WellFormed(trace), NEW metric, metric \notin SIGNED,
           NEW i \in Nat \ {0}
    PROVE  Level(trace, metric, i) \in Nat
<1>. DEFINE at == [vm \in NodeNames(trace) |-> Series(trace, vm, metric, i)]
<1>1. IsFiniteSet(NodeNames(trace))
    <2>1. IsList(trace.nodes)
        BY DEF WellFormed
    <2>. DEFINE name == [k \in DOMAIN trace.nodes |-> trace.nodes[k].name]
    <2>2. name \in Surjection(DOMAIN trace.nodes, NodeNames(trace))
        BY DEF Surjection, NodeNames, Range
    <2>3. IsFiniteSet(DOMAIN trace.nodes)
        BY <2>1, ListDomain
    <2>. QED BY <2>2, <2>3, FS_Surjection
<1>2. \A vm \in NodeNames(trace) : at[vm] \in Nat
    BY SeriesOK, NumbersAre
<1>3. SumFunctionOnSet(at, NodeNames(trace)) \in Nat
    BY <1>1, <1>2, SumNatural
<1>. QED BY <1>3 DEF Level, SumFunction

(* The area under a series from the first sample to another.                  *)
LEMMA AreaOK ==
    ASSUME NEW trace, WellFormed(trace), NEW metric, metric \notin SIGNED,
           NEW i \in DOMAIN trace.times
    PROVE  Area(trace, metric, i) \in Nat
<1>. DEFINE strip(k) == (Level(trace, metric, k) + Level(trace, metric, k - 1))
                        * (trace.times[k] - trace.times[k - 1])
            strips == [k \in 2 .. i |-> strip(k)]
<1>1. i \in Nat /\ DOMAIN trace.times = 1 .. Len(trace.times) /\ Len(trace.times) \in Nat
    BY ListDomain DEF WellFormed
<1>2. ASSUME NEW k \in 2 .. i PROVE strip(k) \in Nat
    <2>1. k \in DOMAIN trace.times /\ k - 1 \in DOMAIN trace.times /\ k - 1 < k
        BY <1>1
    <2>2. trace.times[k] - trace.times[k - 1] \in Nat
        BY <2>1 DEF WellFormed
    <2>3. Level(trace, metric, k) \in Nat /\ Level(trace, metric, k - 1) \in Nat
        BY <1>1, LevelOK
    <2>4. \A a, b, c \in Nat : (a + b) * c \in Nat
        OBVIOUS
    <2>. QED BY <2>2, <2>3, <2>4
<1>3. IsFiniteSet(2 .. i)
    BY <1>1, FS_Interval
<1>4. SumFunctionOnSet(strips, 2 .. i) \in Nat
    BY <1>2, <1>3, SumNatural
<1>. QED BY <1>4 DEF Area, SumFunction

(* Between the first sample and the last, an instant lies between two that     *)
(* follow one another.                                                        *)
LEMMA Between ==
    ASSUME NEW trace, WellFormed(trace), NEW t \in Int, Len(trace.times) # 0,
           trace.times[1] < t, t < trace.times[Len(trace.times)], NEW begun,
           \A i : i \in begun <=> i \in 1 .. Len(trace.times) /\ trace.times[i] <= t
    PROVE  \E lo \in Nat :
               /\ lo = Max(begun)
               /\ lo \in DOMAIN trace.times /\ lo + 1 \in DOMAIN trace.times
               /\ trace.times[lo] \in Nat /\ trace.times[lo + 1] \in Nat
               /\ trace.times[lo] <= t /\ t < trace.times[lo + 1]
<1>1. /\ Len(trace.times) \in Nat \ {0} /\ DOMAIN trace.times = 1 .. Len(trace.times)
      /\ \A i \in DOMAIN trace.times : trace.times[i] \in Nat
    BY ListDomain DEF WellFormed
<1>2. begun \in SUBSET Int /\ IsFiniteSet(begun) /\ begun # {}
    <2>1. IsFiniteSet(1 .. Len(trace.times)) /\ begun \in SUBSET (1 .. Len(trace.times))
        BY <1>1, FS_Interval
    <2>2. 1 \in begun
        BY <1>1
    <2>. QED BY <1>1, <2>1, <2>2, FS_Subset
<1>3. PICK lo \in begun : lo = Max(begun) /\ \A i \in begun : i <= lo
    BY <1>2, FiniteMax
<1>4. lo \in 1 .. Len(trace.times) /\ trace.times[lo] <= t
    BY <1>3
<1>5. lo # Len(trace.times)
    BY <1>1, <1>4
<1>6. lo + 1 \in 1 .. Len(trace.times)
    BY <1>1, <1>4, <1>5
<1>7. lo + 1 \notin begun
    BY <1>3, <1>4
<1>. QED BY <1>1, <1>3, <1>4, <1>6, <1>7

(* What follows a series is a part of the whole.                              *)
LEMMA FollowOK ==
    ASSUME NEW trace, WellFormed(trace), NEW value, NEW t \in Int,
           \A i \in DOMAIN trace.times : value[i] \in Nat
    PROVE  Follow(trace, value, t) \in 0 .. Whole
<1>. DEFINE times == trace.times
            n     == Len(times)
            end   == IF value[n] = 0 THEN 1 ELSE value[n]
            lo    == Max({i \in 1..n : times[i] <= t})
            gap   == times[lo + 1] - times[lo]
            part  == Whole * (value[lo] * gap + (value[lo + 1] - value[lo]) * (t - times[lo]))
<1>1. n \in Nat /\ DOMAIN times = 1 .. n
    BY ListDomain DEF WellFormed
<1>2. CASE n = 0
    BY <1>2 DEF Follow, Whole
<1>3. CASE n # 0
    <2>1. 1 \in DOMAIN times /\ n \in DOMAIN times /\ end \in Nat \ {0}
        BY <1>1, <1>3
    <2>2. CASE t <= times[1] \/ t >= times[n]
        <3>1. /\ (Whole * value[1]) \div end \in Int /\ (Whole * value[n]) \div end \in Int
              /\ 0 \in 0 .. Whole
            BY <2>1 DEF Whole
        <3>2. /\ Clamp((Whole * value[1]) \div end) \in 0 .. Whole
              /\ Clamp((Whole * value[n]) \div end) \in 0 .. Whole
            BY <3>1, ClampOK
        <3>. QED BY <2>2, <3>1, <3>2 DEF Follow
    <2>3. CASE ~(t <= times[1] \/ t >= times[n])
        <3>1. times[1] \in Nat /\ times[n] \in Nat
            BY <2>1 DEF WellFormed
        <3>2. times[1] < t /\ t < times[n]
            BY <2>3, <3>1
        <3>. HIDE DEF lo
        <3>3. /\ lo \in DOMAIN times /\ lo + 1 \in DOMAIN times
              /\ times[lo] \in Nat /\ times[lo + 1] \in Nat
              /\ times[lo] <= t /\ t < times[lo + 1]
            <4>. DEFINE begun == {i \in 1..n : times[i] <= t}
            <4>1. \A i : i \in begun <=> i \in 1 .. Len(trace.times) /\ trace.times[i] <= t
                OBVIOUS
            <4>2. lo = Max(begun)
                BY DEF lo
            <4>. HIDE DEF begun
            <4>. QED BY <1>3, <3>2, <4>1, <4>2, Between
        <3>6. gap \in Nat \ {0} /\ times[lo] \in Nat
            BY <3>3
        <3>7. value[lo] \in Nat /\ value[lo + 1] \in Nat
            BY <3>3
        <3>. HIDE DEF gap, end
        <3>8. \A a, b, u \in Int, g \in Int : Whole * (a * g + (b - a) * u) \in Int
            BY DEF Whole
        <3>9. part \in Int
            <4>1. t - times[lo] \in Int
                BY <3>6
            <4>2. value[lo] \in Int /\ value[lo + 1] \in Int /\ gap \in Int
                BY <3>6, <3>7
            <4>. QED BY <4>1, <4>2, <3>8
        <3>10. gap * end \in Nat \ {0}
            <4>1. \A a, b \in Nat \ {0} : a * b \in Nat \ {0}
                OBVIOUS
            <4>. QED BY <4>1, <3>6, <2>1
        <3>. HIDE DEF part
        <3>11. part \div (gap * end) \in Int
            BY <3>9, <3>10
        <3>12. Clamp(part \div (gap * end)) \in 0 .. Whole
            BY <3>11, ClampOK
        <3>13. Follow(trace, value, t) = Clamp(part \div (gap * end))
            BY <1>3, <2>3 DEF Follow, part, gap, end, lo
        <3>. QED BY <3>12, <3>13
    <2>. QED BY <2>2, <2>3
<1>. QED BY <1>2, <1>3

(* The traffic so far, as a part of all of it. *)
LEMMA EgressOK ==
    ASSUME NEW trace, WellFormed(trace), NEW t \in Int
    PROVE  Egress(trace, t) \in 0 .. Whole
<1>1. Cumulative(trace, t) \in 0 .. Whole
    <2>. DEFINE value == [i \in DOMAIN trace.times |-> Level(trace, "bytesOutMb", i)]
    <2>1. \A i \in DOMAIN trace.times : i \in Nat \ {0}
        BY ListDomain DEF WellFormed
    <2>2. \A i \in DOMAIN trace.times : value[i] \in Nat
        BY <2>1, LevelOK DEF SIGNED
    <2>. HIDE DEF value
    <2>3. Follow(trace, value, t) \in 0 .. Whole
        BY <2>2, FollowOK
    <2>. QED BY <2>3 DEF Cumulative, value
<1>2. Share(t, Duration(trace)) \in 0 .. Whole
    BY DurationOK, ShareOK
<1>. QED BY <1>1, <1>2 DEF Egress

(* How much of a line has arrived: a part of the whole. *)
LEMMA ShapeOK ==
    ASSUME NEW trace, WellFormed(trace), NEW bill, IsBill(bill), NEW line, NEW t \in Int
    PROVE  Shape(trace, bill, line, t) \in 0 .. Whole
<1>1. Integral(trace, t) \in 0 .. Whole
    <2>. DEFINE value == [i \in DOMAIN trace.times |-> Area(trace, "diskMb", i)]
    <2>1. \A i \in DOMAIN trace.times : value[i] \in Nat
        BY AreaOK DEF SIGNED
    <2>. HIDE DEF value
    <2>2. Follow(trace, value, t) \in 0 .. Whole
        BY <2>1, FollowOK
    <2>. QED BY <2>2 DEF Integral, value
<1>2. Share(t, Duration(trace)) \in 0 .. Whole
    BY DurationOK, ShareOK
<1>3. BilledRefMs(trace) \in Nat \ {0}
    BY MaxOfTwo DEF BilledRefMs, WellFormed
<1>4. Max({bill.minimum, BilledRefMs(trace)}) \in Nat \ {0} /\ Max({bill.minimum, t}) \in Int
    BY <1>3, MaxOfTwo DEF IsBill
<1>5. Share(Max({bill.minimum, t}), Max({bill.minimum, BilledRefMs(trace)})) \in 0 .. Whole
    BY <1>4, ShareOK
<1>6. Egress(trace, t) \in 0 .. Whole
    BY EgressOK
<1>. QED BY <1>1, <1>2, <1>5, <1>6 DEF Shape

(* The money of a line so far. *)
LEMMA SoFarOK ==
    ASSUME NEW trace, WellFormed(trace), NEW bill, IsBill(bill), NEW i \in DOMAIN bill.lines,
           NEW t \in Int
    PROVE  SoFar(trace, bill, bill.lines[i], t) \in Nat
<1>. DEFINE line == bill.lines[i]
            part == Shape(trace, bill, line, t)
<1>1. line.amount \in Nat /\ part \in Nat
    <2>1. line.amount \in Nat
        BY DEF IsBill
    <2>2. part \in 0 .. Whole
        BY ShapeOK
    <2>. QED BY <2>1, <2>2 DEF Whole
<1>. HIDE DEF part
<1>2. \A a, b \in Nat : (a * b) \div Whole \in Nat
    <2>1. \A a, b \in Nat : a * b \in Nat
        OBVIOUS
    <2>2. \A c \in Nat : c \div 1200 \in Nat
        OBVIOUS
    <2>. QED BY <2>1, <2>2 DEF Whole
<1>. QED BY <1>1, <1>2 DEF SoFar, part

(* As many times the same. *)
LEMMA SumConstant ==
    ASSUME NEW S, IsFiniteSet(S), NEW f, NEW a \in Int, \A x \in S : f[x] = a
    PROVE  SumFunctionOnSet(f, S) = Cardinality(S) * a
<1>. DEFINE Good == {U \in SUBSET S : SumFunctionOnSet(f, U) = Cardinality(U) * a}
<1>1. {} \in Good
    BY SumNone, FS_EmptySet
<1>2. ASSUME NEW U \in Good, NEW x \in S \ U PROVE U \cup {x} \in Good
    <2>1. IsFiniteSet(U) /\ Cardinality(U) \in Nat /\ Cardinality(U \cup {x}) = Cardinality(U) + 1
        BY FS_Subset, FS_AddElement, FS_CardinalityType
    <2>2. \A y \in U \cup {x} : f[y] \in Int
        OBVIOUS
    <2>3. SumFunctionOnSet(f, U \cup {x}) = a + SumFunctionOnSet(f, U)
        BY <2>1, <2>2, SumAdd
    <2>4. \A n \in Nat : a + n * a = (n + 1) * a
        OBVIOUS
    <2>. QED BY <2>1, <2>3, <2>4
<1>. HIDE DEF Good
<1>3. S \in Good
    BY <1>1, <1>2, FiniteInduction DEF Good
<1>. QED BY <1>3 DEF Good

(* Nothing, however often. *)
LEMMA SumZero ==
    ASSUME NEW S, IsFiniteSet(S), NEW f, \A x \in S : f[x] = 0
    PROVE  SumFunctionOnSet(f, S) = 0
<1>1. 0 \in Int /\ Cardinality(S) \in Nat
    BY FS_CardinalityType
<1>2. SumFunctionOnSet(f, S) = Cardinality(S) * 0
    BY <1>1, SumConstant
<1>. QED BY <1>1, <1>2

(* Nothing but one term, and that within bounds. *)
LEMMA SumPoint ==
    ASSUME NEW S, IsFiniteSet(S), NEW W \in Nat, NEW f, \A x \in S : f[x] \in 0 .. W,
           \A x, y \in S : f[x] # 0 /\ f[y] # 0 => x = y
    PROVE  SumFunctionOnSet(f, S) \in 0 .. W
<1>1. CASE \A x \in S : f[x] = 0
    <2>1. SumFunctionOnSet(f, S) = Cardinality(S) * 0
        BY <1>1, SumConstant
    <2>2. Cardinality(S) \in Nat
        BY FS_CardinalityType
    <2>. QED BY <2>1, <2>2
<1>2. CASE \E a \in S : f[a] # 0
    <2>1. PICK a \in S : f[a] # 0
        BY <1>2
    <2>2. \A x \in S \ {a} : f[x] = 0
        BY <2>1
    <2>3. IsFiniteSet(S \ {a}) /\ Cardinality(S \ {a}) \in Nat
        BY FS_RemoveElement, FS_CardinalityType
    <2>4. SumFunctionOnSet(f, S \ {a}) = Cardinality(S \ {a}) * 0
        BY <2>2, <2>3, SumConstant
    <2>5. SumFunctionOnSet(f, S) = f[a] + SumFunctionOnSet(f, S \ {a})
        BY SumWithout
    <2>. QED BY <2>3, <2>4, <2>5
<1>. QED BY <1>1, <1>2

(* What is divided in proportion, rounded down, is no more than there is.      *)
LEMMA SumShares ==
    ASSUME NEW S, IsFiniteSet(S), NEW W \in Nat, NEW C \in Nat \ {0}, NEW c, NEW f,
           \A x \in S : c[x] \in Nat /\ f[x] = (W * c[x]) \div C
    PROVE  /\ \A x \in S : f[x] \in Nat
           /\ SumFunctionOnSet(f, S) \in Nat
           /\ C * SumFunctionOnSet(f, S) <= W * SumFunctionOnSet(c, S)
<1>. DEFINE F(U) == SumFunctionOnSet(f, U)
            G(U) == SumFunctionOnSet(c, U)
            Good == {U \in SUBSET S : C * F(U) <= W * G(U)}
<1>1. \A a \in Nat : (W * a) \div C \in Nat /\ C * ((W * a) \div C) <= W * a
    <2>1. \A a \in Nat : W * a \in Nat
        OBVIOUS
    <2>2. \A a \in Nat : a \div C \in Nat /\ C * (a \div C) <= a
        OBVIOUS
    <2>. QED BY <2>1, <2>2
<1>2. \A x \in S : f[x] \in Nat /\ C * f[x] <= W * c[x]
    BY <1>1
<1>3. {} \in Good
    BY SumNone
<1>4. ASSUME NEW U \in Good, NEW x \in S \ U PROVE U \cup {x} \in Good
    <2>1. IsFiniteSet(U)
        BY FS_Subset
    <2>2. /\ \A y \in U \cup {x} : f[y] \in Int
          /\ \A y \in U \cup {x} : c[y] \in Int
          /\ \A y \in U : f[y] \in Nat
          /\ \A y \in U : c[y] \in Nat
        BY <1>2
    <2>3. F(U \cup {x}) = f[x] + F(U)
        BY <2>1, <2>2, SumAdd
    <2>4. G(U \cup {x}) = c[x] + G(U)
        BY <2>1, <2>2, SumAdd
    <2>5. F(U) \in Nat /\ G(U) \in Nat
        BY <2>1, <2>2, SumNatural
    <2>6. \A a, b \in Nat : C * (a + b) = C * a + C * b /\ W * (a + b) = W * a + W * b
        OBVIOUS
    <2>7. f[x] \in Nat /\ c[x] \in Nat /\ C * f[x] <= W * c[x]
        BY <1>2
    <2>8. C * F(U) <= W * G(U)
        OBVIOUS
    <2>9. \A a, b \in Nat : C * a \in Nat /\ W * b \in Nat
        OBVIOUS
    <2>10. C * F(U \cup {x}) = C * f[x] + C * F(U)
        BY <2>3, <2>5, <2>6, <2>7
    <2>11. W * G(U \cup {x}) = W * c[x] + W * G(U)
        BY <2>4, <2>5, <2>6, <2>7
    <2>12. C * f[x] \in Nat /\ C * F(U) \in Nat /\ W * c[x] \in Nat /\ W * G(U) \in Nat
        BY <2>5, <2>7, <2>9
    <2>. HIDE DEF F, G
    <2>13. C * F(U \cup {x}) <= W * G(U \cup {x})
        BY <2>7, <2>8, <2>10, <2>11, <2>12
    <2>. QED BY <2>13
<1>. HIDE DEF Good
<1>5. S \in Good
    BY <1>3, <1>4, FiniteInduction DEF Good
<1>6. SumFunctionOnSet(f, S) \in Nat
    BY <1>2, SumNatural
<1>. QED BY <1>2, <1>5, <1>6 DEF Good

(* The terms may be named anew. *)
LEMMA SumRenamed ==
    ASSUME NEW S, IsFiniteSet(S), NEW f, \A x \in S : f[x] \in Int,
           NEW T, IsFiniteSet(T), NEW col, \A x \in S : col[x] \in T,
           \A x, y \in S : col[x] = col[y] => x = y,
           \A c \in T : \E x \in S : col[x] = c,
           NEW g, \A x \in S : g[col[x]] = f[x]
    PROVE  SumFunctionOnSet(g, T) = SumFunctionOnSet(f, S)
<1>. DEFINE one == [c \in T |-> {x \in S : col[x] = c}]
<1>1. ASSUME NEW c \in T PROVE g[c] = SumFunctionOnSet(f, one[c])
    <2>1. PICK x \in S : col[x] = c
        OBVIOUS
    <2>2. one[c] = {x}
        BY <2>1
    <2>3. g[c] = f[x] /\ f[x] \in Int
        BY <2>1
    <2>4. SumFunctionOnSet(f, {x}) = f[x]
        BY <2>3, SumOne
    <2>. QED BY <2>2, <2>3, <2>4
<1>2. \A c \in T : one[c] \in SUBSET S /\ \A x \in S : x \in one[c] <=> col[x] = c
    OBVIOUS
<1>. HIDE DEF one
<1>. QED BY <1>1, <1>2, SumGathered

(* A table: cells S, each in a row and a column of its own; what is in which   *)
(* column of a row, and what a row comes to.                                  *)
Table(S, f, K, row, T, col, in, cell, g) ==
    /\ IsFiniteSet(S) /\ \A x \in S : f[x] \in Int /\ row[x] \in K /\ col[x] \in T
    /\ IsFiniteSet(K) /\ IsFiniteSet(T)
    /\ \A x, y \in S : row[x] = row[y] /\ col[x] = col[y] => x = y
    /\ \A k \in K : /\ in[k] \in SUBSET T
                   /\ \A c \in T : c \in in[k] <=> \E x \in S : row[x] = k /\ col[x] = c
    /\ \A x \in S : cell[row[x]][col[x]] = f[x]
    /\ \A k \in K : g[k] = SumFunctionOnSet(cell[k], in[k])

(* It may be added up row by row. *)
LEMMA SumRows ==
    ASSUME NEW S, NEW f, NEW K, NEW row, NEW T, NEW col, NEW in, NEW cell, NEW g,
           Table(S, f, K, row, T, col, in, cell, g)
    PROVE  SumFunctionOnSet(g, K) = SumFunctionOnSet(f, S)
<1>. DEFINE at == [k \in K |-> {y \in S : row[y] = k}]
<1>1. \A k \in K : at[k] \in SUBSET S /\ \A x \in S : x \in at[k] <=> row[x] = k
    OBVIOUS
<1>. HIDE DEF at
<1>2. ASSUME NEW k \in K PROVE g[k] = SumFunctionOnSet(f, at[k])
    <2>. DEFINE U == at[k]
                J == in[k]
                c == cell[k]
    <2>1. IsFiniteSet(U) /\ IsFiniteSet(J)
        BY <1>1, FS_Subset DEF Table
    <2>2. \A x \in U : f[x] \in Int /\ col[x] \in J /\ c[col[x]] = f[x]
        BY <1>1 DEF Table
    <2>3. \A x, y \in U : col[x] = col[y] => x = y
        BY <1>1 DEF Table
    <2>4. \A j \in J : \E x \in U : col[x] = j
        BY <1>1 DEF Table
    <2>. HIDE DEF U, J, c
    <2>5. SumFunctionOnSet(c, J) = SumFunctionOnSet(f, U)
        BY <2>1, <2>2, <2>3, <2>4, SumRenamed
    <2>. QED BY <2>5 DEF Table, U, J, c
<1>3. IsFiniteSet(S) /\ IsFiniteSet(K) /\ \A x \in S : f[x] \in Int /\ row[x] \in K
    BY DEF Table
<1>. QED BY <1>1, <1>2, <1>3, SumGathered

-----------------------------------------------------------------------------
(* The bill: who is answerable for it.                                         *)

(* One node held the most, the first in the file of those that did.           *)
LEMMA OneWorst ==
    ASSUME NEW trace, WellFormed(trace), NEW j \in DOMAIN trace.nodes, NEW k \in DOMAIN trace.nodes,
           trace.nodes[j].name \in WorstDisk(trace), trace.nodes[k].name \in WorstDisk(trace)
    PROVE  j = k
<1>1. DOMAIN trace.nodes \in SUBSET Nat
    BY ListDomain DEF WellFormed
<1>2. \A i \in DOMAIN trace.nodes : trace.nodes[i].disk \in Nat
    BY DEF WellFormed, Range
<1>3. \A a, b \in DOMAIN trace.nodes : trace.nodes[a].name = trace.nodes[b].name => a = b
    BY DEF WellFormed
<1>4. ASSUME NEW i \in DOMAIN trace.nodes, trace.nodes[i].name \in WorstDisk(trace)
      PROVE  \A a \in DOMAIN trace.nodes :
                 \/ trace.nodes[a].disk < trace.nodes[i].disk
                 \/ trace.nodes[a].disk = trace.nodes[i].disk /\ a >= i
    <2>1. PICK b \in DOMAIN trace.nodes :
              /\ trace.nodes[b].name = trace.nodes[i].name
              /\ \A a \in DOMAIN trace.nodes :
                     \/ trace.nodes[a].disk < trace.nodes[b].disk
                     \/ trace.nodes[a].disk = trace.nodes[b].disk /\ a >= b
        <3>. DEFINE held(n) == trace.nodes[n].disk
                    worst == {n \in DOMAIN trace.nodes : held(n) > 0 /\
                        \A j2 \in DOMAIN trace.nodes :
                            held(j2) < held(n) \/ (held(j2) = held(n) /\ j2 >= n)}
        <3>1. trace.nodes[i].name \in {trace.nodes[n].name : n \in worst}
            BY <1>4, Zenon DEF WorstDisk
        <3>2. PICK b \in worst : trace.nodes[b].name = trace.nodes[i].name
            BY <3>1
        <3>. QED BY <3>2
    <2>. QED BY <1>3, <2>1
<1>. QED BY <1>1, <1>2, <1>4

(* The services of a run, and a node's: finitely many.                         *)
LEMMA ServicesOK ==
    ASSUME NEW trace, WellFormed(trace)
    PROVE  /\ IsFiniteSet(DOMAIN trace.nodes) /\ IsFiniteSet(Services(trace))
           /\ \A k \in DOMAIN trace.nodes : Range(trace.nodes[k].serves) \in SUBSET Services(trace)
<1>1. IsFiniteSet(DOMAIN trace.nodes)
    BY ListDomain DEF WellFormed
<1>. DEFINE offers == {Range(m.serves) : m \in Range(trace.nodes)}
            g == [k \in DOMAIN trace.nodes |-> Range(trace.nodes[k].serves)]
<1>2. g \in Surjection(DOMAIN trace.nodes, offers)
    <2>1. /\ \A k \in DOMAIN trace.nodes : trace.nodes[k] \in Range(trace.nodes)
          /\ \A m \in Range(trace.nodes) : \E k \in DOMAIN trace.nodes : m = trace.nodes[k]
        BY DEF Range
    <2>2. \A k \in DOMAIN trace.nodes : g[k] \in offers
        BY <2>1
    <2>3. \A T \in offers : \E k \in DOMAIN trace.nodes : g[k] = T
        BY <2>1
    <2>4. g \in [DOMAIN trace.nodes -> offers]
        BY <2>2
    <2>. HIDE DEF g, offers
    <2>. QED BY <2>3, <2>4 DEF Surjection
<1>3. IsFiniteSet(offers)
    BY <1>1, <1>2, FS_Surjection
<1>4. \A m \in Range(trace.nodes) : IsFiniteSet(Range(m.serves))
    BY FiniteRange DEF WellFormed
<1>5. \A T \in offers : IsFiniteSet(T)
    BY <1>4
<1>6. Services(trace) = UNION offers
    BY DEF Services
<1>7. \A k \in DOMAIN trace.nodes : Range(trace.nodes[k].serves) \in offers
    <2>. TAKE k \in DOMAIN trace.nodes
    <2>1. trace.nodes[k] \in Range(trace.nodes)
        BY DEF Range
    <2>. QED BY <2>1
<1>. HIDE DEF offers
<1>. QED BY <1>1, <1>3, <1>5, <1>6, <1>7, FS_UNION

(* A service is divided among those that offer it, and all services together   *)
(* are the whole.                                                             *)
LEMMA BuildIsShared ==
    ASSUME NEW trace, WellFormed(trace), NEW line, Classify(line) = "build",
           NEW mine, \A k \in DOMAIN trace.nodes : mine[k] = Blame(trace, line, trace.nodes[k].name)
    PROVE  /\ \A k \in DOMAIN trace.nodes : mine[k] \in Nat
           /\ SumFunctionOnSet(mine, DOMAIN trace.nodes) <= Whole
<1>. DEFINE D      == DOMAIN trace.nodes
            of(k)  == Range(trace.nodes[k].serves)
            all    == Services(trace)
            by(s)  == OfferedBy(trace, s)
            count  == Max({1, Cardinality(all)})
            a      == [s \in all |-> Whole \div (Cardinality(by(s)) * count)]
            P      == {p \in D \X all : p[2] \in of(p[1])}
            f      == [p \in P |-> a[p[2]]]
            node   == [p \in P |-> p[1]]
            serv   == [p \in P |-> p[2]]
            ofs    == [k \in D |-> of(k)]
            bys    == [s \in all |-> by(s)]
            cells  == [k \in D |-> [s \in of(k) |-> a[s]]]
            turned == [s \in all |-> [k \in by(s) |-> a[s]]]
            each   == [s \in all |-> SumFunctionOnSet(turned[s], bys[s])]
<1>1. IsFiniteSet(D) /\ IsFiniteSet(all) /\ \A k \in D : of(k) \in SUBSET all
    BY ServicesOK
<1>2. Cardinality(all) \in Nat /\ count \in Nat \ {0} /\ Cardinality(all) <= count
    <2>1. Cardinality(all) \in Nat
        BY <1>1, FS_CardinalityType
    <2>. QED BY <2>1, MaxOfTwo
<1>. HIDE DEF count, all
<1>3. \A s \in all : /\ by(s) \in SUBSET D /\ by(s) # {} /\ IsFiniteSet(by(s))
                     /\ Cardinality(by(s)) \in Nat \ {0}
    <2>. TAKE s \in all
    <2>1. by(s) \in SUBSET D
        BY DEF OfferedBy
    <2>2. by(s) # {}
        BY DEF all, Services, OfferedBy, Range
    <2>. HIDE DEF by
    <2>. QED BY <1>1, <2>1, <2>2, FS_Subset, FS_CardinalityType, FS_EmptySet
<1>4. \A n, c \in Nat \ {0} : Whole \div (n * c) \in Nat /\ n * (Whole \div (n * c)) <= Whole \div c
    <2>. SUFFICES ASSUME NEW n \in Nat \ {0}, NEW c \in Nat \ {0}
                  PROVE  /\ Whole \div (n * c) \in Nat
                         /\ n * (Whole \div (n * c)) <= Whole \div c
        OBVIOUS
    <2>1. Whole \in Nat /\ n * c \in Nat \ {0}
        BY DEF Whole
    <2>. DEFINE q == Whole \div (n * c)
    <2>. HIDE DEF Whole
    <2>2. q \in Nat /\ q * (n * c) <= Whole
        BY <2>1
    <2>. HIDE DEF q
    <2>3. (n * q) * c <= Whole /\ n * q \in Nat
        BY <2>2
    <2>4. \A m \in Nat : m * c <= Whole => m <= Whole \div c
        BY <2>1
    <2>. QED BY <2>2, <2>3, <2>4 DEF q
<1>. HIDE DEF D, of, by
<1>5. \A s \in all : a[s] \in Nat /\ Cardinality(by(s)) * a[s] <= Whole \div count
    BY <1>2, <1>3, <1>4
<1>. HIDE DEF a
<1>6. IsFiniteSet(P)
    <2>1. IsFiniteSet(D \X all) /\ P \in SUBSET (D \X all)
        BY <1>1, FS_Product
    <2>. HIDE DEF P
    <2>. QED BY <2>1, FS_Subset
<1>7. \A s \in all, k \in D : k \in by(s) <=> s \in of(k)
    BY DEF by, of, D, OfferedBy
<1>8. \A k \in D : mine[k] = SumFunctionOnSet(cells[k], ofs[k])
    <2>. TAKE k \in D
    <2>1. mine[k] = Blame(trace, line, trace.nodes[k].name) /\ NodeOf(trace, trace.nodes[k].name) = trace.nodes[k]
        BY NodeFound DEF D
    <2>2. cells[k] = [s \in of(k) |-> Whole \div (Cardinality(by(s)) * count)] /\ DOMAIN cells[k] = of(k)
        BY <1>1 DEF a
    <2>. HIDE DEF cells
    <2>3. Blame(trace, line, trace.nodes[k].name) = SumFunction(cells[k])
        BY <2>1, <2>2 DEF Blame, of, by, count, all
    <2>. QED BY <2>1, <2>2, <2>3 DEF SumFunction
<1>9. Table(P, f, D, node, all, serv, ofs, cells, mine)
    <2>1. \A x \in P : x = <<x[1], x[2]>> /\ f[x] \in Int /\ node[x] \in D /\ serv[x] \in all
        BY <1>5
    <2>2. \A k \in D : \A c \in all : c \in ofs[k] <=> \E x \in P : node[x] = k /\ serv[x] = c
        <3>. TAKE k \in D
        <3>. TAKE c \in all
        <3>1. ASSUME c \in of(k) PROVE \E x \in P : node[x] = k /\ serv[x] = c
            <4>1. <<k, c>> \in P /\ node[<<k, c>>] = k /\ serv[<<k, c>>] = c
                BY <3>1
            <4>. QED BY <4>1
        <3>. QED BY <3>1
    <2>3. \A x \in P : cells[node[x]][serv[x]] = f[x]
        OBVIOUS
    <2>4. \A x, y \in P : node[x] = node[y] /\ serv[x] = serv[y] => x = y
        BY <2>1
    <2>5. \A k \in D : ofs[k] \in SUBSET all
        BY <1>1
    <2>. HIDE DEF P, f, node, serv, ofs, cells
    <2>. QED BY <1>1, <1>6, <1>8, <2>1, <2>2, <2>3, <2>4, <2>5 DEF Table
<1>10. Table(P, f, all, serv, D, node, bys, turned, each)
    <2>1. \A x \in P : x = <<x[1], x[2]>> /\ f[x] \in Int /\ node[x] \in D /\ serv[x] \in all
        BY <1>5
    <2>2. \A s \in all : \A k \in D : k \in bys[s] <=> \E x \in P : serv[x] = s /\ node[x] = k
        <3>. TAKE s \in all
        <3>. TAKE k \in D
        <3>1. ASSUME k \in by(s) PROVE \E x \in P : serv[x] = s /\ node[x] = k
            <4>1. <<k, s>> \in P /\ node[<<k, s>>] = k /\ serv[<<k, s>>] = s
                BY <1>7, <3>1
            <4>. QED BY <4>1
        <3>. QED BY <1>7, <3>1
    <2>3. \A x \in P : turned[serv[x]][node[x]] = f[x]
        BY <1>7
    <2>4. \A x, y \in P : serv[x] = serv[y] /\ node[x] = node[y] => x = y
        BY <2>1
    <2>5. \A s \in all : bys[s] \in SUBSET D
        BY <1>3
    <2>6. \A s \in all : each[s] = SumFunctionOnSet(turned[s], bys[s])
        OBVIOUS
    <2>. HIDE DEF P, f, node, serv, bys, turned, each
    <2>. QED BY <1>1, <1>6, <2>1, <2>2, <2>3, <2>4, <2>5, <2>6 DEF Table
<1>11. SumFunctionOnSet(mine, D) = SumFunctionOnSet(each, all)
    <2>. HIDE DEF P, f, node, serv, ofs, bys, cells, turned, each
    <2>1. SumFunctionOnSet(mine, D) = SumFunctionOnSet(f, P)
        BY <1>9, SumRows
    <2>2. SumFunctionOnSet(each, all) = SumFunctionOnSet(f, P)
        BY <1>10, SumRows
    <2>. QED BY <2>1, <2>2
<1>. DEFINE most == Whole \div count
<1>12. most \in Nat /\ count * most <= Whole
    BY <1>2 DEF Whole
<1>13. \A s \in all : each[s] \in Int /\ each[s] <= most
    <2>. TAKE s \in all
    <2>1. \A k \in by(s) : turned[s][k] = a[s]
        OBVIOUS
    <2>2. SumFunctionOnSet(turned[s], by(s)) = Cardinality(by(s)) * a[s]
        <3>. HIDE DEF turned
        <3>. QED BY <1>3, <1>5, <2>1, SumConstant
    <2>3. Cardinality(by(s)) * a[s] \in Int
        BY <1>3, <1>5
    <2>. HIDE DEF turned
    <2>. QED BY <1>5, <2>2, <2>3
<1>. HIDE DEF most, each
<1>14. SumFunctionOnSet(each, all) <= Whole
    <2>. DEFINE flat == [s \in all |-> most]
    <2>1. SumFunctionOnSet(flat, all) = Cardinality(all) * most
        BY <1>1, <1>12, SumConstant
    <2>2. \A s \in all : each[s] \in Int /\ flat[s] \in Int /\ each[s] <= flat[s]
        BY <1>12, <1>13
    <2>3. SumFunctionOnSet(each, all) <= SumFunctionOnSet(flat, all)
        <3>. HIDE DEF flat
        <3>. QED BY <1>1, <2>2, SumUp
    <2>4. SumFunctionOnSet(each, all) \in Int
        BY <1>1, <1>13, SumType
    <2>5. Cardinality(all) * most <= count * most /\ Cardinality(all) * most \in Nat
          /\ count * most \in Nat
        BY <1>2, <1>12
    <2>6. Whole \in Nat
        BY DEF Whole
    <2>. QED BY <1>12, <2>1, <2>3, <2>4, <2>5, <2>6
<1>15. \A k \in D : mine[k] \in Nat
    <2>. TAKE k \in D
    <2>1. IsFiniteSet(of(k))
        BY <1>1, FS_Subset
    <2>2. \A s \in of(k) : cells[k][s] \in Nat
        BY <1>1, <1>5
    <2>3. mine[k] = SumFunctionOnSet(cells[k], of(k))
        BY <1>8
    <2>. HIDE DEF cells
    <2>. QED BY <2>1, <2>2, <2>3, SumNatural
<1>. QED BY <1>11, <1>14, <1>15 DEF D

(* Nobody is answerable for less than nothing, and all of them together for no *)
(* more than the line.                                                        *)
LEMMA BlameIsShared ==
    ASSUME NEW trace, WellFormed(trace), NEW line,
           NEW mine, \A k \in DOMAIN trace.nodes : mine[k] = Blame(trace, line, trace.nodes[k].name)
    PROVE  /\ \A k \in DOMAIN trace.nodes : mine[k] \in Nat
           /\ SumFunctionOnSet(mine, DOMAIN trace.nodes) <= Whole
<1>. DEFINE D == DOMAIN trace.nodes
<1>1. IsFiniteSet(D) /\ Whole \in Nat /\ 0 \in 0 .. Whole /\ Whole \in 0 .. Whole
    BY ServicesOK DEF Whole
<1>2. \A k \in D : NodeOf(trace, trace.nodes[k].name) = trace.nodes[k]
    BY NodeFound
<1>3. CASE Classify(line) = "node"
    <2>1. \A k \in D : mine[k] = IF line.of = trace.nodes[k].name THEN Whole ELSE 0
        BY <1>3 DEF Blame
    <2>2. \A j, k \in D : mine[j] # 0 /\ mine[k] # 0 => j = k
        BY <2>1 DEF WellFormed
    <2>3. \A k \in D : mine[k] \in 0 .. Whole
        BY <1>1, <2>1
    <2>4. SumFunctionOnSet(mine, D) \in 0 .. Whole
        BY <1>1, <2>2, <2>3, SumPoint
    <2>. QED BY <1>1, <2>3, <2>4
<1>4. CASE Classify(line) = "storage"
    <2>1. \A k \in D : mine[k] = IF trace.nodes[k].name \in WorstDisk(trace) THEN Whole ELSE 0
        BY <1>4 DEF Blame
    <2>2. \A j, k \in D : mine[j] # 0 /\ mine[k] # 0 => j = k
        BY <2>1, OneWorst
    <2>3. \A k \in D : mine[k] \in 0 .. Whole
        BY <1>1, <2>1
    <2>4. SumFunctionOnSet(mine, D) \in 0 .. Whole
        BY <1>1, <2>2, <2>3, SumPoint
    <2>. QED BY <1>1, <2>3, <2>4
<1>5. CASE Classify(line) = "egress"
    <2>. DEFINE c == [k \in D |-> trace.nodes[k].crossed]
                C == SumFunctionOnSet(c, D)
    <2>1. \A k \in D : c[k] \in Nat
        BY DEF WellFormed, Range
    <2>2. C \in Nat
        BY <1>1, <2>1, SumNatural
    <2>3. C = SumFunction([k \in DOMAIN trace.nodes |-> trace.nodes[k].crossed])
        BY DEF SumFunction
    <2>4. \A k \in D : mine[k] = IF C = 0 THEN 0 ELSE (Whole * c[k]) \div C
        <3>. TAKE k \in D
        <3>1. mine[k] = Blame(trace, line, trace.nodes[k].name)
            OBVIOUS
        <3>2. c[k] = NodeOf(trace, trace.nodes[k].name).crossed
            BY <1>2
        <3>. HIDE DEF c, C
        <3>. QED BY <1>5, <2>3, <3>1, <3>2 DEF Blame
    <2>. HIDE DEF c, C
    <2>5. CASE C = 0
        <3>1. \A k \in D : mine[k] = 0
            BY <2>4, <2>5
        <3>2. SumFunctionOnSet(mine, D) = 0
            BY <1>1, <3>1, SumZero
        <3>. QED BY <1>1, <3>1, <3>2
    <2>6. CASE C # 0
        <3>1. /\ \A k \in D : mine[k] \in Nat
              /\ SumFunctionOnSet(mine, D) \in Nat
              /\ C * SumFunctionOnSet(mine, D) <= Whole * SumFunctionOnSet(c, D)
            <4>1. C \in Nat \ {0}
                BY <2>2, <2>6
            <4>2. \A k \in D : c[k] \in Nat /\ mine[k] = (Whole * c[k]) \div C
                BY <2>1, <2>4, <2>6
            <4>. QED BY <1>1, <4>1, <4>2, SumShares
        <3>2. C * SumFunctionOnSet(mine, D) <= Whole * C
            BY <3>1 DEF C
        <3>3. \A a, w \in Nat, n \in Nat \ {0} : n * a <= w * n => a <= w
            OBVIOUS
        <3>. QED BY <1>1, <2>2, <2>6, <3>1, <3>2, <3>3
    <2>. QED BY <2>5, <2>6
<1>6. CASE Classify(line) = "build"
    BY <1>6, BuildIsShared
<1>7. CASE Classify(line) \notin {"node", "storage", "egress", "build"}
    <2>1. \A k \in D : mine[k] = 0
        BY <1>7 DEF Blame
    <2>2. SumFunctionOnSet(mine, D) = 0
        BY <1>1, <2>1, SumZero
    <2>. QED BY <1>1, <2>1, <2>2
<1>. QED BY <1>3, <1>4, <1>5, <1>6, <1>7

(* The nodes are never answerable for more than has been spent.               *)
LEMMA NodesPayTheirShare ==
    ASSUME NEW trace, WellFormed(trace), NEW bill, IsBill(bill), NEW t \in Int,
           NEW mine, \A k \in DOMAIN trace.nodes : mine[k] = Mine(trace, bill, t, trace.nodes[k].name)
    PROVE  /\ Cost(trace, bill, t) \in Nat
           /\ \A k \in DOMAIN trace.nodes : mine[k] \in Nat
           /\ SumFunctionOnSet(mine, DOMAIN trace.nodes) <= Cost(trace, bill, t)
<1>. DEFINE D      == DOMAIN trace.nodes
            L      == Known(bill)
            line(i) == bill.lines[i]
            name(k) == trace.nodes[k].name
            so     == [i \in L |-> SoFar(trace, bill, line(i), t)]
            part(k, i) == (SoFar(trace, bill, line(i), t) * Blame(trace, line(i), name(k))) \div Whole
            P      == D \X L
            f      == [p \in P |-> part(p[1], p[2])]
            node   == [p \in P |-> p[1]]
            entry  == [p \in P |-> p[2]]
            lines  == [k \in D |-> L]
            nodes  == [i \in L |-> D]
            cells  == [k \in D |-> [i \in L |-> part(k, i)]]
            turned == [i \in L |-> [k \in D |-> part(k, i)]]
            each   == [i \in L |-> SumFunctionOnSet(turned[i], nodes[i])]
<1>1. IsFiniteSet(D) /\ IsFiniteSet(L) /\ L \in SUBSET DOMAIN bill.lines
    <2>1. IsFiniteSet(DOMAIN bill.lines) /\ L \in SUBSET DOMAIN bill.lines
        BY ListDomain DEF IsBill, Known
    <2>. HIDE DEF L
    <2>. QED BY <2>1, FS_Subset, ServicesOK
<1>. HIDE DEF L
<1>2. \A i \in L : so[i] \in Nat
    BY <1>1, SoFarOK
<1>3. Cost(trace, bill, t) = SumFunctionOnSet(so, L)
    BY DEF Cost, SumFunction, L
<1>4. SumFunctionOnSet(so, L) \in Nat
    <2>. HIDE DEF so
    <2>. QED BY <1>1, <1>2, SumNatural
<1>5. ASSUME NEW i \in L
      PROVE  /\ \A k \in D : part(k, i) \in Nat
             /\ SumFunctionOnSet(turned[i], D) \in Nat
             /\ SumFunctionOnSet(turned[i], D) <= so[i]
    <2>. DEFINE blame == [k \in D |-> Blame(trace, line(i), name(k))]
                row   == turned[i]
    <2>1. (\A k \in D : blame[k] \in Nat) /\ SumFunctionOnSet(blame, D) <= Whole
        <3>1. \A k \in D : blame[k] = Blame(trace, line(i), trace.nodes[k].name)
            OBVIOUS
        <3>. HIDE DEF blame
        <3>. QED BY <3>1, BlameIsShared
    <2>2. \A k \in D : row[k] = (so[i] * blame[k]) \div Whole /\ row[k] = part(k, i)
        OBVIOUS
    <2>3. Whole \in Nat \ {0} /\ so[i] \in Nat
        BY <1>2 DEF Whole
    <2>. HIDE DEF blame, row, so, part
    <2>4. /\ \A k \in D : row[k] \in Nat
          /\ SumFunctionOnSet(row, D) \in Nat
          /\ Whole * SumFunctionOnSet(row, D) <= so[i] * SumFunctionOnSet(blame, D)
        BY <1>1, <2>1, <2>2, <2>3, SumShares
    <2>5. SumFunctionOnSet(blame, D) \in Nat
        BY <1>1, <2>1, SumNatural
    <2>6. \A a, b, s \in Nat, w \in Nat \ {0} : w * a <= s * b /\ b <= w => a <= s
        <3>. SUFFICES ASSUME NEW a \in Nat, NEW b \in Nat, NEW s \in Nat, NEW w \in Nat \ {0},
                             w * a <= s * b, b <= w, a > s
                      PROVE  FALSE
            OBVIOUS
        <3>1. s * b <= s * w /\ s * b \in Nat /\ s * w \in Nat
            OBVIOUS
        <3>2. w * (s + 1) <= w * a /\ w * a \in Nat
            OBVIOUS
        <3>3. w * (s + 1) = s * w + w
            OBVIOUS
        <3>. QED BY <3>1, <3>2, <3>3
    <2>7. SumFunctionOnSet(row, D) <= so[i]
        BY <2>1, <2>3, <2>4, <2>5, <2>6
    <2>. QED BY <2>2, <2>4, <2>7 DEF row
<1>. HIDE DEF part, D
<1>6. IsFiniteSet(P)
    BY <1>1, FS_Product
<1>7. \A x \in P : x = <<x[1], x[2]>> /\ f[x] \in Int /\ node[x] \in D /\ entry[x] \in L
    <2>. TAKE x \in P
    <2>1. x = <<x[1], x[2]>> /\ x[1] \in D /\ x[2] \in L
        OBVIOUS
    <2>2. f[x] = part(x[1], x[2])
        OBVIOUS
    <2>3. part(x[1], x[2]) \in Nat
        BY <1>5, <2>1
    <2>. HIDE DEF f, P
    <2>. QED BY <2>1, <2>2, <2>3
<1>8. \A k \in D, i \in L : <<k, i>> \in P /\ node[<<k, i>>] = k /\ entry[<<k, i>>] = i
    OBVIOUS
<1>9. \A k \in D : mine[k] = SumFunctionOnSet(cells[k], lines[k])
    <2>. TAKE k \in D
    <2>1. mine[k] = SumFunction([i \in L |-> part(k, i)])
        BY DEF Mine, L, D, part
    <2>. QED BY <2>1 DEF SumFunction
<1>10. /\ \A x \in P : cells[node[x]][entry[x]] = f[x]
       /\ \A x \in P : turned[entry[x]][node[x]] = f[x]
       /\ \A k \in D : lines[k] = L
       /\ \A i \in L : nodes[i] = D
       /\ \A i \in L : each[i] = SumFunctionOnSet(turned[i], nodes[i])
    OBVIOUS
<1>. HIDE DEF P, f, node, entry, lines, nodes, cells, turned, each
<1>11. \A x, y \in P : node[x] = node[y] /\ entry[x] = entry[y] => x = y
    <2>1. \A x \in P : x = <<node[x], entry[x]>>
        BY <1>7 DEF node, entry
    <2>. QED BY <2>1
<1>12. Table(P, f, D, node, L, entry, lines, cells, mine)
    <2>1. \A k \in D : \A c \in L : c \in lines[k] <=> \E x \in P : node[x] = k /\ entry[x] = c
        <3>. TAKE k \in D
        <3>. TAKE c \in L
        <3>1. c \in lines[k]
            BY <1>10
        <3>2. <<k, c>> \in P /\ node[<<k, c>>] = k /\ entry[<<k, c>>] = c
            BY <1>8
        <3>. QED BY <3>1, <3>2
    <2>2. \A x \in P : f[x] \in Int /\ node[x] \in D /\ entry[x] \in L
        BY <1>6, <1>7
    <2>3. IsFiniteSet(P) /\ IsFiniteSet(D) /\ IsFiniteSet(L)
        BY <1>1, <1>6
    <2>4. \A k \in D : lines[k] \in SUBSET L /\ mine[k] = SumFunctionOnSet(cells[k], lines[k])
        BY <1>9, <1>10
    <2>. QED BY <1>10, <1>11, <2>1, <2>2, <2>3, <2>4 DEF Table
<1>13. Table(P, f, L, entry, D, node, nodes, turned, each)
    <2>1. \A i \in L : \A c \in D : c \in nodes[i] <=> \E x \in P : entry[x] = i /\ node[x] = c
        BY <1>8, <1>10
    <2>. QED BY <1>1, <1>6, <1>7, <1>10, <1>11, <2>1 DEF Table
<1>14. SumFunctionOnSet(mine, D) = SumFunctionOnSet(each, L)
    BY <1>12, <1>13, SumRows
<1>15. \A i \in L : each[i] \in Int /\ so[i] \in Int /\ each[i] <= so[i]
    BY <1>2, <1>5, <1>10
<1>16. SumFunctionOnSet(each, L) <= SumFunctionOnSet(so, L)
    <2>. HIDE DEF so
    <2>. QED BY <1>1, <1>15, SumUp
<1>17. \A k \in D : mine[k] \in Nat
    <2>. TAKE k \in D
    <2>1. mine[k] = SumFunctionOnSet(cells[k], L)
        BY <1>9, <1>10
    <2>2. \A i \in L : cells[k][i] \in Nat
        BY <1>5 DEF cells
    <2>. QED BY <1>1, <2>1, <2>2, SumNatural
<1>. QED BY <1>3, <1>4, <1>14, <1>16, <1>17 DEF D

(* Cut by bucket: every line that is counted is in one of them.               *)
LEMMA BucketsAddUp ==
    ASSUME NEW trace, WellFormed(trace), NEW bill, IsBill(bill), NEW t \in Int
    PROVE  SumFunction(ByBucket(trace, bill, t)) = Cost(trace, bill, t)
<1>. DEFINE L  == Known(bill)
            so == [i \in L |-> SoFar(trace, bill, bill.lines[i], t)]
            in == [i \in L |-> bill.lines[i].bucket]
            at == [b \in BUCKETS |-> {k \in L : bill.lines[k].bucket = b}]
            cut == ByBucket(trace, bill, t)
            of(b) == [i \in {k \in L : bill.lines[k].bucket = b} |->
                         SoFar(trace, bill, bill.lines[i], t)]
<1>1. IsFiniteSet(L) /\ L \in SUBSET DOMAIN bill.lines /\ \A i \in L : in[i] \in BUCKETS
    <2>1. IsFiniteSet(DOMAIN bill.lines) /\ L \in SUBSET DOMAIN bill.lines
        BY ListDomain DEF IsBill, Known
    <2>2. \A i \in L : in[i] \in BUCKETS
        BY DEF Known
    <2>. HIDE DEF L
    <2>. QED BY <2>1, <2>2, FS_Subset
<1>2. Cost(trace, bill, t) = SumFunctionOnSet(so, L)
    BY DEF Cost, SumFunction
<1>3. DOMAIN cut = BUCKETS /\ \A b \in BUCKETS : cut[b] = SumFunctionOnSet(of(b), at[b])
    BY DEF ByBucket, SumFunction
<1>. HIDE DEF L
<1>4. \A i \in L : so[i] \in Int
    BY <1>1, SoFarOK
<1>5. \A b \in BUCKETS : at[b] \in SUBSET L /\ \A i \in L : i \in at[b] <=> in[i] = b
    OBVIOUS
<1>6. ASSUME NEW b \in BUCKETS PROVE cut[b] = SumFunctionOnSet(so, at[b])
    <2>. DEFINE mine == of(b)
                here == at[b]
    <2>1. \A i \in here : mine[i] \in Int /\ mine[i] = so[i]
        BY <1>4
    <2>2. IsFiniteSet(here)
        BY <1>1, <1>5, FS_Subset
    <2>3. cut[b] = SumFunctionOnSet(mine, here)
        BY <1>3
    <2>. HIDE DEF mine, here, so, cut
    <2>4. SumFunctionOnSet(mine, here) = SumFunctionOnSet(so, here)
        BY <2>1, <2>2, SumSame
    <2>. QED BY <2>3, <2>4 DEF here
<1>7. IsFiniteSet(BUCKETS)
    <2>1. BUCKETS = ({} \cup {"build"} \cup {"capacity"}) \cup {"consumption"}
        BY DEF BUCKETS
    <2>. QED BY <2>1, FS_EmptySet, FS_AddElement
<1>. HIDE DEF so, in, at, cut
<1>8. SumFunctionOnSet(cut, BUCKETS) = SumFunctionOnSet(so, L)
    BY <1>1, <1>4, <1>5, <1>6, <1>7, SumGathered
<1>. QED BY <1>2, <1>3, <1>8 DEF SumFunction, cut

(* Cut by node, by zone or by instance: what is left is nobody's, and it is     *)
(* never less than nothing.                                                   *)
LEMMA NodesAddUp ==
    ASSUME NEW trace, WellFormed(trace), NEW bill, IsBill(bill), NEW t \in Int, NEW dim
    PROVE  SumFunction(ByNodes(trace, bill, dim, t)) = Cost(trace, bill, t)
<1>. DEFINE D      == DOMAIN trace.nodes
            all    == Cost(trace, bill, t)
            mine   == [k \in D |-> Mine(trace, bill, t, trace.nodes[k].name)]
            of     == [k \in D |-> KindOf(trace.nodes[k], dim)]
            paying == {k \in D : mine[k] > 0}
            rest   == all - SumFunctionOnSet(mine, paying)
            kinds  == {of[k] : k \in paying}
            at     == [kind \in kinds |-> {k \in paying : of[k] = kind}]
            cut    == ByNodes(trace, bill, dim, t)
<1>1. all \in Nat /\ (\A k \in D : mine[k] \in Nat) /\ SumFunctionOnSet(mine, D) <= all
    <2>1. \A k \in DOMAIN trace.nodes : mine[k] = Mine(trace, bill, t, trace.nodes[k].name)
        OBVIOUS
    <2>. HIDE DEF mine
    <2>. QED BY <2>1, NodesPayTheirShare
<1>2. \A k \in D : of[k] # <<>>
    <2>. TAKE k \in D
    <2>1. PICK x : of[k] = <<x>>
        BY DEF KindOf
    <2>. QED BY <2>1
<1>3. /\ DOMAIN cut = kinds \cup (IF rest > 0 THEN {<<>>} ELSE {})
      /\ \A kind \in DOMAIN cut :
             cut[kind] = IF kind = <<>> THEN rest
                         ELSE SumFunctionOnSet(mine, {k \in paying : of[k] = kind})
    BY DEF ByNodes
<1>. HIDE DEF mine, of, all, D
<1>4. IsFiniteSet(D) /\ paying \in SUBSET D /\ IsFiniteSet(paying)
    <2>1. IsFiniteSet(D)
        BY ServicesOK DEF D
    <2>2. paying \in SUBSET D
        OBVIOUS
    <2>. HIDE DEF paying
    <2>. QED BY <2>1, <2>2, FS_Subset
<1>5. SumFunctionOnSet(mine, paying) \in Nat /\ SumFunctionOnSet(mine, paying) <= all
    <2>. DEFINE idle == D \ paying
    <2>1. IsFiniteSet(idle) /\ paying \cup idle = D /\ paying \cap idle = {}
        BY <1>4, FS_Subset
    <2>2. (\A k \in idle : mine[k] \in Nat) /\ (\A k \in paying : mine[k] \in Nat)
        BY <1>1
    <2>3. \A k \in paying \cup idle : mine[k] \in Int
        BY <2>2
    <2>. HIDE DEF idle, paying
    <2>4. SumFunctionOnSet(mine, D) = SumFunctionOnSet(mine, paying) + SumFunctionOnSet(mine, idle)
        BY <1>4, <2>1, <2>3, SumUnion
    <2>5. SumFunctionOnSet(mine, idle) \in Nat /\ SumFunctionOnSet(mine, paying) \in Nat
        BY <1>4, <2>1, <2>2, SumNatural
    <2>. QED BY <1>1, <2>4, <2>5
<1>6. <<>> \notin kinds
    BY <1>2
<1>7. IsFiniteSet(kinds)
    <2>. DEFINE g == [k \in paying |-> of[k]]
    <2>1. g \in Surjection(paying, kinds)
        BY DEF Surjection
    <2>. HIDE DEF g, paying, kinds
    <2>. QED BY <1>4, <2>1, FS_Surjection
<1>8. \A kind \in kinds : at[kind] \in SUBSET paying /\ \A k \in paying : k \in at[kind] <=> of[k] = kind
    OBVIOUS
<1>9. \A kind \in kinds : cut[kind] = SumFunctionOnSet(mine, at[kind])
    BY <1>3, <1>6
<1>10. (\A k \in paying : of[k] \in kinds) /\ (\A k \in paying : mine[k] \in Int)
    BY <1>1
<1>. HIDE DEF paying, at, cut, kinds
<1>11. SumFunctionOnSet(cut, kinds) = SumFunctionOnSet(mine, paying)
    BY <1>4, <1>7, <1>8, <1>9, <1>10, SumGathered
<1>12. rest \in Nat
    BY <1>1, <1>5
<1>13. CASE rest = 0
    <2>1. DOMAIN cut = kinds
        BY <1>3, <1>13
    <2>2. SumFunctionOnSet(mine, paying) = all
        BY <1>1, <1>5, <1>13
    <2>. QED BY <1>11, <2>1, <2>2 DEF SumFunction, cut, all
<1>14. CASE rest # 0
    <2>1. DOMAIN cut = kinds \cup {<<>>} /\ cut[<<>>] = rest
        <3>. HIDE DEF rest
        <3>1. rest > 0
            BY <1>12, <1>14
        <3>2. DOMAIN cut = kinds \cup {<<>>}
            BY <1>3, <3>1
        <3>3. <<>> \in DOMAIN cut
            BY <3>2
        <3>. QED BY <1>3, <3>2, <3>3
    <2>2. \A kind \in kinds : cut[kind] \in Int
        <3>. TAKE kind \in kinds
        <3>1. at[kind] \in SUBSET paying /\ IsFiniteSet(at[kind])
            BY <1>4, <1>8, FS_Subset
        <3>2. \A k \in at[kind] : mine[k] \in Int
            BY <1>10, <3>1
        <3>. QED BY <1>9, <3>1, <3>2, SumType
    <2>3. \A kind \in kinds \cup {<<>>} : cut[kind] \in Int
        BY <1>12, <2>1, <2>2
    <2>. HIDE DEF rest
    <2>4. SumFunctionOnSet(cut, kinds \cup {<<>>}) = cut[<<>>] + SumFunctionOnSet(cut, kinds)
        BY <1>6, <1>7, <2>3, SumAdd
    <2>5. rest + SumFunctionOnSet(mine, paying) = all
        BY <1>1, <1>5 DEF rest
    <2>. QED BY <1>11, <2>1, <2>4, <2>5 DEF SumFunction, cut, all
<1>. QED BY <1>13, <1>14

(* Whatever it is cut by. *)
LEMMA CutsAddUp ==
    ASSUME NEW r \in Runs, NEW t \in Int, NEW dim \in DIMS
    PROVE  SumFunction(Cut(Opened[r], Bill[r], dim, t)) = Cost(Opened[r], Bill[r], t)
<1>1. WellFormed(Opened[r]) /\ IsBill(Bill[r])
    BY TraceAssumption, BillAssumption
<1>. QED BY <1>1, BucketsAddUp, NodesAddUp DEF Cut

(* The instant either clock stands at is one the longest run has.              *)
LEMMA ShownKnown ==
    ASSUME StateInv
    PROVE  run \in Runs /\ Shown.d \in 0 .. AsLong
<1>1. run \in Runs /\ AsLong \in Int
    BY AsLongOK DEF StateInv
<1>2. FilmOK(Shown)
    BY DEF StateInv, Shown
<1>. QED BY <1>1, <1>2 DEF FilmOK, ClockOK, Clocks

(* On the Cost page, at whatever instant and however it is cut, the parts are  *)
(* all of the money that has been spent (EveryCutAddsUp of run "player"): no    *)
(* reservation, share or service is charged to the nodes twice, so what is     *)
(* nobody's is never less than nothing.                                       *)
THEOREM EveryCutIsWhole == Spec => []EveryCutAddsUp
<1>1. StateInv => EveryCutAddsUp
    <2>. SUFFICES ASSUME StateInv PROVE EveryCutAddsUp
        OBVIOUS
    <2>1. run \in Runs /\ Shown.d \in 0 .. AsLong /\ Shown.d \in Int
        BY ShownKnown
    <2>2. \A dim \in DIMS : SumFunction(Cut(Opened[run], Bill[run], dim, Shown.d))
                                = Cost(Opened[run], Bill[run], Shown.d)
        BY <2>1, CutsAddUp
    <2>. QED BY <2>1, <2>2 DEF EveryCutAddsUp, AddsUp
<1>. QED BY <1>1, StateInvariant, PTL

-----------------------------------------------------------------------------
(* What the index answers: the newest value of a node.                         *)

(* What is in a set and not below any of it is its largest.                   *)
LEMMA MaxIs ==
    ASSUME NEW S \in SUBSET Int, NEW x \in S, \A y \in S : y <= x
    PROVE  Max(S) = x
<1>1. \A z \in S : (\A y \in S : y <= z) => z = x
    OBVIOUS
<1>. QED BY <1>1 DEF Max

(* The bisection of a track finds the last of what has been said by t.         *)
LEMMA LastOfTrack ==
    ASSUME NEW seq, NEW kept \in SUBSET (DOMAIN seq), IsFiniteSet(kept),
           \A i \in kept : i \in Int /\ seq[i].t \in Int, NEW t \in Int,
           NEW track, track = ByTime(seq, kept, "t"), NEW c, c = LastAtOrBefore(track, t)
    PROVE  \/ c = 0 /\ \A i \in kept : seq[i].t > t
           \/ /\ c # 0
              /\ \E i \in kept :
                    /\ track[c] = seq[i] /\ seq[i].t <= t
                    /\ \A j \in kept : seq[j].t <= t =>
                          seq[j].t < seq[i].t \/ (seq[j].t = seq[i].t /\ j <= i)
<1>. DEFINE n == Cardinality(kept)
            P == {k \in 1 .. n : track[k].t <= t}
<1>1. n \in Nat /\ DOMAIN track = 1 .. n
    BY ByTimeSorts
<1>2. PICK at \in [1 .. n -> kept] :
          /\ \A k \in 1 .. n : track[k] = seq[at[k]]
          /\ \A i \in kept : \E k \in 1 .. n : at[k] = i
          /\ \A j, k \in 1 .. n :
                j < k => (seq[at[j]].t < seq[at[k]].t
                          \/ (seq[at[j]].t = seq[at[k]].t /\ at[j] < at[k]))
    BY ByTimeSorts
<1>3. c = Cardinality(P)
    BY <1>1 DEF LastAtOrBefore
<1>. HIDE DEF n
<1>4. P \in SUBSET (1 .. n)
    OBVIOUS
<1>5. \A k \in 1 .. n : at[k] \in kept /\ track[k].t = seq[at[k]].t /\ track[k].t \in Int
    BY <1>2
<1>6. \A i \in P : \A j \in 1 .. n : j < i => j \in P
    <2>. TAKE i \in P
    <2>. TAKE j \in 1 .. n
    <2>. HAVE j < i
    <2>1. i \in 1 .. n /\ track[i].t <= t
        OBVIOUS
    <2>2. track[j].t <= track[i].t
        BY <1>2, <1>5, <2>1
    <2>. QED BY <1>5, <2>1, <2>2
<1>7. c \in 0 .. n /\ P = 1 .. c
    <2>. HIDE DEF P
    <2>. QED BY <1>1, <1>3, <1>4, <1>6, PrefixCount
<1>8. \A i \in kept : seq[i].t <= t => \E k \in 1 .. c : at[k] = i
    <2>. TAKE i \in kept
    <2>. HAVE seq[i].t <= t
    <2>1. PICK k \in 1 .. n : at[k] = i
        BY <1>2
    <2>2. k \in P
        BY <1>5, <2>1
    <2>. HIDE DEF P
    <2>. QED BY <1>7, <2>1, <2>2
<1>9. CASE c = 0
    <2>1. \A i \in kept : ~(seq[i].t <= t)
        BY <1>8, <1>9
    <2>. QED BY <1>9, <2>1
<1>10. CASE c # 0
    <2>1. c \in 1 .. n /\ c \in P
        <3>. HIDE DEF P
        <3>. QED BY <1>1, <1>7, <1>10
    <2>2. track[c] = seq[at[c]] /\ seq[at[c]].t <= t /\ at[c] \in kept
        BY <1>2, <1>5, <2>1
    <2>3. \A j \in kept : seq[j].t <= t =>
              seq[j].t < seq[at[c]].t \/ (seq[j].t = seq[at[c]].t /\ j <= at[c])
        <3>. TAKE j \in kept
        <3>. HAVE seq[j].t <= t
        <3>1. PICK k \in 1 .. c : at[k] = j
            BY <1>8
        <3>2. CASE k = c
            BY <3>1, <3>2
        <3>3. CASE k < c
            <4>1. k \in 1 .. n
                BY <1>1, <2>1
            <4>2. seq[at[k]].t < seq[at[c]].t \/ (seq[at[k]].t = seq[at[c]].t /\ at[k] < at[c])
                BY <1>2, <2>1, <3>3, <4>1
            <4>. QED BY <3>1, <4>2, <2>2
        <3>. QED BY <1>7, <3>2, <3>3
    <2>. QED BY <1>10, <2>2, <2>3
<1>. QED BY <1>9, <1>10

(* It is what a scan of the whole trace finds, whatever order it was written   *)
(* down in.                                                                   *)
LEMMA NewestIsIndexed ==
    ASSUME NEW r \in Runs, NEW vm \in NodeNames(Opened[r]), NEW key, NEW t \in Nat
    PROVE  RevealedOf(Index[r], vm, key, t) = NewestOf(r, vm, key, t)
<1>. DEFINE trace  == Opened[r]
            events == trace.events
            said   == Where(events, LAMBDA e :
                          e.kind = "state" /\ e.vm \in NodeNames(trace) /\ IsReveal(e.value))
            of(i)  == <<events[i].vm, events[i].key>>
            name   == <<vm, key>>
            kept   == {i \in said : of(i) = name}
            at(u)  == {i \in DOMAIN events :
                         /\ events[i].kind = "state" /\ IsReveal(events[i].value)
                         /\ events[i].vm = vm /\ events[i].key = key /\ events[i].t = u}
            last   == {u \in 0 .. t : at(u) # {}}
            track  == ByTime(events, kept, "t")
            c      == LastAtOrBefore(track, t)
<1>1. IsList(events) /\ \A e \in Range(events) : e.t \in Nat
    BY TraceAssumption DEF WellFormed
<1>2. IsFiniteSet(DOMAIN events) /\ DOMAIN events \in SUBSET Nat
      /\ \A i \in DOMAIN events : events[i].t \in Nat
    BY <1>1, ListDomain DEF Range
<1>3. said \in SUBSET DOMAIN events /\ kept \in SUBSET DOMAIN events
    BY DEF Where
<1>4. \A i \in DOMAIN events : i \in kept <=> i \in at(events[i].t)
    BY DEF Where
<1>5. RevealedOf(Index[r], vm, key, t) =
          IF kept = {} THEN Nobody ELSE IF c = 0 THEN Nobody ELSE track[c].value
    <2>1. Index[r].reveals = [k \in {of(i) : i \in said} |-> ByTime(events, {i \in said : of(i) = k}, "t")]
        BY DEF Index, IndexOf
    <2>2. name \in {of(i) : i \in said} <=> kept # {}
        OBVIOUS
    <2>3. DOMAIN Index[r].reveals = {of(i) : i \in said}
        BY <2>1
    <2>4. name \in {of(i) : i \in said} => Index[r].reveals[name] = track
        BY <2>1
    <2>. HIDE DEF said, of, kept, track
    <2>. QED BY <2>2, <2>3, <2>4 DEF RevealedOf
<1>6. NewestOf(r, vm, key, t) = IF last = {} THEN Nobody ELSE events[Max(at(Max(last)))].value
    BY DEF NewestOf
<1>. HIDE DEF trace, events, said, of, track, c
<1>7. ASSUME NEW u \in last PROVE \E i \in kept : events[i].t = u /\ u <= t
    <2>1. PICK i \in at(u) : TRUE
        OBVIOUS
    <2>2. i \in DOMAIN events /\ events[i].t = u
        OBVIOUS
    <2>. QED BY <1>4, <2>2
<1>8. ASSUME NEW i \in kept, events[i].t <= t PROVE events[i].t \in last
    <2>1. events[i].t \in 0 .. t
        BY <1>2, <1>3, <1>8
    <2>2. i \in at(events[i].t)
        BY <1>3, <1>4
    <2>. HIDE DEF at
    <2>. QED BY <2>1, <2>2
<1>9. last \in SUBSET Int /\ \A u \in last : at(u) \in SUBSET Int
    BY <1>2
<1>10. \A u, i : i \in at(u) => i \in kept /\ events[i].t = u
    BY <1>4
<1>11. \A i \in kept : i \in at(events[i].t)
    BY <1>3, <1>4
<1>. HIDE DEF at, last
<1>12. \/ c = 0 /\ \A i \in kept : events[i].t > t
       \/ /\ c # 0
          /\ \E i \in kept :
                /\ track[c] = events[i] /\ events[i].t <= t
                /\ \A j \in kept : events[j].t <= t =>
                      events[j].t < events[i].t \/ (events[j].t = events[i].t /\ j <= i)
    <2>. HIDE DEF kept
    <2>1. IsFiniteSet(kept) /\ \A i \in kept : i \in Int /\ events[i].t \in Int
        BY <1>2, <1>3, FS_Subset
    <2>. QED BY <1>3, <2>1, LastOfTrack DEF track, c
<1>. HIDE DEF kept
<1>13. CASE c = 0 /\ \A i \in kept : events[i].t > t
    <2>1. last = {}
        BY <1>2, <1>3, <1>7, <1>13
    <2>. QED BY <1>5, <1>6, <1>13, <2>1
<1>14. CASE c # 0 /\ \E i \in kept :
                /\ track[c] = events[i] /\ events[i].t <= t
                /\ \A j \in kept : events[j].t <= t =>
                      events[j].t < events[i].t \/ (events[j].t = events[i].t /\ j <= i)
    <2>1. PICK i \in kept :
                /\ track[c] = events[i] /\ events[i].t <= t
                /\ \A j \in kept : events[j].t <= t =>
                      events[j].t < events[i].t \/ (events[j].t = events[i].t /\ j <= i)
        BY <1>14
    <2>. DEFINE u == events[i].t
    <2>2. u \in last /\ i \in at(u)
        BY <1>8, <1>11, <2>1
    <2>3. \A v \in last : v <= u
        BY <1>2, <1>3, <1>7, <2>1
    <2>4. \A j \in at(u) : j <= i
        BY <1>2, <1>3, <1>10, <2>1
    <2>. HIDE DEF u
    <2>5. Max(last) = u
        BY <1>9, <2>2, <2>3, MaxIs
    <2>6. Max(at(u)) = i
        BY <1>9, <2>2, <2>4, MaxIs
    <2>. QED BY <1>5, <1>6, <1>14, <2>1, <2>2, <2>5, <2>6
<1>. QED BY <1>12, <1>13, <1>14

(* The largest of some positions, or nothing.                                  *)
LEMMA TopOf ==
    ASSUME NEW n \in Nat, NEW S \in SUBSET (1 .. n)
    PROVE  /\ Max({0} \cup S) \in 0 .. n
           /\ Max({0} \cup S) \in {0} \cup S
           /\ \A k \in S : k <= Max({0} \cup S)
<1>1. IsFiniteSet(1 .. n)
    BY FS_Interval
<1>2. IsFiniteSet(S)
    BY <1>1, FS_Subset
<1>3. IsFiniteSet(S \cup {0})
    BY <1>2, FS_AddElement
<1>4. {0} \cup S = S \cup {0} /\ {0} \cup S \in SUBSET Int /\ {0} \cup S # {}
    OBVIOUS
<1>5. /\ Max({0} \cup S) \in {0} \cup S
      /\ \A k \in {0} \cup S : k <= Max({0} \cup S)
    BY <1>3, <1>4, FiniteMax
<1>. HIDE DEF Max
<1>6. CASE Max({0} \cup S) = 0
    BY <1>5, <1>6
<1>7. CASE Max({0} \cup S) \in S
    <2>1. Max({0} \cup S) \in 1 .. n
        BY <1>7
    <2>. QED BY <1>5, <2>1
<1>. QED BY <1>5, <1>6, <1>7

(* What is sorted is what was kept.                                           *)
LEMMA ByStart ==
    ASSUME NEW seq, NEW kept \in SUBSET (DOMAIN seq), IsFiniteSet(kept),
           \A i \in kept : i \in Int /\ seq[i].t0 \in Int,
           NEW track, track = ByTime(seq, kept, "t0"), NEW n, n = Cardinality(kept)
    PROVE  /\ n \in Nat /\ DOMAIN track = 1 .. n
           /\ \A k \in 1 .. n : \E i \in kept : track[k] = seq[i]
           /\ \A i \in kept : \E k \in 1 .. n : track[k] = seq[i]
<1>1. n \in Nat /\ DOMAIN track = 1 .. n
    BY ByTimeSorts
<1>2. PICK at \in [1 .. n -> kept] :
          /\ \A k \in 1 .. n : track[k] = seq[at[k]]
          /\ \A i \in kept : \E k \in 1 .. n : at[k] = i
    BY ByTimeSorts
<1>. QED BY <1>1, <1>2

(* What the index draws at an instant is what is live at it: no span that has   *)
(* begun and is not over is behind the point where the walk back ends.        *)
LEMMA DrawnIsLive ==
    ASSUME NEW r \in Runs, NEW t \in Nat, t <= AsLong
    PROVE  Drawn(Index[r], t) =
               {s \in SpanSet(Opened[r]) : s.kind \in {"rpc", "handler"} /\ LiveAt(s, t)}
<1>. DEFINE made  == Opened[r].spans
            kept   == Where(made, LAMBDA s : s.kind \in {"rpc", "handler"})
            live   == ByTime(made, kept, "t0")
            n      == Cardinality(kept)
            end(s) == IF s.t1 >= 0 THEN s.t1 ELSE Forever
            maxEnd == [i \in DOMAIN live |-> Max({end(live[j]) : j \in 1..i})]
            begun  == {i \in DOMAIN live : live[i].t0 <= t}
            last   == Max({0} \cup begun)
            stop   == {i \in 1..last : maxEnd[i] < t}
            from   == Max({0} \cup stop)
<1>1. /\ IsList(made) /\ \A s \in Range(made) : s.t0 \in Nat /\ s.t1 \in Nat \cup {Open}
      /\ t < Forever
    <2>1. AsLong \in Nat /\ AsLong < Forever
        BY AsLongOK
    <2>2. t < Forever
        BY <2>1 DEF Forever
    <2>. QED BY <2>2, TraceAssumption DEF WellFormed, SpanSet
<1>2. /\ Index[r].live = live
      /\ Index[r].maxEnd = maxEnd
    BY DEF Index, IndexOf
<1>3. kept \in SUBSET DOMAIN made /\ \A i \in DOMAIN made : i \in kept <=> made[i].kind \in {"rpc", "handler"}
    BY DEF Where
<1>. HIDE DEF made, kept
<1>4. IsFiniteSet(kept) /\ \A i \in kept : i \in Int /\ made[i].t0 \in Int
    <2>1. IsFiniteSet(DOMAIN made) /\ DOMAIN made \in SUBSET Int
        BY <1>1, ListDomain
    <2>2. \A i \in kept : made[i] \in Range(made)
        BY <1>3 DEF Range
    <2>. QED BY <1>1, <1>3, <2>1, <2>2, FS_Subset
<1>5. /\ n \in Nat /\ DOMAIN live = 1 .. n
      /\ \A k \in 1 .. n : \E i \in kept : live[k] = made[i]
      /\ \A i \in kept : \E k \in 1 .. n : live[k] = made[i]
    <2>1. kept \in SUBSET DOMAIN made
        BY <1>3
    <2>2. live = ByTime(made, kept, "t0") /\ n = Cardinality(kept)
        OBVIOUS
    <2>3. n \in Nat /\ DOMAIN live = 1 .. n
        <3>. HIDE DEF live, n, maxEnd, begun, last, stop, from, end
        <3>. QED BY <1>4, <2>1, <2>2, ByStart
    <2>. HIDE DEF live, n, maxEnd, begun, last, stop, from, end
    <2>4. /\ \A k \in 1 .. n : \E i \in kept : live[k] = made[i]
          /\ \A i \in kept : \E k \in 1 .. n : live[k] = made[i]
        BY <1>4, <2>1, <2>2, ByStart
    <2>. QED BY <2>3, <2>4
<1>. HIDE DEF n, live
<1>7. \A k \in 1 .. n : /\ live[k] \in Range(made) /\ live[k].kind \in {"rpc", "handler"}
                        /\ live[k].t0 \in Nat /\ end(live[k]) \in Nat
    <2>. TAKE k \in 1 .. n
    <2>1. PICK i \in kept : live[k] = made[i]
        BY <1>5
    <2>2. live[k] \in Range(made) /\ live[k].kind \in {"rpc", "handler"}
        BY <1>3, <2>1 DEF Range
    <2>3. live[k].t0 \in Nat /\ live[k].t1 \in Nat \cup {-1}
        BY <1>1, <2>2 DEF Open
    <2>4. end(live[k]) \in Nat
        BY <2>3 DEF Forever
    <2>. HIDE DEF end
    <2>. QED BY <2>2, <2>3, <2>4
<1>8. \A s \in Range(made) : s.kind \in {"rpc", "handler"} => \E k \in 1 .. n : live[k] = s
    <2>. TAKE s \in Range(made)
    <2>. HAVE s.kind \in {"rpc", "handler"}
    <2>1. PICK i \in DOMAIN made : made[i] = s
        BY DEF Range
    <2>. QED BY <1>3, <1>5, <2>1
<1>. HIDE DEF end
<1>9. begun \in SUBSET (1 .. n) /\ last \in 0 .. n /\ \A k \in begun : k <= last
    <2>1. begun \in SUBSET (1 .. n)
        BY <1>5
    <2>2. \A S \in SUBSET (1 .. n) : /\ Max({0} \cup S) \in 0 .. n
                                     /\ \A k \in S : k <= Max({0} \cup S)
        BY <1>5, TopOf
    <2>. HIDE DEF begun
    <2>. QED BY <2>1, <2>2
<1>. HIDE DEF begun, last
<1>10. \A i \in 1 .. n : \A k \in 1 .. i : maxEnd[i] \in Nat /\ end(live[k]) <= maxEnd[i]
    <2>. TAKE i \in 1 .. n
    <2>. DEFINE ends == {end(live[j]) : j \in 1 .. i}
                g == [j \in 1 .. i |-> end(live[j])]
    <2>1. \A j \in 1 .. i : end(live[j]) \in Nat
        <3>. TAKE j \in 1 .. i
        <3>1. n \in Nat /\ i \in 1 .. n
            BY <1>5
        <3>2. j \in 1 .. n
            BY <3>1
        <3>. QED BY <1>7, <3>2
    <2>2. IsFiniteSet(ends)
        <3>1. g \in Surjection(1 .. i, ends)
            BY DEF Surjection
        <3>2. IsFiniteSet(1 .. i)
            BY <1>5, FS_Interval
        <3>. HIDE DEF g, ends
        <3>. QED BY <3>1, <3>2, FS_Surjection
    <2>3. ends \in SUBSET Int /\ ends \in SUBSET Nat /\ \A k \in 1 .. i : end(live[k]) \in ends
        BY <2>1
    <2>4. maxEnd[i] = Max(ends)
        BY <1>5
    <2>. HIDE DEF ends, maxEnd
    <2>. TAKE k \in 1 .. i
    <2>5. Max(ends) \in ends /\ \A e \in ends : e <= Max(ends)
        BY <2>2, <2>3, FiniteMax
    <2>. QED BY <2>3, <2>4, <2>5
<1>. HIDE DEF maxEnd
<1>11. stop \in SUBSET (1 .. n) /\ from \in {0} \cup stop
    <2>1. stop \in SUBSET (1 .. n)
        BY <1>5, <1>9
    <2>2. \A S \in SUBSET (1 .. n) : Max({0} \cup S) \in {0} \cup S
        BY <1>5, TopOf
    <2>. HIDE DEF stop
    <2>. QED BY <2>1, <2>2
<1>12. \A i \in stop : i \in 1 .. n /\ i \in 1 .. last /\ maxEnd[i] < t
    BY <1>11
<1>13. Drawn(Index[r], t) = {live[i] : i \in {k \in 1..last : k > from /\ LiveAt(live[k], t)}}
    BY <1>2 DEF Drawn, begun, last
<1>. HIDE DEF from, stop
<1>14. ASSUME NEW k \in 1 .. n, LiveAt(live[k], t) PROVE k \in 1 .. last /\ k > from
    <2>1. live[k].t0 <= t /\ (live[k].t1 >= 0 => t <= live[k].t1)
        BY <1>14 DEF LiveAt
    <2>2. k \in begun
        BY <1>5, <2>1 DEF begun
    <2>3. k \in 1 .. last
        BY <1>5, <1>9, <2>2
    <2>4. t <= end(live[k])
        BY <1>1, <2>1 DEF end, Forever
    <2>5. ASSUME NEW i \in stop PROVE i < k
        <3>1. i \in 1 .. n /\ maxEnd[i] < t
            BY <1>12
        <3>2. CASE k <= i
            <4>1. k \in 1 .. i
                BY <1>5, <3>1, <3>2
            <4>2. maxEnd[i] \in Nat /\ end(live[k]) <= maxEnd[i]
                BY <1>10, <3>1, <4>1
            <4>3. end(live[k]) \in Nat
                BY <1>7
            <4>. QED BY <2>4, <3>1, <4>2, <4>3
        <3>. QED BY <1>5, <3>1, <3>2
    <2>. QED BY <1>5, <1>11, <2>3, <2>5
<1>15. last \in 0 .. n
    BY <1>9
<1>. DEFINE all == {s \in Range(made) : s.kind \in {"rpc", "handler"} /\ LiveAt(s, t)}
<1>16. ASSUME NEW s \in Drawn(Index[r], t) PROVE s \in all
    <2>1. PICK k \in 1 .. last : LiveAt(live[k], t) /\ s = live[k]
        BY <1>13
    <2>2. k \in 1 .. n
        BY <1>5, <1>15, <2>1
    <2>. QED BY <1>7, <2>1, <2>2
<1>17. ASSUME NEW s \in all PROVE s \in Drawn(Index[r], t)
    <2>1. PICK k \in 1 .. n : live[k] = s
        BY <1>8
    <2>2. k \in 1 .. last /\ k > from /\ LiveAt(live[k], t)
        BY <1>14, <2>1
    <2>. QED BY <1>13, <2>1, <2>2
<1>. QED BY <1>16, <1>17 DEF SpanSet, made

(* So the index answers what a scan would.                                    *)
LEMMA IndexScans ==
    ASSUME NEW r \in Runs, NEW t \in Nat, t <= AsLong
    PROVE  IndexIsTheScan(r, t)
<1>1. Drawn(Index[r], t) = SpansAt(Opened[r], t, "rpc") \cup SpansAt(Opened[r], t, "handler")
    BY DrawnIsLive DEF SpansAt
<1>. QED BY <1>1, NewestIsIndexed DEF IndexIsTheScan

-----------------------------------------------------------------------------
(* The charts of the Usage page.                                               *)

(* Whole numbers in their order.                                              *)
LEMMA AscendingSorts ==
    ASSUME NEW S \in SUBSET Int, IsFiniteSet(S), NEW n, n = Cardinality(S),
           NEW at, at = Ascending(S)
    PROVE  /\ n \in Nat /\ at \in [1 .. n -> S]
           /\ \A x \in S : \E k \in 1 .. n : at[k] = x
           /\ \A j, k \in 1 .. n : j < k => at[j] < at[k]
<1>. DEFINE R == {p \in S \X S : p[1] < p[2]}
<1>1. \A x, y \in S : <<x, y>> \in R <=> x < y
    OBVIOUS
<1>2. at = InOrder(S, R)
    BY DEF Ascending
<1>. HIDE DEF R
<1>3. /\ \A x \in S : <<x, x>> \notin R
      /\ \A x, y \in S : x # y => <<x, y>> \in R \/ <<y, x>> \in R
      /\ \A x, y, z \in S : <<x, y>> \in R /\ <<y, z>> \in R => <<x, z>> \in R
    <2>1. \A x \in S : <<x, x>> \notin R
        BY <1>1
    <2>2. \A x, y \in S : x # y => <<x, y>> \in R \/ <<y, x>> \in R
        BY <1>1
    <2>3. ASSUME NEW x \in S, NEW y \in S, NEW z \in S, <<x, y>> \in R, <<y, z>> \in R
          PROVE  <<x, z>> \in R
        <3>1. x \in Int /\ y \in Int /\ z \in Int
            OBVIOUS
        <3>. QED BY <1>1, <2>3, <3>1
    <2>. QED BY <2>1, <2>2, <2>3
<1>4. /\ n \in Nat
      /\ DOMAIN at = 1 .. n
      /\ \A k \in 1 .. n : at[k] \in S
      /\ \A x \in S : \E k \in 1 .. n : at[k] = x
      /\ \A j, k \in 1 .. n : j < k => <<at[j], at[k]>> \in R
    <2>1. /\ Cardinality(S) \in Nat
          /\ DOMAIN InOrder(S, R) = 1 .. Cardinality(S)
          /\ \A k \in 1 .. Cardinality(S) : InOrder(S, R)[k] \in S
          /\ \A x \in S : \E k \in 1 .. Cardinality(S) : InOrder(S, R)[k] = x
          /\ \A j, k \in 1 .. Cardinality(S) : j < k => <<InOrder(S, R)[j], InOrder(S, R)[k]>> \in R
        BY <1>3, InOrderSorts, Zenon
    <2>. QED BY <1>2, <2>1
<1>5. at \in [1 .. n -> S]
    BY <1>2, <1>4 DEF InOrder
<1>. QED BY <1>1, <1>4, <1>5

(* A stride is at least a sample, and one in a run that is short enough; a     *)
(* stride after a sample that is drawn there is one that is drawn.            *)
LEMMA StrideOK ==
    ASSUME NEW n \in Nat
    PROVE  /\ Stride(n) \in Nat \ {0}
           /\ n <= CAP => Stride(n) = 1
           /\ 0 % Stride(n) = 0
           /\ \A a \in Nat : a % Stride(n) = 0 => (a + Stride(n)) % Stride(n) = 0
<1>. DEFINE part == (n + CAP - 1) \div CAP
<1>1. CAP \in Nat \ {0} /\ part \in Int /\ CAP * part <= n + CAP - 1
    BY CapAssumption
<1>. HIDE DEF part
<1>2. Stride(n) = (IF 1 >= part THEN 1 ELSE part) /\ Stride(n) \in Nat \ {0}
    BY <1>1, MaxOfTwo DEF Stride, part
<1>3. n <= CAP => Stride(n) = 1
    <2>. HAVE n <= CAP
    <2>1. CASE part >= 2
        <3>1. CAP * part >= CAP * 2
            BY <1>1, <2>1
        <3>. QED BY <1>1, <3>1
    <2>. QED BY <1>1, <1>2, <2>1
<1>4. \A s \in Nat \ {0} : 0 % s = 0
    OBVIOUS
<1>5. ASSUME NEW s \in Nat \ {0}, NEW a \in Nat, a % s = 0 PROVE (a + s) % s = 0
    <2>1. a = s * (a \div s) /\ a \div s \in Int
        BY <1>5
    <2>2. \A q \in Int : (s * q + s) % s = 0
        OBVIOUS
    <2>. QED BY <2>1, <2>2
<1>. QED BY <1>2, <1>3, <1>4, <1>5

(* A chart is some of the samples, the first and the last among them, in       *)
(* their order.                                                                *)
Charted(trace) ==
    {i \in DOMAIN trace.times : (i - 1) % Stride(Len(trace.times)) = 0 \/ i = Len(trace.times)}

Chart(trace, vm, metric, m, at) ==
    /\ m \in Nat /\ at \in [1 .. m -> Charted(trace)]
    /\ whole(trace, vm, metric) =
           [k \in 1 .. m |-> <<trace.times[at[k]], Series(trace, vm, metric, at[k])>>]
    /\ \A i \in Charted(trace) : \E k \in 1 .. m : at[k] = i
    /\ \A j, k \in 1 .. m : j < k => at[j] < at[k]

(* What the Usage page draws of a series is such a chart.                     *)
LEMMA WholeOK ==
    ASSUME NEW trace, WellFormed(trace), NEW vm, NEW metric
    PROVE  \E m, at : Chart(trace, vm, metric, m, at)
<1>. DEFINE n    == Len(trace.times)
            S    == Charted(trace)
            m    == Cardinality(S)
            at   == Ascending(S)
<1>1. n \in Nat /\ DOMAIN trace.times = 1 .. n /\ IsFiniteSet(1 .. n)
    BY ListDomain DEF WellFormed
<1>2. S \in SUBSET Int /\ IsFiniteSet(S)
    <2>1. S \in SUBSET (1 .. n)
        BY <1>1 DEF Charted
    <2>. QED BY <1>1, <2>1, FS_Subset
<1>3. (IF n = 0 THEN {} ELSE {i \in 1 .. n : (i - 1) % Stride(n) = 0} \cup {n}) = S
    BY <1>1 DEF Charted
<1>. HIDE DEF S
<1>4. whole(trace, vm, metric) =
          [k \in DOMAIN at |-> <<trace.times[at[k]], Series(trace, vm, metric, at[k])>>]
    BY <1>3 DEF whole
<1>. HIDE DEF m, at
<1>5. /\ m \in Nat /\ at \in [1 .. m -> S]
      /\ \A x \in S : \E k \in 1 .. m : at[k] = x
      /\ \A j, k \in 1 .. m : j < k => at[j] < at[k]
    BY <1>2, AscendingSorts DEF m, at
<1>6. Chart(trace, vm, metric, m, at)
    BY <1>4, <1>5 DEF S, Chart
<1>. QED BY <1>6

(* What has happened of a chart ends with the last of its points by now - with *)
(* the first, before the first - all of it lies by now, and all that comes     *)
(* before the end is on the chart itself.                                      *)
EndsNow(q, pts, m, now) ==
    /\ m = 0 => q = <<>>
    /\ m # 0 => \E k \in 1 .. m :
          /\ Last(q)[2] = pts[k][2]
          /\ pts[k][1] <= now \/ (k = 1 /\ \A j \in 1 .. m : pts[j][1] > now)
          /\ \A j \in 1 .. m : pts[j][1] <= now => j <= k
    /\ \A p \in Range(q) : p[1] <= now /\ \E k \in 1 .. m : p[2] = pts[k][2]
    /\ \A j \in 1 .. Len(q) - 1 : \E k \in 1 .. m : q[j] = pts[k]

(* That is what upTo() answers.                                               *)
LEMMA UpToOK ==
    ASSUME NEW m \in Nat, NEW pts \in [1 .. m -> Nat \X Int],
           \A j, k \in 1 .. m : j < k => pts[j][1] < pts[k][1],
           NEW now \in Nat, NEW q, q = upTo(pts, now)
    PROVE  EndsNow(q, pts, m, now)
<1>. SUFFICES /\ m = 0 => q = <<>>
              /\ m # 0 => \E k \in 1 .. m :
                    /\ Last(q)[2] = pts[k][2]
                    /\ pts[k][1] <= now \/ (k = 1 /\ \A j \in 1 .. m : pts[j][1] > now)
                    /\ \A j \in 1 .. m : pts[j][1] <= now => j <= k
              /\ \A p \in Range(q) : p[1] <= now /\ \E k \in 1 .. m : p[2] = pts[k][2]
              /\ \A j \in 1 .. Len(q) - 1 : \E k \in 1 .. m : q[j] = pts[k]
    BY DEF EndsNow
<1>. DEFINE P == {i \in DOMAIN pts : pts[i][1] <= now}
            c == Cardinality(P)
            T == Nat \X Int
            head == SubSeq(pts, 1, c)
            tail == IF pts = <<>> \/ c = Len(pts) THEN <<>>
                    ELSE IF c > 0 THEN << <<now, pts[c][2]>> >>
                    ELSE << <<Min({now, pts[1][1]}), pts[1][2]>> >>
<1>1. pts \in Seq(T) /\ Len(pts) = m /\ (pts = <<>> <=> m = 0)
    OBVIOUS
<1>2. \A k \in 1 .. m : pts[k] \in T /\ pts[k][1] \in Nat /\ pts[k][2] \in Int
    OBVIOUS
<1>3. q = head \o tail
    BY DEF upTo
<1>4. c \in 0 .. m /\ P = 1 .. c
    <2>1. P \in SUBSET (1 .. m)
        OBVIOUS
    <2>2. \A i \in P : \A j \in 1 .. m : j < i => j \in P
        BY <1>2
    <2>. HIDE DEF P
    <2>. QED BY <2>1, <2>2, PrefixCount
<1>5. \A j \in 1 .. m : pts[j][1] <= now <=> j <= c
    <2>1. \A j \in 1 .. m : pts[j][1] <= now <=> j \in P
        OBVIOUS
    <2>. HIDE DEF P
    <2>. QED BY <1>4, <2>1
<1>. HIDE DEF P, c
<1>6. head \in Seq(T) /\ Len(head) = c /\ \A k \in 1 .. c : head[k] = pts[k]
    <2>1. \A k \in 1 .. c : pts[k] \in T
        BY <1>2, <1>4
    <2>. HIDE DEF T
    <2>. QED BY <1>4, <2>1, SubSeqProperties
<1>. HIDE DEF head
<1>7. CASE m = 0 \/ c = m
    <2>1. tail = <<>>
        BY <1>1, <1>7
    <2>2. q = head
        BY <1>3, <1>6, <2>1, ConcatEmptySeq
    <2>3. \A p \in Range(q) : \E k \in 1 .. c : p = pts[k]
        <3>1. q \in Seq(T) /\ Len(q) = c /\ \A k \in 1 .. c : q[k] = pts[k]
            BY <1>6, <2>2
        <3>2. DOMAIN q = 1 .. c
            BY <3>1
        <3>. HIDE DEF T
        <3>. QED BY <3>1, <3>2 DEF Range
    <2>4. \A j \in 1 .. Len(q) - 1 : \E k \in 1 .. m : q[j] = pts[k]
        <3>1. Len(q) = c /\ \A k \in 1 .. c : q[k] = pts[k]
            BY <1>6, <2>2
        <3>2. \A j \in 1 .. c - 1 : j \in 1 .. c /\ j \in 1 .. m
            BY <1>4
        <3>. QED BY <3>1, <3>2
    <2>5. CASE m = 0
        <3>1. c = 0 /\ q = <<>>
            BY <1>4, <1>6, <2>2, <2>5
        <3>. QED BY <2>3, <2>5, <2>4, <3>1
    <2>6. CASE m # 0
        <3>1. c = m /\ c \in 1 .. m
            BY <1>4, <1>7, <2>6
        <3>2. Last(q)[2] = pts[c][2]
            BY <1>6, <2>2, <3>1 DEF Last
        <3>. QED BY <1>2, <1>5, <2>3, <2>6, <2>4, <3>1, <3>2
    <2>. QED BY <2>5, <2>6
<1>8. CASE m # 0 /\ c # m
    <2>. DEFINE k == IF c > 0 THEN c ELSE 1
                u == IF c > 0 THEN now ELSE Min({now, pts[1][1]})
                e == <<u, pts[k][2]>>
    <2>1. k \in 1 .. m /\ u \in Nat /\ u <= now /\ e \in T
        <3>1. k \in 1 .. m /\ 1 \in 1 .. m
            BY <1>4, <1>8
        <3>2. u \in Nat /\ u <= now
            <4>1. pts[1][1] \in Nat
                BY <1>2, <3>1
            <4>2. Min({now, pts[1][1]}) \in Nat /\ Min({now, pts[1][1]}) <= now
                BY <4>1, MinOfTwo
            <4>3. u = now \/ u = Min({now, pts[1][1]})
                OBVIOUS
            <4>. HIDE DEF u
            <4>. QED BY <4>2, <4>3
        <3>3. pts[k][2] \in Int
            BY <1>2, <3>1
        <3>. HIDE DEF k, u
        <3>. QED BY <3>1, <3>2, <3>3
    <2>2. tail = <<e>>
        BY <1>1, <1>4, <1>8
    <2>. HIDE DEF u, e
    <2>3. q \in Seq(T) /\ Len(q) = c + 1 /\ q[c + 1] = e /\ \A j \in 1 .. c : q[j] = pts[j]
        <3>1. <<e>> \in Seq(T) /\ Len(<<e>>) = 1 /\ <<e>>[1] = e
            BY <2>1
        <3>. DEFINE one == <<e>>
        <3>2. q = head \o one
            BY <1>3, <2>2
        <3>. HIDE DEF T, one, tail
        <3>3. /\ q \in Seq(T) /\ Len(q) = c + 1
              /\ \A i \in 1 .. c + 1 : q[i] = IF i <= c THEN head[i] ELSE one[i - c]
            BY <1>6, <3>1, <3>2, ConcatProperties DEF one
        <3>4. q[c + 1] = one[1]
            BY <1>4, <3>3
        <3>5. \A j \in 1 .. c : q[j] = head[j]
            BY <1>4, <3>3
        <3>. QED BY <1>6, <3>1, <3>3, <3>4, <3>5 DEF one
    <2>4. Last(q)[2] = pts[k][2]
        BY <2>3 DEF Last, e
    <2>5. \A p \in Range(q) : p = e \/ \E j \in 1 .. c : p = pts[j]
        <3>. TAKE p \in Range(q)
        <3>1. PICK j \in 1 .. c + 1 : q[j] = p
            BY <1>4, <2>3 DEF Range
        <3>2. j = c + 1 \/ j \in 1 .. c
            BY <1>4
        <3>. QED BY <2>3, <3>1, <3>2
    <2>6. \A p \in Range(q) : p[1] <= now /\ \E j \in 1 .. m : p[2] = pts[j][2]
        <3>. TAKE p \in Range(q)
        <3>1. CASE p = e
            BY <2>1, <3>1 DEF e
        <3>2. CASE \E j \in 1 .. c : p = pts[j]
            <4>1. PICK j \in 1 .. c : p = pts[j]
                BY <3>2
            <4>2. j \in 1 .. m /\ j <= c
                BY <1>4
            <4>. QED BY <1>5, <4>1, <4>2
        <3>. QED BY <2>5, <3>1, <3>2
    <2>7. \A j \in 1 .. Len(q) - 1 : \E i \in 1 .. m : q[j] = pts[i]
        <3>1. Len(q) - 1 = c /\ \A j \in 1 .. c : j \in 1 .. m
            BY <1>4, <2>3
        <3>. QED BY <2>3, <3>1
    <2>8. CASE c > 0
        BY <1>4, <1>5, <1>8, <2>1, <2>4, <2>6, <2>8, <2>7
    <2>9. CASE c = 0
        <3>1. \A j \in 1 .. m : pts[j][1] > now
            BY <1>2, <1>5, <2>9
        <3>2. k = 1 /\ k \in 1 .. m
            BY <2>1, <2>9
        <3>. QED BY <1>2, <1>8, <2>4, <2>6, <2>7, <3>1, <3>2
    <2>. QED BY <1>4, <2>8, <2>9
<1>. QED BY <1>7, <1>8

(* Since the last sample that is drawn there have been fewer than a stride.    *)
LEMMA DrawnLately ==
    ASSUME NEW trace, WellFormed(trace), NEW now \in Nat, NEW i \in Charted(trace),
           trace.times[i] <= now,
           \A j \in Charted(trace) : trace.times[j] <= now => j <= i
    PROVE  Cardinality({j \in DOMAIN trace.times :
                           trace.times[i] < trace.times[j] /\ trace.times[j] <= now})
               < Stride(Len(trace.times))
<1>. DEFINE times == trace.times
            n     == Len(times)
            s     == Stride(n)
            since == {j \in DOMAIN times : times[i] < times[j] /\ times[j] <= now}
<1>1. /\ n \in Nat /\ DOMAIN times = 1 .. n /\ i \in 1 .. n
      /\ \A j \in 1 .. n : times[j] \in Nat
      /\ \A j, k \in 1 .. n : j < k => times[j] < times[k]
    <2>1. IsList(times)
        BY DEF WellFormed
    <2>2. n \in Nat /\ DOMAIN times = 1 .. n
        BY <2>1, ListDomain
    <2>. QED BY <2>2 DEF WellFormed, Charted
<1>2. s \in Nat \ {0} /\ \A a \in Nat : a % s = 0 => (a + s) % s = 0
    BY <1>1, StrideOK
<1>3. \A j \in 1 .. n : j \in Charted(trace) <=> ((j - 1) % s = 0 \/ j = n)
    BY <1>1 DEF Charted
<1>. HIDE DEF n, s, times
<1>4. CASE i = n
    <2>1. since = {}
        <3>. SUFFICES ASSUME NEW j \in since PROVE FALSE
            OBVIOUS
        <3>1. j \in 1 .. n /\ times[i] < times[j]
            BY <1>1
        <3>2. j = i \/ j < i
            BY <1>1, <1>4, <3>1
        <3>. QED BY <1>1, <3>1, <3>2
    <2>2. Cardinality(since) = 0
        BY <2>1, FS_EmptySet
    <2>. QED BY <1>2, <2>2 DEF times, n, s
<1>5. CASE i # n
    <2>. DEFINE nx == IF i + s <= n THEN i + s ELSE n
    <2>1. nx \in 1 .. n /\ i < nx /\ nx <= i + s
        BY <1>1, <1>2, <1>5
    <2>2. nx \in Charted(trace)
        <3>1. CASE i + s <= n
            <4>1. (i - 1) % s = 0 /\ i - 1 \in Nat
                BY <1>1, <1>3, <1>5
            <4>2. ((i - 1) + s) % s = 0
                BY <1>2, <4>1
            <4>3. (i - 1) + s = nx - 1
                BY <1>1, <1>2, <3>1
            <4>. QED BY <1>3, <2>1, <4>2, <4>3
        <3>2. CASE ~(i + s <= n)
            BY <1>3, <2>1, <3>2
        <3>. QED BY <3>1, <3>2
    <2>. HIDE DEF nx
    <2>3. times[nx] > now
        <3>1. times[nx] \in Nat /\ ~(nx <= i)
            BY <1>1, <2>1
        <3>2. ~(times[nx] <= now)
            BY <2>2, <3>1 DEF times
        <3>. QED BY <3>1, <3>2
    <2>4. since \in SUBSET ((i + 1) .. (nx - 1))
        <3>. SUFFICES ASSUME NEW j \in since PROVE j \in (i + 1) .. (nx - 1)
            OBVIOUS
        <3>1. j \in 1 .. n /\ times[i] < times[j] /\ times[j] <= now
            BY <1>1
        <3>2. j > i
            <4>1. j = i \/ j < i \/ j > i
                BY <1>1, <3>1
            <4>. QED BY <1>1, <3>1, <4>1
        <3>3. j < nx
            <4>1. j = nx \/ nx < j \/ j < nx
                BY <2>1, <3>1
            <4>. QED BY <1>1, <2>1, <2>3, <3>1, <4>1
        <3>. QED BY <1>1, <2>1, <3>1, <3>2, <3>3
    <2>. HIDE DEF since
    <2>5. IsFiniteSet((i + 1) .. (nx - 1)) /\ Cardinality((i + 1) .. (nx - 1)) <= s - 1
        <3>1. i + 1 \in Int /\ nx - 1 \in Int
            BY <1>1, <2>1
        <3>2. /\ IsFiniteSet((i + 1) .. (nx - 1))
              /\ Cardinality((i + 1) .. (nx - 1)) =
                    IF i + 1 > nx - 1 THEN 0 ELSE (nx - 1) - (i + 1) + 1
            BY <3>1, FS_Interval
        <3>. QED BY <1>1, <1>2, <2>1, <3>2
    <2>6. Cardinality(since) <= Cardinality((i + 1) .. (nx - 1)) /\ Cardinality(since) \in Nat
        BY <2>4, <2>5, FS_Subset, FS_CardinalityType
    <2>7. Cardinality((i + 1) .. (nx - 1)) \in Nat
        BY <2>5, FS_CardinalityType
    <2>8. Cardinality(since) < s
        BY <1>2, <2>5, <2>6, <2>7
    <2>. QED BY <2>8 DEF since, times, n, s
<1>. QED BY <1>4, <1>5

(* Where every sample is drawn, the last one drawn is what a node has now.     *)
LEMMA SeriesNow ==
    ASSUME NEW trace, WellFormed(trace), NEW vm, NEW metric, NEW now \in Nat,
           NEW i \in DOMAIN trace.times,
           \/ trace.times[i] <= now
           \/ i = 1 /\ \A j \in DOMAIN trace.times : trace.times[j] > now,
           \A j \in DOMAIN trace.times : trace.times[j] <= now => j <= i
    PROVE  Channel(trace, vm, metric, now) = Series(trace, vm, metric, i)
<1>. DEFINE c      == <<vm, metric>>
            v      == trace.channels[c]
            before == {k \in DOMAIN trace.times : trace.times[k] <= now}
<1>1. /\ DOMAIN trace.times = 1 .. Len(trace.times) /\ trace.times # <<>>
      /\ i \in Nat \ {0} /\ \A j \in DOMAIN trace.times : trace.times[j] \in Nat
    <2>1. Len(trace.times) \in Nat /\ DOMAIN trace.times = 1 .. Len(trace.times)
        BY ListDomain DEF WellFormed
    <2>2. trace.times # <<>>
        BY <2>1
    <2>. QED BY <2>1, <2>2 DEF WellFormed
<1>2. CASE c \notin DOMAIN trace.channels \/ v = <<>>
    BY <1>1, <1>2 DEF Channel, Series
<1>3. CASE c \in DOMAIN trace.channels /\ v # <<>>
    <2>. HIDE DEF c
    <2>1. IsList(v)
        BY <1>3 DEF WellFormed, Measured
    <2>2. Len(v) \in Nat \ {0}
        BY <1>3, <2>1, EmptyList, ListDomain
    <2>3. CASE trace.times[i] <= now
        <3>1. i \in before /\ \A j \in before : j <= i
            BY <2>3
        <3>2. before # {} /\ before \in SUBSET Int
            BY <1>1, <3>1
        <3>. HIDE DEF v, before
        <3>3. Max(before) = i
            BY <3>1, <3>2, MaxIs
        <3>. QED BY <1>1, <1>3, <3>2, <3>3 DEF Channel, Series, c, v, before
    <2>4. CASE i = 1 /\ \A j \in DOMAIN trace.times : trace.times[j] > now
        <3>1. before = {}
            BY <1>1, <2>4
        <3>2. Min({i, Len(v)}) = 1
            BY <2>2, <2>4, MinOfTwo
        <3>. HIDE DEF v, before
        <3>. QED BY <1>1, <1>3, <3>1, <3>2 DEF Channel, Series, c, v, before
    <2>. QED BY <2>3, <2>4
<1>. QED BY <1>2, <1>3

(* A reading is nothing, or one of its series.                                 *)
LEMMA SeriesReads ==
    ASSUME NEW trace, WellFormed(trace), NEW vm, NEW metric, NEW i \in Nat \ {0}
    PROVE  \/ Series(trace, vm, metric, i) = 0
           \/ /\ <<vm, metric>> \in DOMAIN trace.channels
              /\ \E k \in DOMAIN trace.channels[<<vm, metric>>] :
                     Series(trace, vm, metric, i) = trace.channels[<<vm, metric>>][k]
<1>. DEFINE c == <<vm, metric>>
            v == trace.channels[c]
<1>1. CASE c \notin DOMAIN trace.channels \/ v = <<>>
    BY <1>1 DEF Series
<1>2. CASE c \in DOMAIN trace.channels /\ v # <<>>
    <2>. HIDE DEF c
    <2>1. IsList(v)
        BY <1>2 DEF WellFormed, Measured
    <2>. HIDE DEF v
    <2>2. Len(v) \in Nat \ {0} /\ DOMAIN v = 1 .. Len(v)
        BY <1>2, <2>1, EmptyList, ListDomain
    <2>3. Min({i, Len(v)}) \in DOMAIN v
        BY <2>2, MinOfTwo
    <2>4. Series(trace, vm, metric, i) = v[Min({i, Len(v)})]
        BY <1>2 DEF Series, c, v
    <2>. QED BY <1>2, <2>3, <2>4 DEF c, v
<1>. QED BY <1>1, <1>2

(* The values of a chart are finitely many whole numbers.                      *)
LEMMA ChartValues ==
    ASSUME NEW trace, WellFormed(trace), NEW vm, NEW metric,
           NEW values, values = {p[2] : p \in Range(whole(trace, vm, metric))}
    PROVE  IsFiniteSet(values) /\ values \in SUBSET Int
<1>1. PICK m, at : Chart(trace, vm, metric, m, at)
    BY WholeOK
<1>. DEFINE q == whole(trace, vm, metric)
            g == [j \in 1 .. m |-> q[j][2]]
<1>2. m \in Nat /\ DOMAIN q = 1 .. m
    BY <1>1 DEF Chart
<1>3. \A j \in 1 .. m : q[j][2] \in Int
    <2>. TAKE j \in 1 .. m
    <2>1. q[j][2] = Series(trace, vm, metric, at[j]) /\ at[j] \in Charted(trace)
        BY <1>1 DEF Chart
    <2>2. DOMAIN trace.times = 1 .. Len(trace.times) /\ Len(trace.times) \in Nat
        BY ListDomain DEF WellFormed
    <2>3. at[j] \in DOMAIN trace.times
        BY <2>1 DEF Charted
    <2>4. at[j] \in Nat \ {0}
        BY <2>2, <2>3
    <2>. QED BY <2>1, <2>4, SeriesOK, NumbersAre
<1>. HIDE DEF q
<1>4. values = {q[j][2] : j \in 1 .. m}
    BY <1>2 DEF Range, q
<1>5. g \in Surjection(1 .. m, values)
    BY <1>4 DEF Surjection
<1>6. IsFiniteSet(1 .. m)
    BY <1>2, FS_Interval
<1>7. IsFiniteSet(values)
    <2>. HIDE DEF g
    <2>. QED BY <1>5, <1>6, FS_Surjection
<1>. QED BY <1>3, <1>4, <1>7

(* The ruler is as high as every point of every chart.                         *)
LEMMA RulerHolds ==
    ASSUME NEW trace, WellFormed(trace), NEW vm \in NodeNames(trace), NEW metric,
           metric # "diskPct", NEW m, NEW at, Chart(trace, vm, metric, m, at),
           NEW k \in 1 .. m
    PROVE  Series(trace, vm, metric, at[k]) <= tops(trace, metric)
<1>1. at[k] \in Nat \ {0}
    <2>1. DOMAIN trace.times = 1 .. Len(trace.times) /\ Len(trace.times) \in Nat
        BY ListDomain DEF WellFormed
    <2>2. at[k] \in DOMAIN trace.times
        BY DEF Chart, Charted
    <2>. QED BY <2>1, <2>2
<1>. DEFINE read == Series(trace, vm, metric, at[k])
<1>2. read \in Int
    BY <1>1, SeriesOK, NumbersAre
<1>3. CASE metric = "busyPct"
    <2>. DEFINE c == <<vm, metric>>
    <2>1. \/ read = 0
          \/ c \in DOMAIN trace.channels /\ \E j \in DOMAIN trace.channels[c] : read = trace.channels[c][j]
        BY <1>1, SeriesReads
    <2>2. c[2] = "busyPct"
        BY <1>3
    <2>. HIDE DEF c, read
    <2>3. read <= 100 * Percent
        BY <2>1, <2>2 DEF WellFormed, Measured, Percent
    <2>. QED BY <1>3, <2>3 DEF tops, read
<1>4. CASE metric # "busyPct"
    <2>. DEFINE values(n) == {p[2] : p \in Range(whole(trace, n, metric))}
                names == NodeNames(trace)
                all == {values(n) : n \in names}
                U == UNION {values(n) : n \in names}
    <2>1. tops(trace, metric) = Max({0} \cup U)
        BY <1>4 DEF tops
    <2>2. \A n \in names : IsFiniteSet(values(n)) /\ values(n) \in SUBSET Int
        BY ChartValues
    <2>3. read \in values(vm)
        <3>1. <<trace.times[at[k]], read>> \in Range(whole(trace, vm, metric))
            BY DEF Range, Chart
        <3>2. <<trace.times[at[k]], read>>[2] = read
            OBVIOUS
        <3>. QED BY <3>1, <3>2
    <2>. HIDE DEF values
    <2>4. IsFiniteSet(names)
        <3>1. IsFiniteSet({x["name"] : x \in Range(trace.nodes)})
            <4>1. IsList(trace.nodes)
                BY DEF WellFormed
            <4>. QED BY <4>1, FiniteField
        <3>. QED BY <3>1 DEF NodeNames
    <2>5. IsFiniteSet(all)
        <3>. DEFINE g == [n \in names |-> values(n)]
        <3>1. g \in Surjection(names, all)
            BY DEF Surjection
        <3>. HIDE DEF g, all, names
        <3>. QED BY <2>4, <3>1, FS_Surjection
    <2>6. \A T \in all : IsFiniteSet(T)
        BY <2>2
    <2>7. IsFiniteSet(U)
        <3>1. U = UNION all
            OBVIOUS
        <3>. HIDE DEF all, U
        <3>. QED BY <2>5, <2>6, <3>1, FS_UNION
    <2>8. read \in U /\ U \in SUBSET Int
        BY <2>2, <2>3
    <2>. HIDE DEF U, all, read
    <2>9. IsFiniteSet(U \cup {0}) /\ U \cup {0} = {0} \cup U
        BY <2>7, FS_AddElement
    <2>10. \A x \in {0} \cup U : x <= Max({0} \cup U)
        <3>1. {0} \cup U \in SUBSET Int /\ {0} \cup U # {}
            BY <2>8
        <3>. QED BY <2>9, <3>1, FiniteMax
    <2>. QED BY <2>1, <2>8, <2>10 DEF read
<1>. QED BY <1>3, <1>4

(* What a chart shows is what its node had.                                    *)
LEMMA ChartsRead ==
    ASSUME NEW r \in Runs, NEW now \in Nat
    PROVE  ChartsAreTheReadings(r, now)
<1>. DEFINE of       == Opened[r]
            times    == of.times
            n        == Len(times)
            since(i) == {j \in DOMAIN times : times[i] < times[j] /\ times[j] <= now}
            read     == {i \in DOMAIN times : times[i] <= now /\ Cardinality(since(i)) < Stride(n)}
<1>1. WellFormed(of)
    BY TraceAssumption
<1>2. SUFFICES ASSUME NEW vm \in NodeNames(of), NEW metric \in have(of),
                      NEW pts, pts = upTo(whole(of, vm, metric), now)
      PROVE  /\ \A k \in 1 .. Len(pts) - 1 : \E i \in DOMAIN times :
                    pts[k] = <<times[i], Series(of, vm, metric, i)>>
             /\ read # {} => Last(pts)[2] \in {Series(of, vm, metric, i) : i \in read}
             /\ n <= CAP => pts = <<>> \/ Last(pts)[2] = Channel(of, vm, metric, now)
             /\ \A p \in Range(pts) :
                    p[1] <= now /\ (metric # "diskPct" => p[2] <= tops(of, metric))
    BY DEF ChartsAreTheReadings
<1>. DEFINE value(i) == Series(of, vm, metric, i)
            q        == whole(of, vm, metric)
            S        == Charted(of)
<1>. HIDE DEF of
<1>3. /\ n \in Nat /\ DOMAIN times = 1 .. n /\ \A i \in 1 .. n : times[i] \in Nat
      /\ \A j, k \in 1 .. n : j < k => times[j] < times[k]
    <2>1. n \in Nat /\ DOMAIN times = 1 .. n
        BY <1>1, ListDomain DEF WellFormed
    <2>. QED BY <1>1, <2>1 DEF WellFormed
<1>4. S \in SUBSET (1 .. n) /\ \A i \in 1 .. n : i \in S <=> ((i - 1) % Stride(n) = 0 \/ i = n)
    BY <1>3 DEF Charted
<1>13. PICK m, at : Chart(of, vm, metric, m, at)
    BY <1>1, WholeOK
<1>5. /\ m \in Nat /\ at \in [1 .. m -> S]
      /\ q = [k \in 1 .. m |-> <<times[at[k]], value(at[k])>>]
      /\ \A i \in S : \E k \in 1 .. m : at[k] = i
      /\ \A j, k \in 1 .. m : j < k => at[j] < at[k]
    BY <1>13 DEF Chart
<1>6. \A k \in 1 .. m : at[k] \in 1 .. n /\ at[k] \in S /\ value(at[k]) \in Int
    <2>. TAKE k \in 1 .. m
    <2>1. at[k] \in 1 .. n /\ at[k] \in S
        BY <1>4, <1>5
    <2>2. at[k] \in Nat \ {0}
        BY <1>3, <2>1
    <2>. QED BY <1>1, <2>1, <2>2, SeriesOK, NumbersAre
<1>7. /\ q \in [1 .. m -> Nat \X Int]
      /\ \A k \in 1 .. m : q[k][1] = times[at[k]] /\ q[k][2] = value(at[k])
      /\ \A j, k \in 1 .. m : j < k => q[j][1] < q[k][1]
    <2>. HIDE DEF value, q, S, times, n
    <2>1. \A k \in 1 .. m : <<times[at[k]], value(at[k])>> \in Nat \X Int
        BY <1>3, <1>6
    <2>2. q \in [1 .. m -> Nat \X Int]
        BY <1>5, <2>1
    <2>3. \A k \in 1 .. m : q[k][1] = times[at[k]] /\ q[k][2] = value(at[k])
        BY <1>5
    <2>. QED BY <1>3, <1>5, <1>6, <2>2, <2>3
<1>. HIDE DEF value, q, S
<1>8. /\ m = 0 => pts = <<>>
      /\ m # 0 => \E k \in 1 .. m :
            /\ Last(pts)[2] = q[k][2]
            /\ q[k][1] <= now \/ (k = 1 /\ \A j \in 1 .. m : q[j][1] > now)
            /\ \A j \in 1 .. m : q[j][1] <= now => j <= k
      /\ \A p \in Range(pts) : p[1] <= now /\ \E k \in 1 .. m : p[2] = q[k][2]
      /\ \A j \in 1 .. Len(pts) - 1 : \E k \in 1 .. m : pts[j] = q[k]
    <2>1. pts = upTo(q, now)
        BY <1>2 DEF q
    <2>2. m \in Nat
        BY <1>5
    <2>. HIDE DEF since, read, n, times
    <2>3. q \in [1 .. m -> Nat \X Int]
        BY <1>7
    <2>4. \A j, k \in 1 .. m : j < k => q[j][1] < q[k][1]
        BY <1>7
    <2>5. EndsNow(pts, q, m, now)
        BY <2>1, <2>2, <2>3, <2>4, UpToOK
    <2>. QED BY <2>5 DEF EndsNow
<1>9. ASSUME NEW p \in Range(pts)
      PROVE  p[1] <= now /\ (metric # "diskPct" => p[2] <= tops(of, metric))
    <2>1. PICK k \in 1 .. m : p[2] = q[k][2]
        BY <1>8
    <2>2. p[2] = value(at[k])
        BY <1>7, <2>1
    <2>3. metric # "diskPct" => value(at[k]) <= tops(of, metric)
        BY <1>1, <1>13, RulerHolds DEF value
    <2>. QED BY <1>8, <2>2, <2>3
<1>14. \A j \in 1 .. Len(pts) - 1 : \E i \in DOMAIN times :
           pts[j] = <<times[i], Series(of, vm, metric, i)>>
    <2>. TAKE j \in 1 .. Len(pts) - 1
    <2>1. PICK k \in 1 .. m : pts[j] = q[k]
        BY <1>8
    <2>2. q[k] = <<times[at[k]], value(at[k])>> /\ at[k] \in DOMAIN times
        BY <1>3, <1>5, <1>6
    <2>. QED BY <2>1, <2>2 DEF value
<1>10. CASE n = 0
    <2>1. S = {} /\ DOMAIN times = {}
        BY <1>3, <1>4, <1>10
    <2>2. m = 0
        <3>1. CASE m # 0
            <4>1. 1 \in 1 .. m
                BY <1>5, <3>1
            <4>. QED BY <1>5, <2>1, <4>1
        <3>. QED BY <3>1
    <2>3. read = {}
        BY <2>1
    <2>. QED BY <1>8, <1>9, <1>14, <2>2, <2>3
<1>11. CASE n # 0
    <2>1. 1 \in S
        <3>1. 0 % Stride(n) = 0
            BY <1>3, StrideOK
        <3>. QED BY <1>3, <1>4, <1>11, <3>1
    <2>2. m # 0 /\ 1 \in 1 .. m
        <3>1. PICK k \in 1 .. m : at[k] = 1
            BY <1>5, <2>1
        <3>. QED BY <1>5, <3>1
    <2>3. at[1] = 1
        <3>1. PICK k \in 1 .. m : at[k] = 1
            BY <1>5, <2>1
        <3>2. k = 1 \/ 1 < k
            BY <3>1
        <3>. QED BY <1>5, <1>6, <2>2, <3>1, <3>2
    <2>4. PICK k \in 1 .. m :
            /\ Last(pts)[2] = q[k][2]
            /\ q[k][1] <= now \/ (k = 1 /\ \A j \in 1 .. m : q[j][1] > now)
            /\ \A j \in 1 .. m : q[j][1] <= now => j <= k
        BY <1>8, <2>2
    <2>. DEFINE i == at[k]
    <2>5. i \in 1 .. n /\ i \in S /\ Last(pts)[2] = value(i)
        BY <1>6, <1>7, <2>4
    <2>6. \A j \in S : times[j] <= now => j <= i
        <3>. TAKE j \in S
        <3>. HAVE times[j] <= now
        <3>1. PICK l \in 1 .. m : at[l] = j
            BY <1>5
        <3>2. l <= k
            BY <1>7, <2>4, <3>1
        <3>3. l = k \/ l < k
            BY <3>2
        <3>4. at[l] <= at[k]
            BY <1>5, <1>6, <3>3
        <3>. QED BY <3>1, <3>4
    <2>7. ASSUME read # {} PROVE Last(pts)[2] \in {Series(of, vm, metric, j) : j \in read}
        <3>1. PICK j \in DOMAIN times : times[j] <= now
            BY <2>7
        <3>2. times[1] <= now
            BY <1>3, <1>11, <3>1
        <3>3. q[1][1] <= now
            BY <1>7, <2>2, <2>3, <3>2
        <3>4. times[i] <= now
            <4>1. ~(q[1][1] > now)
                BY <1>7, <2>2, <3>3
            <4>. QED BY <1>7, <2>2, <2>4, <4>1
        <3>5. Cardinality(since(i)) < Stride(n)
            BY <1>1, <2>5, <2>6, <3>4, DrawnLately DEF S
        <3>6. i \in read
            BY <1>3, <2>5, <3>4, <3>5
        <3>. HIDE DEF read
        <3>. QED BY <2>5, <3>6 DEF value
    <2>8. ASSUME n <= CAP PROVE Last(pts)[2] = Channel(of, vm, metric, now)
        <3>1. \A j \in 1 .. n : j \in S
            <4>1. Stride(n) = 1
                BY <1>3, <2>8, StrideOK
            <4>2. \A a \in Int : a % 1 = 0
                OBVIOUS
            <4>. QED BY <1>4, <4>1, <4>2
        <3>2. \A j \in DOMAIN times : times[j] <= now => j <= i
            BY <1>3, <2>6, <3>1
        <3>3. times[i] <= now \/ (i = 1 /\ \A j \in DOMAIN times : times[j] > now)
            <4>1. CASE q[k][1] <= now
                BY <1>7, <4>1
            <4>2. CASE k = 1 /\ \A j \in 1 .. m : q[j][1] > now
                <5>1. \A j \in DOMAIN times : times[j] > now
                    <6>. TAKE j \in DOMAIN times
                    <6>1. PICK l \in 1 .. m : at[l] = j
                        BY <1>3, <1>5, <3>1
                    <6>. QED BY <1>7, <4>2, <6>1
                <5>. QED BY <2>3, <4>2, <5>1
            <4>. QED BY <2>4, <4>1, <4>2
        <3>4. i \in DOMAIN times
            BY <1>3, <2>5
        <3>5. Channel(of, vm, metric, now) = Series(of, vm, metric, i)
            BY <1>1, <3>2, <3>3, <3>4, SeriesNow
        <3>. QED BY <2>5, <3>5 DEF value
    <2>. QED BY <1>9, <1>14, <2>7, <2>8
<1>. QED BY <1>10, <1>11

(* What is drawn at an instant are the spans a scan of the whole trace finds   *)
(* and the newest values by their instants; the points of the charts up to it  *)
(* are readings, and the value a chart ends with is one the node had less than *)
(* a stride of samples ago, not always the one it has (EveryPageReadsTheTrace, *)
(* ChartsHoldWhatIsNow), of any runs and at any moment the clock can come to.  *)
THEOREM PagesReadTheTrace == Spec => []EveryPageReadsTheTrace
<1>1. StateInv => EveryPageReadsTheTrace
    <2>. SUFFICES ASSUME StateInv PROVE EveryPageReadsTheTrace
        OBVIOUS
    <2>1. run \in Runs /\ Shown.d \in 0 .. AsLong
        BY ShownKnown
    <2>2. IndexIsTheScan(run, Shown.d) /\ ChartsAreTheReadings(run, Shown.d)
        <3>1. AsLong \in Nat
            BY <2>1, AsLongOK
        <3>2. Shown.d \in Nat /\ Shown.d <= AsLong
            BY <2>1, <3>1
        <3>. QED BY <2>1, <3>2, IndexScans, ChartsRead
    <2>. QED BY <2>1, <2>2 DEF EveryPageReadsTheTrace, ReadsTheTrace
<1>. QED BY <1>1, StateInvariant, PTL

-----------------------------------------------------------------------------
(* While the film runs on.                                                     *)

(* A leg is a whole number. *)
LEMMA LegOK ==
    ASSUME NEW s, s.t0 \in Nat, s.net \in Nat, NEW end \in Int
    PROVE  Leg(s, end) \in Int
<1>1. 25 * s.net \in Int /\ 25 * (end - s.t0) \in Int /\ 6 * (end - s.t0) \in Int
    OBVIOUS
<1>2. Min({25 * s.net, 25 * (end - s.t0)}) \in Int
    BY <1>1, MinOfTwo
<1>. QED BY <1>1, <1>2, MaxOfTwo DEF Leg

(* A call gets on: it goes out, is gone or at work, comes back and is over.    *)
LEMMA CallGetsOn ==
    ASSUME NEW r \in Runs, NEW s \in SpanSet(Opened[r]), s.kind = "rpc",
           NEW t \in Nat, NEW u \in Nat, t <= u, u <= AsLong
    PROVE  Journey(Index[r], s, t) <= Journey(Index[r], s, u)
<1>. DEFINE ix  == Index[r]
            end == IF s.t1 >= 0 THEN s.t1 ELSE ix.duration
            leg == Leg(s, end)
            dead == DiedAt(s.lost) * leg
            gone == (DiedAt(s.lost) + 6) * leg
            stage(x) == IF LiveAt(s, x) THEN FlightOf(ix, s, x) ELSE "nothing"
<1>1. s.t0 \in Nat /\ s.t1 \in Nat \cup {-1} /\ s.net \in Nat
    BY TraceAssumption DEF WellFormed, Open
<1>2. end \in Int
    <2>1. ix.duration \in Int
        <3>1. ix.duration = Duration(Opened[r])
            BY DEF Index, IndexOf
        <3>. QED BY <3>1, DurationOK, TraceAssumption
    <2>. QED BY <1>1, <2>1
<1>. HIDE DEF end
<1>3. leg \in Int
    BY <1>1, <1>2, LegOK
<1>. HIDE DEF leg
<1>4. dead \in Int /\ gone \in Int
    BY <1>3 DEF DiedAt
<1>. HIDE DEF dead, gone
<1>5. \A x \in {t, u} : s \in Drawn(ix, x) <=> LiveAt(s, x)
    <2>1. AsLong \in Nat
        BY AsLongOK
    <2>2. \A x \in {t, u} : x \in Nat /\ x <= AsLong
        BY <2>1
    <2>. QED BY <2>2, DrawnIsLive
<1>6. \A x \in {t, u} : Journey(ix, s, x) =
          CASE x < s.t0 -> 0
            [] stage(x) = "out" -> 1
            [] stage(x) = "dying" -> 2
            [] stage(x) = "back" -> 4
            [] s.t1 >= 0 /\ x > s.t1 -> 5
            [] OTHER -> 3
    BY <1>5 DEF Journey
<1>. HIDE DEF stage
<1>7. \A x \in {t, u} : Journey(ix, s, x) \in {0, 1, 2, 3, 4, 5}
    BY <1>6
<1>8. \A x \in {t, u} : LiveAt(s, x) <=> (s.t0 <= x /\ (s.t1 >= 0 => x <= s.t1))
    BY DEF LiveAt
<1>9. CASE t < s.t0
    <2>1. Journey(ix, s, t) = 0
        <3>1. stage(t) = "nothing"
            BY <1>1, <1>8, <1>9 DEF stage
        <3>2. ~(s.t1 >= 0 /\ t > s.t1)
            <4>1. s.t1 # -1 => s.t0 <= s.t1
                BY TraceAssumption DEF WellFormed, Open
            <4>. QED BY <1>1, <1>9, <4>1
        <3>. QED BY <1>6, <1>9, <3>1, <3>2
    <2>2. \A x \in {0, 1, 2, 3, 4, 5} : 0 <= x
        OBVIOUS
    <2>. QED BY <1>7, <2>1, <2>2
<1>10. CASE s.t1 >= 0 /\ u > s.t1 /\ s.t0 <= t
    <2>1. ~(u < s.t0) /\ ~LiveAt(s, u)
        BY <1>1, <1>8, <1>10
    <2>2. stage(u) = "nothing"
        BY <2>1 DEF stage
    <2>3. Journey(ix, s, u) = 5
        BY <1>1, <1>6, <1>10, <2>1, <2>2
    <2>. QED BY <1>7, <2>3
<1>11. CASE s.t0 <= t /\ (s.t1 >= 0 => u <= s.t1)
    <2>1. /\ \A x \in {t, u} : ~(x < s.t0) /\ ~(s.t1 >= 0 /\ x > s.t1) /\ LiveAt(s, x)
          /\ \A x \in {t, u} : stage(x) = FlightOf(ix, s, x)
        <3>1. \A x \in {t, u} : ~(x < s.t0) /\ ~(s.t1 >= 0 /\ x > s.t1) /\ LiveAt(s, x)
            BY <1>1, <1>8, <1>11
        <3>. QED BY <3>1 DEF stage
    <2>2. \A x \in {t, u} : Journey(ix, s, x) =
              CASE stage(x) = "out" -> 1
                [] stage(x) = "dying" -> 2
                [] stage(x) = "back" -> 4
                [] OTHER -> 3
        BY <1>6, <2>1
    <2>3. CASE s.to = Nobody
        <3>1. \A x \in {t, u} : stage(x) = "nothing"
            BY <2>1, <2>3 DEF FlightOf
        <3>. QED BY <2>2, <3>1
    <2>4. CASE s.to # Nobody /\ s.lost # Nobody
        <3>1. \A x \in {t, u} : stage(x) =
                  IF 500 * (x - s.t0) > gone THEN "nothing"
                  ELSE IF 500 * (x - s.t0) <= dead THEN "out" ELSE "dying"
            BY <2>1, <2>4 DEF FlightOf, gone, dead, leg, end
        <3>2. 500 * (t - s.t0) \in Int /\ 500 * (u - s.t0) \in Int
              /\ 500 * (t - s.t0) <= 500 * (u - s.t0)
            BY <1>1
        <3>3. CASE 500 * (t - s.t0) > gone
            <4>1. 500 * (u - s.t0) > gone
                BY <1>4, <3>2, <3>3
            <4>2. stage(t) = "nothing" /\ stage(u) = "nothing"
                BY <3>1, <3>3, <4>1
            <4>. QED BY <2>2, <4>2
        <3>4. CASE ~(500 * (t - s.t0) > gone) /\ 500 * (t - s.t0) <= dead
            <4>1. stage(t) = "out"
                BY <3>1, <3>4
            <4>2. stage(u) \in {"nothing", "out", "dying"}
                BY <3>1
            <4>3. Journey(ix, s, t) = 1 /\ Journey(ix, s, u) \in {1, 2, 3}
                BY <2>2, <4>1, <4>2
            <4>. QED BY <4>3
        <3>5. CASE ~(500 * (t - s.t0) > gone) /\ ~(500 * (t - s.t0) <= dead)
            <4>1. ~(500 * (u - s.t0) <= dead)
                BY <1>4, <3>2, <3>5
            <4>2. stage(t) = "dying" /\ stage(u) \in {"nothing", "dying"}
                BY <3>1, <3>5, <4>1
            <4>3. Journey(ix, s, t) = 2 /\ Journey(ix, s, u) \in {2, 3}
                BY <2>2, <4>2
            <4>. QED BY <4>3
        <3>. QED BY <3>3, <3>4, <3>5
    <2>5. CASE s.to # Nobody /\ s.lost = Nobody
        <3>1. \A x \in {t, u} : stage(x) =
                  IF 50 * (x - s.t0) <= leg THEN "out"
                  ELSE IF 50 * x >= 50 * end - leg THEN "back" ELSE "nothing"
            BY <2>1, <2>5 DEF FlightOf, leg, end
        <3>2. \A x \in {t, u} : stage(x) \in {"out", "back", "nothing"}
            BY <3>1
        <3>3. CASE 50 * (t - s.t0) <= leg
            <4>1. stage(t) = "out"
                BY <3>1, <3>3
            <4>2. Journey(ix, s, t) = 1 /\ Journey(ix, s, u) \in {1, 3, 4}
                BY <2>2, <3>2, <4>1
            <4>. QED BY <4>2
        <3>4. CASE ~(50 * (t - s.t0) <= leg) /\ 50 * t >= 50 * end - leg
            <4>1. ~(50 * (u - s.t0) <= leg) /\ 50 * u >= 50 * end - leg
                BY <1>1, <1>2, <1>3, <3>4
            <4>2. stage(t) = "back" /\ stage(u) = "back"
                BY <3>1, <3>4, <4>1
            <4>. QED BY <2>2, <4>2
        <3>5. CASE ~(50 * (t - s.t0) <= leg) /\ ~(50 * t >= 50 * end - leg)
            <4>1. ~(50 * (u - s.t0) <= leg)
                BY <1>1, <1>3, <3>5
            <4>2. stage(t) = "nothing" /\ stage(u) \in {"back", "nothing"}
                BY <3>1, <3>5, <4>1
            <4>3. Journey(ix, s, t) = 3 /\ Journey(ix, s, u) \in {3, 4}
                BY <2>2, <4>2
            <4>. QED BY <4>3
        <3>. QED BY <3>3, <3>4, <3>5
    <2>. QED BY <2>3, <2>4, <2>5
<1>. QED BY <1>1, <1>9, <1>10, <1>11

(* A division, a part and a sum get no smaller while what they are of grows.   *)
LEMMA DivUp ==
    ASSUME NEW a \in Int, NEW b \in Int, NEW c \in Nat \ {0}, a <= b
    PROVE  a \div c <= b \div c
OBVIOUS

(* What is scaled up on both sides of a division divides the same.            *)
LEMMA DivScale ==
    ASSUME NEW a \in Int, NEW b \in Nat \ {0}, NEW g \in Nat \ {0}
    PROVE  (a * g) \div (g * b) = a \div b
<1>. DEFINE q == a \div b
<1>1. q \in Int /\ b * q <= a /\ a < b * q + b
    OBVIOUS
<1>. HIDE DEF q
<1>2. (b * q) * g <= a * g
    BY <1>1
<1>3. a * g < (b * q + b) * g
    BY <1>1
<1>4. (g * b) * q = (b * q) * g /\ (b * q + b) * g = (g * b) * q + g * b
    BY <1>1
<1>5. g * b \in Nat \ {0} /\ a * g \in Int /\ (g * b) * q \in Int
    BY <1>1
<1>6. \A x \in Int, c \in Nat \ {0}, y \in Int : c * y <= x /\ x < c * y + c => x \div c = y
    OBVIOUS
<1>7. (a * g) \div (g * b) = q
    BY <1>1, <1>2, <1>3, <1>4, <1>5, <1>6
<1>. QED BY <1>7 DEF q

(* Cut off at both ends, the larger stays the larger.                         *)
LEMMA ClampUp ==
    ASSUME NEW a \in Int, NEW b \in Int, a <= b
    PROVE  Clamp(a) <= Clamp(b)
<1>1. \A x \in Int : Clamp(x) = IF 0 >= x THEN 0 ELSE IF Whole <= x THEN Whole ELSE x
    <2>. TAKE x \in Int
    <2>1. Min({Whole, x}) = IF Whole <= x THEN Whole ELSE x
        BY MinOfTwo DEF Whole
    <2>2. Max({0, Min({Whole, x})}) = IF 0 >= Min({Whole, x}) THEN 0 ELSE Min({Whole, x})
        BY <2>1, MaxOfTwo DEF Whole
    <2>. QED BY <2>1, <2>2 DEF Clamp, Whole
<1>. QED BY <1>1 DEF Whole

(* The part of the time that has passed grows.                                *)
LEMMA ShareUp ==
    ASSUME NEW t \in Int, NEW u \in Int, t <= u, NEW of \in Nat \ {0}
    PROVE  Share(t, of) <= Share(u, of)
<1>1. Whole * t \in Int /\ Whole * u \in Int /\ Whole * t <= Whole * u
    BY DEF Whole
<1>. HIDE DEF Whole
<1>2. (Whole * t) \div of \in Int /\ (Whole * u) \div of \in Int
    BY <1>1
<1>3. (Whole * t) \div of <= (Whole * u) \div of
    BY <1>1, DivUp
<1>. QED BY <1>2, <1>3, ClampUp DEF Share

(* The bytes that have left are counted up, one node's and everyone's.         *)
LEMMA LevelUp ==
    ASSUME NEW trace, WellFormed(trace), NEW i \in Nat \ {0}, NEW j \in Nat \ {0}, i <= j
    PROVE  Level(trace, "bytesOutMb", i) <= Level(trace, "bytesOutMb", j)
<1>. DEFINE at(k) == [vm \in NodeNames(trace) |-> Series(trace, vm, "bytesOutMb", k)]
<1>1. ASSUME NEW vm PROVE Series(trace, vm, "bytesOutMb", i) <= Series(trace, vm, "bytesOutMb", j)
    <2>. DEFINE c == <<vm, "bytesOutMb">>
                v == trace.channels[c]
    <2>1. CASE c \notin DOMAIN trace.channels \/ v = <<>>
        BY <2>1 DEF Series
    <2>2. CASE c \in DOMAIN trace.channels /\ v # <<>>
        <3>1. c[2] = "bytesOutMb"
            OBVIOUS
        <3>. HIDE DEF c
        <3>2. /\ IsList(v) /\ \A k \in DOMAIN v : v[k] \in Int
              /\ \A k, l \in DOMAIN v : k < l => v[k] <= v[l]
            BY <2>2, <3>1 DEF WellFormed, Measured
        <3>. HIDE DEF v
        <3>3. Len(v) \in Nat \ {0} /\ DOMAIN v = 1 .. Len(v)
            BY <2>2, <3>2, EmptyList, ListDomain
        <3>4. /\ Min({i, Len(v)}) \in DOMAIN v /\ Min({j, Len(v)}) \in DOMAIN v
              /\ Min({i, Len(v)}) = Min({j, Len(v)}) \/ Min({i, Len(v)}) < Min({j, Len(v)})
            BY <3>3, MinOfTwo
        <3>5. v[Min({i, Len(v)})] <= v[Min({j, Len(v)})]
            BY <3>2, <3>4
        <3>. QED BY <2>2, <3>5 DEF Series, c, v
    <2>. QED BY <2>1, <2>2
<1>2. IsFiniteSet(NodeNames(trace))
    <2>1. IsList(trace.nodes)
        BY DEF WellFormed
    <2>2. IsFiniteSet({x["name"] : x \in Range(trace.nodes)})
        BY <2>1, FiniteField
    <2>. QED BY <2>2 DEF NodeNames
<1>3. \A vm \in NodeNames(trace) :
          at(i)[vm] \in Int /\ at(j)[vm] \in Int /\ at(i)[vm] <= at(j)[vm]
    BY <1>1, SeriesOK, NumbersAre
<1>4. SumFunctionOnSet(at(i), NodeNames(trace)) <= SumFunctionOnSet(at(j), NodeNames(trace))
    <2>. HIDE DEF at
    <2>. QED BY <1>2, <1>3, SumUp
<1>. QED BY <1>4 DEF Level, SumFunction

(* The area under a series is no smaller at a later sample.                    *)
LEMMA AreaUp ==
    ASSUME NEW trace, WellFormed(trace), NEW metric, metric \notin SIGNED,
           NEW i \in DOMAIN trace.times, NEW j \in DOMAIN trace.times, i <= j
    PROVE  Area(trace, metric, i) <= Area(trace, metric, j)
<1>. DEFINE strip(k) == (Level(trace, metric, k) + Level(trace, metric, k - 1))
                        * (trace.times[k] - trace.times[k - 1])
            upto(l) == [k \in 2 .. l |-> strip(k)]
            U == 2 .. i
            V == (i + 1) .. j
<1>1. i \in Nat \ {0} /\ j \in Nat \ {0} /\ DOMAIN trace.times = 1 .. Len(trace.times) /\ Len(trace.times) \in Nat
    BY ListDomain DEF WellFormed
<1>2. ASSUME NEW k \in 2 .. j PROVE strip(k) \in Nat
    <2>1. k \in DOMAIN trace.times /\ k - 1 \in DOMAIN trace.times /\ k - 1 < k
        BY <1>1
    <2>2. trace.times[k] - trace.times[k - 1] \in Nat
        BY <2>1 DEF WellFormed
    <2>3. Level(trace, metric, k) \in Nat /\ Level(trace, metric, k - 1) \in Nat
        BY <1>1, LevelOK
    <2>4. \A a, b, c \in Nat : (a + b) * c \in Nat
        OBVIOUS
    <2>. QED BY <2>2, <2>3, <2>4
<1>. HIDE DEF strip
<1>3. 2 .. j = IF i = j THEN U ELSE U \cup V
    <2>1. CASE i = j
        BY <2>1
    <2>2. CASE i # j
        BY <1>1, <2>2
    <2>. QED BY <2>1, <2>2
<1>4. IsFiniteSet(U) /\ IsFiniteSet(V) /\ U \cap V = {}
    <2>1. IsFiniteSet(U) /\ IsFiniteSet(V)
        BY <1>1, FS_Interval
    <2>. QED BY <1>1, <2>1
<1>5. \A k \in U : upto(i)[k] \in Nat /\ upto(j)[k] \in Nat /\ upto(i)[k] = upto(j)[k]
    BY <1>1, <1>2
<1>6. \A k \in V : i # j => upto(j)[k] \in Nat
    BY <1>1, <1>2
<1>7. Area(trace, metric, i) = SumFunctionOnSet(upto(i), U)
    BY DEF Area, SumFunction, strip
<1>8. Area(trace, metric, j) = SumFunctionOnSet(upto(j), 2 .. j)
    BY DEF Area, SumFunction, strip
<1>. HIDE DEF upto, U, V
<1>9. /\ SumFunctionOnSet(upto(i), U) = SumFunctionOnSet(upto(j), U)
      /\ SumFunctionOnSet(upto(j), U) \in Nat
    BY <1>4, <1>5, SumSame, SumNatural
<1>10. CASE i = j
    BY <1>3, <1>7, <1>8, <1>9, <1>10
<1>11. CASE i # j
    <2>1. \A k \in U \cup V : upto(j)[k] \in Int
        BY <1>5, <1>6, <1>11
    <2>2. SumFunctionOnSet(upto(j), U \cup V)
              = SumFunctionOnSet(upto(j), U) + SumFunctionOnSet(upto(j), V)
        BY <1>4, <2>1, SumUnion
    <2>3. SumFunctionOnSet(upto(j), V) \in Nat
        BY <1>4, <1>6, <1>11, SumNatural
    <2>4. 2 .. j = U \cup V
        BY <1>3, <1>11
    <2>5. Area(trace, metric, j) = Area(trace, metric, i) + SumFunctionOnSet(upto(j), V)
        BY <1>7, <1>8, <1>9, <2>2, <2>4
    <2>6. Area(trace, metric, i) \in Nat
        BY <1>7, <1>9
    <2>. QED BY <2>3, <2>5, <2>6
<1>. QED BY <1>10, <1>11

(* Between two samples a ramp rises from the one to the other.                 *)
RampAt(a, b, g, e, x) == (Whole * (a * g + (b - a) * x)) \div (g * e)

(* The ramp is never below where it starts, nor above where it ends.          *)
LEMMA RampUp ==
    ASSUME NEW a \in Nat, NEW b \in Nat, a <= b, NEW g \in Nat \ {0}, NEW e \in Nat \ {0},
           NEW x \in Nat, NEW y \in Nat, x <= y, y <= g
    PROVE  /\ RampAt(a, b, g, e, x) \in Int /\ RampAt(a, b, g, e, y) \in Int
           /\ RampAt(a, b, g, e, x) <= RampAt(a, b, g, e, y)
           /\ (Whole * a) \div e <= RampAt(a, b, g, e, x)
           /\ RampAt(a, b, g, e, y) <= (Whole * b) \div e
<1>. DEFINE P(z) == a * g + (b - a) * z
<1>1. /\ a * g \in Int /\ b * g \in Int /\ g * e \in Nat \ {0}
      /\ P(x) \in Int /\ P(y) \in Int
    <2>1. \A k, l \in Nat \ {0} : k * l \in Nat \ {0}
        OBVIOUS
    <2>2. \A k, l \in Int : k * l \in Int
        OBVIOUS
    <2>3. a * g \in Int /\ b * g \in Int /\ b - a \in Int
        BY <2>2
    <2>4. (b - a) * x \in Int /\ (b - a) * y \in Int
        BY <2>2, <2>3
    <2>. QED BY <2>1, <2>3, <2>4
<1>2. a * g <= P(x) /\ P(x) <= P(y) /\ P(y) <= b * g
    <2>. DEFINE d == b - a
    <2>1. d \in Nat /\ b = a + d
        OBVIOUS
    <2>. HIDE DEF d
    <2>2. 0 <= d * x /\ d * x <= d * y /\ d * y <= d * g /\ d * x \in Int /\ d * y \in Int /\ d * g \in Int
        <3>1. \A k, l, m \in Nat : l <= m => k * l <= k * m /\ 0 <= k * l
            OBVIOUS
        <3>. QED BY <2>1, <3>1
    <2>3. b * g = a * g + d * g
        BY <2>1
    <2>. QED BY <1>1, <2>2, <2>3 DEF d
<1>. HIDE DEF P
<1>3. /\ Whole * (a * g) = (Whole * a) * g /\ Whole * (b * g) = (Whole * b) * g
      /\ Whole * a \in Int /\ Whole * b \in Int
    BY DEF Whole
<1>4. /\ Whole * (a * g) \in Int /\ Whole * P(x) \in Int /\ Whole * P(y) \in Int
      /\ Whole * (b * g) \in Int
      /\ Whole * (a * g) <= Whole * P(x) /\ Whole * P(x) <= Whole * P(y)
      /\ Whole * P(y) <= Whole * (b * g)
    BY <1>1, <1>2 DEF Whole
<1>. HIDE DEF Whole
<1>5. /\ (Whole * (a * g)) \div (g * e) = (Whole * a) \div e
      /\ (Whole * (b * g)) \div (g * e) = (Whole * b) \div e
    <2>1. \A k \in Int : (k * g) \div (g * e) = k \div e
        BY DivScale
    <2>. QED BY <1>3, <2>1
<1>6. /\ (Whole * (a * g)) \div (g * e) <= (Whole * P(x)) \div (g * e)
      /\ (Whole * P(x)) \div (g * e) <= (Whole * P(y)) \div (g * e)
      /\ (Whole * P(y)) \div (g * e) <= (Whole * (b * g)) \div (g * e)
    BY <1>1, <1>4, DivUp
<1>7. (Whole * P(x)) \div (g * e) \in Int /\ (Whole * P(y)) \div (g * e) \in Int
    BY <1>1, <1>4
<1>. QED BY <1>5, <1>6, <1>7 DEF RampAt, P

(* Where a series stands at t: flat before the first sample and after the      *)
(* last, on a ramp in between.                                                 *)
StandsAt(trace, value, end, t, q) ==
    LET times == trace.times
        n     == Len(times)
    IN  /\ Follow(trace, value, t) = Clamp(q)
        /\ \/ t <= times[1] /\ q = (Whole * value[1]) \div end
           \/ t > times[1] /\ t >= times[n] /\ q = (Whole * value[n]) \div end
           \/ \E lo \in 1 .. n - 1 :
                 /\ t > times[1] /\ t < times[n]
                 /\ times[lo] <= t /\ t < times[lo + 1]
                 /\ q = RampAt(value[lo], value[lo + 1], times[lo + 1] - times[lo], end, t - times[lo])

(* A series always stands somewhere.                                          *)
LEMMA FollowAt ==
    ASSUME NEW trace, WellFormed(trace), NEW value, NEW t \in Int, Len(trace.times) # 0,
           NEW end, end = IF value[Len(trace.times)] = 0 THEN 1 ELSE value[Len(trace.times)]
    PROVE  \E q : StandsAt(trace, value, end, t, q)
<1>. DEFINE times == trace.times
            n     == Len(times)
            lo    == Max({i \in 1..n : times[i] <= t})
            ramp  == RampAt(value[lo], value[lo + 1], times[lo + 1] - times[lo], end, t - times[lo])
<1>1. n \in Nat \ {0} /\ DOMAIN times = 1 .. n /\ times[1] \in Nat /\ times[n] \in Nat
    <2>1. n \in Nat \ {0} /\ DOMAIN times = 1 .. n
        BY ListDomain DEF WellFormed
    <2>. QED BY <2>1 DEF WellFormed
<1>2. CASE t <= times[1]
    <2>1. StandsAt(trace, value, end, t, (Whole * value[1]) \div end)
        BY <1>1, <1>2 DEF StandsAt, Follow
    <2>. QED BY <2>1
<1>3. CASE ~(t <= times[1]) /\ t >= times[n]
    <2>1. StandsAt(trace, value, end, t, (Whole * value[n]) \div end)
        BY <1>1, <1>3 DEF StandsAt, Follow
    <2>. QED BY <2>1
<1>4. CASE ~(t <= times[1]) /\ ~(t >= times[n])
    <2>1. times[1] < t /\ t < times[n]
        BY <1>1, <1>4
    <2>. HIDE DEF lo
    <2>2. /\ lo \in DOMAIN times /\ lo + 1 \in DOMAIN times
          /\ times[lo] <= t /\ t < times[lo + 1]
        <3>. DEFINE begun == {i \in 1..n : times[i] <= t}
        <3>1. \A i : i \in begun <=> i \in 1 .. Len(trace.times) /\ trace.times[i] <= t
            OBVIOUS
        <3>2. lo = Max(begun)
            BY DEF lo
        <3>. HIDE DEF begun
        <3>. QED BY <1>1, <2>1, <3>1, <3>2, Between
    <2>3. lo \in 1 .. n - 1
        BY <1>1, <2>2
    <2>4. Follow(trace, value, t) = Clamp(ramp)
        BY <1>1, <1>4 DEF Follow, RampAt, lo
    <2>5. StandsAt(trace, value, end, t, ramp)
        BY <1>1, <2>1, <2>2, <2>3, <2>4 DEF StandsAt
    <2>. QED BY <2>5
<1>. QED BY <1>2, <1>3, <1>4

(* What follows a series that never falls never falls.                        *)
LEMMA FollowUp ==
    ASSUME NEW trace, WellFormed(trace), NEW value,
           \A i \in DOMAIN trace.times : value[i] \in Nat,
           \A i, j \in DOMAIN trace.times : i <= j => value[i] <= value[j],
           NEW t \in Int, NEW u \in Int, t <= u
    PROVE  Follow(trace, value, t) <= Follow(trace, value, u)
<1>. DEFINE times == trace.times
            n     == Len(times)
            end   == IF value[n] = 0 THEN 1 ELSE value[n]
            base(i) == (Whole * value[i]) \div end
            ramp(lo, x) == RampAt(value[lo], value[lo + 1], times[lo + 1] - times[lo], end, x - times[lo])
<1>1. n \in Nat /\ DOMAIN times = 1 .. n
    BY ListDomain DEF WellFormed
<1>2. CASE n = 0
    BY <1>2 DEF Follow
<1>3. CASE n # 0
    <2>1. /\ \A i \in 1 .. n : times[i] \in Nat /\ value[i] \in Nat
          /\ \A i, j \in 1 .. n : i < j => times[i] < times[j]
          /\ \A i, j \in 1 .. n : i <= j => value[i] <= value[j]
        BY <1>1 DEF WellFormed
    <2>2. 1 \in 1 .. n /\ n \in 1 .. n
        BY <1>1, <1>3
    <2>3. end \in Nat \ {0}
        BY <2>1, <2>2
    <2>. HIDE DEF end
    <2>4. \A i \in 1 .. n : base(i) \in Int
        <3>. TAKE i \in 1 .. n
        <3>1. Whole * value[i] \in Int
            BY <2>1 DEF Whole
        <3>. QED BY <2>3, <3>1
    <2>5. \A i, j \in 1 .. n : i <= j => base(i) <= base(j)
        <3>. TAKE i, j \in 1 .. n
        <3>. HAVE i <= j
        <3>1. Whole * value[i] \in Int /\ Whole * value[j] \in Int /\ Whole * value[i] <= Whole * value[j]
            BY <2>1 DEF Whole
        <3>. QED BY <2>3, <3>1, DivUp
    <2>6. ASSUME NEW lo \in 1 .. n - 1, NEW x \in Int, NEW y \in Int,
                 times[lo] <= x, x <= y, y < times[lo + 1]
          PROVE  /\ ramp(lo, x) \in Int /\ ramp(lo, y) \in Int
                 /\ base(lo) <= ramp(lo, x) /\ ramp(lo, x) <= ramp(lo, y)
                 /\ ramp(lo, y) <= base(lo + 1)
        <3>1. lo \in 1 .. n /\ lo + 1 \in 1 .. n
            BY <1>1
        <3>2. /\ times[lo + 1] - times[lo] \in Nat \ {0}
              /\ x - times[lo] \in Nat /\ y - times[lo] \in Nat
              /\ x - times[lo] <= y - times[lo]
              /\ y - times[lo] <= times[lo + 1] - times[lo]
            BY <2>1, <2>6, <3>1
        <3>3. value[lo] \in Nat /\ value[lo + 1] \in Nat /\ value[lo] <= value[lo + 1]
            BY <1>1, <2>1, <3>1
        <3>. QED BY <2>3, <3>2, <3>3, RampUp
    <2>14. \A lo \in 1 .. n - 1, x \in Int : times[lo] <= x /\ x < times[lo + 1] =>
               ramp(lo, x) \in Int /\ base(lo) <= ramp(lo, x) /\ ramp(lo, x) <= base(lo + 1)
        <3>. TAKE lo \in 1 .. n - 1, x \in Int
        <3>. HAVE times[lo] <= x /\ x < times[lo + 1]
        <3>1. x <= x
            OBVIOUS
        <3>. HIDE DEF base, ramp
        <3>. QED BY <2>6, <3>1
    <2>. HIDE DEF base, ramp
    <2>7. PICK p : StandsAt(trace, value, end, t, p)
        BY <1>3, FollowAt DEF end
    <2>8. PICK q : StandsAt(trace, value, end, u, q)
        BY <1>3, FollowAt DEF end
    <2>9. \/ t <= times[1] /\ p = base(1)
          \/ t > times[1] /\ t >= times[n] /\ p = base(n)
          \/ \E lo \in 1 .. n - 1 :
                 /\ t > times[1] /\ t < times[n]
                 /\ times[lo] <= t /\ t < times[lo + 1] /\ p = ramp(lo, t)
        BY <2>7 DEF StandsAt, base, ramp
    <2>10. \/ u <= times[1] /\ q = base(1)
           \/ u > times[1] /\ u >= times[n] /\ q = base(n)
           \/ \E lo \in 1 .. n - 1 :
                 /\ u > times[1] /\ u < times[n]
                 /\ times[lo] <= u /\ u < times[lo + 1] /\ q = ramp(lo, u)
        BY <2>8 DEF StandsAt, base, ramp
    <2>11. p \in Int /\ q \in Int
        BY <2>2, <2>4, <2>9, <2>10, <2>14
    <2>12. p <= q
        <3>1. times[1] \in Nat /\ times[n] \in Nat /\ base(1) <= base(n)
            BY <1>1, <2>1, <2>2, <2>5
        <3>2. CASE t <= times[1] /\ p = base(1)
            <4>1. CASE \E lo \in 1 .. n - 1 : times[lo] <= u /\ u < times[lo + 1] /\ q = ramp(lo, u)
                <5>1. PICK lo \in 1 .. n - 1 : times[lo] <= u /\ u < times[lo + 1] /\ q = ramp(lo, u)
                    BY <4>1
                <5>2. lo \in 1 .. n /\ 1 <= lo
                    BY <1>1
                <5>3. base(1) <= base(lo) /\ base(lo) <= q /\ base(1) \in Int /\ base(lo) \in Int
                    BY <2>2, <2>4, <2>5, <2>14, <5>1, <5>2
                <5>. QED BY <2>11, <3>2, <5>3
            <4>. QED BY <2>2, <2>4, <2>10, <3>1, <3>2, <4>1
        <3>3. CASE t > times[1] /\ t >= times[n] /\ p = base(n)
            <4>1. u > times[1] /\ u >= times[n]
                BY <3>1, <3>3
            <4>2. q = base(n)
                BY <2>10, <3>1, <4>1
            <4>. QED BY <2>2, <2>4, <3>3, <4>2
        <3>4. CASE \E lo \in 1 .. n - 1 :
                       /\ t > times[1] /\ t < times[n]
                       /\ times[lo] <= t /\ t < times[lo + 1] /\ p = ramp(lo, t)
            <4>1. PICK lo \in 1 .. n - 1 :
                       /\ t > times[1] /\ t < times[n]
                       /\ times[lo] <= t /\ t < times[lo + 1] /\ p = ramp(lo, t)
                BY <3>4
            <4>2. lo \in 1 .. n /\ lo + 1 \in 1 .. n
                BY <1>1
            <4>3. p <= base(lo + 1) /\ base(lo + 1) \in Int
                BY <2>4, <2>14, <4>1, <4>2
            <4>4. u > times[1]
                BY <3>1, <4>1
            <4>5. CASE u >= times[n]
                <5>1. q = base(n)
                    BY <2>10, <3>1, <4>4, <4>5
                <5>2. base(lo + 1) <= base(n) /\ base(n) \in Int
                    BY <1>1, <2>2, <2>4, <2>5, <4>2
                <5>. QED BY <2>11, <4>3, <5>1, <5>2
            <4>6. CASE u < times[n]
                <5>1. PICK hi \in 1 .. n - 1 : times[hi] <= u /\ u < times[hi + 1] /\ q = ramp(hi, u)
                    BY <2>10, <3>1, <4>4, <4>6
                <5>2. hi \in 1 .. n /\ hi + 1 \in 1 .. n
                    BY <1>1
                <5>3. lo <= hi
                    <6>1. CASE hi < lo
                        <7>1. times[hi + 1] <= times[lo]
                            <8>1. hi + 1 = lo \/ hi + 1 < lo
                                BY <6>1
                            <8>. QED BY <2>1, <4>2, <5>2, <8>1
                        <7>. QED BY <2>1, <4>1, <4>2, <5>1, <5>2, <7>1
                    <6>. QED BY <6>1
                <5>4. CASE lo = hi
                    BY <2>6, <4>1, <5>1, <5>4
                <5>5. CASE lo < hi
                    <6>1. base(lo + 1) <= base(hi) /\ base(hi) \in Int
                        BY <2>4, <2>5, <4>2, <5>2, <5>5
                    <6>2. base(hi) <= q
                        BY <2>14, <5>1
                    <6>. QED BY <2>11, <4>3, <6>1, <6>2
                <5>. QED BY <5>3, <5>4, <5>5
            <4>. QED BY <3>1, <4>5, <4>6
        <3>. QED BY <2>9, <3>2, <3>3, <3>4
    <2>13. Follow(trace, value, t) = Clamp(p) /\ Follow(trace, value, u) = Clamp(q)
        BY <2>7, <2>8 DEF StandsAt
    <2>. QED BY <2>11, <2>12, <2>13, ClampUp
<1>. QED BY <1>2, <1>3

(* What has left, and what has been held, only grows. *)
LEMMA EgressUp ==
    ASSUME NEW trace, WellFormed(trace), NEW t \in Int, NEW u \in Int, t <= u
    PROVE  Egress(trace, t) <= Egress(trace, u)
<1>. DEFINE value == [i \in DOMAIN trace.times |-> Level(trace, "bytesOutMb", i)]
<1>1. \A i \in DOMAIN trace.times : i \in Nat \ {0}
    BY ListDomain DEF WellFormed
<1>2. /\ \A i \in DOMAIN trace.times : value[i] \in Nat
      /\ \A i, j \in DOMAIN trace.times : i <= j => value[i] <= value[j]
    BY <1>1, LevelOK, LevelUp DEF SIGNED
<1>. HIDE DEF value
<1>3. Follow(trace, value, t) <= Follow(trace, value, u)
    BY <1>2, FollowUp
<1>4. Cumulative(trace, t) <= Cumulative(trace, u)
    BY <1>3 DEF Cumulative, value
<1>5. Share(t, Duration(trace)) <= Share(u, Duration(trace))
    BY DurationOK, ShareUp
<1>. QED BY <1>4, <1>5 DEF Egress

(* The same of what has been held.                                            *)
LEMMA IntegralUp ==
    ASSUME NEW trace, WellFormed(trace), NEW t \in Int, NEW u \in Int, t <= u
    PROVE  Integral(trace, t) <= Integral(trace, u)
<1>. DEFINE value == [i \in DOMAIN trace.times |-> Area(trace, "diskMb", i)]
<1>1. /\ \A i \in DOMAIN trace.times : value[i] \in Nat
      /\ \A i, j \in DOMAIN trace.times : i <= j => value[i] <= value[j]
    BY AreaOK, AreaUp DEF SIGNED
<1>. HIDE DEF value
<1>2. Follow(trace, value, t) <= Follow(trace, value, u)
    BY <1>1, FollowUp
<1>. QED BY <1>2 DEF Integral, value

(* So does what has arrived of a line, and the money for it.                   *)
LEMMA SoFarUp ==
    ASSUME NEW trace, WellFormed(trace), NEW bill, IsBill(bill), NEW i \in DOMAIN bill.lines,
           NEW t \in Int, NEW u \in Int, t <= u
    PROVE  SoFar(trace, bill, bill.lines[i], t) <= SoFar(trace, bill, bill.lines[i], u)
<1>. DEFINE line == bill.lines[i]
            p == Shape(trace, bill, line, t)
            q == Shape(trace, bill, line, u)
            billed == Max({bill.minimum, BilledRefMs(trace)})
            paid(x) == Max({bill.minimum, x})
<1>1. Share(t, Duration(trace)) <= Share(u, Duration(trace))
    BY DurationOK, ShareUp
<1>2. Share(paid(t), billed) <= Share(paid(u), billed)
    <2>1. BilledRefMs(trace) \in Nat \ {0}
        BY MaxOfTwo DEF BilledRefMs, WellFormed
    <2>2. billed \in Nat \ {0} /\ paid(t) \in Int /\ paid(u) \in Int /\ paid(t) <= paid(u)
        BY <2>1, MaxOfTwo DEF IsBill
    <2>. HIDE DEF billed, paid
    <2>. QED BY <2>2, ShareUp
<1>3. p <= q
    BY <1>1, <1>2, EgressUp, IntegralUp DEF Shape
<1>4. p \in Int /\ q \in Int /\ line.amount \in Nat
    <2>1. p \in 0 .. Whole /\ q \in 0 .. Whole
        BY ShapeOK
    <2>. HIDE DEF p, q
    <2>. QED BY <2>1 DEF IsBill, Whole
<1>. HIDE DEF p, q
<1>5. line.amount * p \in Int /\ line.amount * q \in Int /\ line.amount * p <= line.amount * q
    <2>1. \A a \in Nat, x, y \in Int : x <= y => a * x <= a * y /\ a * x \in Int /\ a * y \in Int
        OBVIOUS
    <2>. QED BY <1>3, <1>4, <2>1
<1>6. (line.amount * p) \div Whole <= (line.amount * q) \div Whole
    BY <1>5, DivUp DEF Whole
<1>. QED BY <1>6 DEF SoFar, p, q

(* And what has happened of a count. *)
LEMMA CountUp ==
    ASSUME NEW trace, WellFormed(trace), NEW bill, IsBill(bill), NEW what,
           NEW t \in Int, NEW u \in Int, t <= u
    PROVE  CountShape(trace, bill, what, t) <= CountShape(trace, bill, what, u)
<1>. DEFINE over == BilledRefMs(trace) - bill.sla
            seen == {i \in DOMAIN trace.events : trace.events[i].kind \in Counts[what]}
            by(x) == {i \in seen : trace.events[i].t <= x}
            part(x) == (Whole * Cardinality(by(x))) \div Cardinality(seen)
<1>1. CASE what = "late"
    <2>1. over \in Int
        <3>1. BilledRefMs(trace) \in Int
            BY MaxOfTwo DEF BilledRefMs, WellFormed
        <3>. QED BY <3>1 DEF IsBill
    <2>. HIDE DEF over
    <2>2. CASE over <= 0
        BY <1>1, <2>2 DEF CountShape, Whole, over
    <2>3. CASE ~(over <= 0)
        <3>1. bill.sla \in Int
            BY DEF IsBill
        <3>2. /\ Whole * (t - bill.sla) \in Int /\ Whole * (u - bill.sla) \in Int
              /\ Whole * (t - bill.sla) <= Whole * (u - bill.sla)
            BY <3>1 DEF Whole
        <3>. HIDE DEF Whole
        <3>3. /\ (Whole * (t - bill.sla)) \div over \in Int /\ (Whole * (u - bill.sla)) \div over \in Int
              /\ (Whole * (t - bill.sla)) \div over <= (Whole * (u - bill.sla)) \div over
            BY <2>1, <2>3, <3>2, DivUp
        <3>4. Clamp((Whole * (t - bill.sla)) \div over) <= Clamp((Whole * (u - bill.sla)) \div over)
            BY <3>3, ClampUp
        <3>. QED BY <1>1, <2>3, <3>4 DEF CountShape, over
    <2>. QED BY <2>2, <2>3
<1>2. CASE what = "traffic"
    BY <1>2, EgressUp DEF CountShape
<1>3. CASE what = "unknown"
    BY <1>3, DurationOK, ShareUp DEF CountShape
<1>4. CASE what \notin {"late", "traffic", "unknown"}
    <2>1. IsFiniteSet(seen) /\ seen \in SUBSET DOMAIN trace.events
        <3>1. IsFiniteSet(DOMAIN trace.events)
            BY ListDomain DEF WellFormed
        <3>. QED BY <3>1, FS_Subset
    <2>2. \A i \in DOMAIN trace.events : trace.events[i].t \in Nat
        <3>1. \A i \in DOMAIN trace.events : trace.events[i] \in Range(trace.events)
            BY DEF Range
        <3>. QED BY <3>1 DEF WellFormed
    <2>. HIDE DEF seen
    <2>3. CASE seen = {}
        BY <1>4, <2>3 DEF CountShape, Whole, seen
    <2>4. CASE seen # {}
        <3>1. by(t) \in SUBSET by(u) /\ by(u) \in SUBSET seen
            BY <2>1, <2>2
        <3>2. Cardinality(seen) \in Nat \ {0}
            BY <2>1, <2>4, FS_EmptySet, FS_CardinalityType
        <3>. HIDE DEF by
        <3>3. IsFiniteSet(by(u))
            BY <2>1, <3>1, FS_Subset
        <3>4. /\ Cardinality(by(t)) \in Nat /\ Cardinality(by(u)) \in Nat
              /\ Cardinality(by(t)) <= Cardinality(by(u))
            BY <3>1, <3>3, FS_Subset, FS_CardinalityType
        <3>5. /\ Whole * Cardinality(by(t)) \in Int /\ Whole * Cardinality(by(u)) \in Int
              /\ Whole * Cardinality(by(t)) <= Whole * Cardinality(by(u))
            BY <3>4 DEF Whole
        <3>6. part(t) <= part(u)
            BY <3>2, <3>5, DivUp
        <3>. QED BY <1>4, <2>4, <3>6 DEF CountShape, seen, by
    <2>. QED BY <2>3, <2>4
<1>. QED BY <1>1, <1>2, <1>3, <1>4

(* A film that plays only moves forward: no call turns round or is on the wire *)
(* a second time, and no line of the bill takes money back (RunsForward).      *)
THEOREM FilmRunsForward == Spec => RunsForward
<1>1. ASSUME StateInv, StateInv', [Next]_vars
      PROVE  [(FilmTick /\ against = Nobody) => (OnlyForward /\ BillOnlyGrows)]_vars
    <2>. SUFFICES ASSUME FilmTick PROVE OnlyForward /\ BillOnlyGrows
        OBVIOUS
    <2>1. run \in Runs /\ run' = run
        BY <1>1 DEF StateInv, FilmTick, Others
    <2>2. film.d \in Nat /\ film'.d \in Nat /\ film.d <= film'.d /\ film'.d <= AsLong
        <3>1. PICK n \in 1 .. 2 : film' = Tick(film, n)
            BY DEF FilmTick
        <3>2. FilmOK(film) /\ FilmOK(film')
            BY <1>1 DEF StateInv
        <3>3. AsLong \in Nat
            BY <2>1, AsLongOK
        <3>4. film.d <= film'.d
            BY <3>1, <3>2, TickOK DEF FilmOK
        <3>. QED BY <3>2, <3>3, <3>4 DEF FilmOK, ClockOK, Clocks
    <2>3. OnlyForward
        BY <2>1, <2>2, CallGetsOn DEF OnlyForward, tr
    <2>4. BillOnlyGrows
        <3>1. WellFormed(Opened[run]) /\ IsBill(Bill[run])
            BY <2>1, TraceAssumption, BillAssumption
        <3>2. film.d \in Int /\ film'.d \in Int
            BY <2>2
        <3>. QED BY <2>1, <2>2, <3>1, <3>2, SoFarUp, CountUp DEF BillOnlyGrows, tr
    <2>. QED BY <2>3, <2>4
<1>. QED BY <1>1, StateInvariant, PTL DEF Spec, RunsForward

-----------------------------------------------------------------------------
(* The picture.  First the order of the columns and of what is in them, then   *)
(* the sizes and the rooms, then where every node stands, and last that no two *)
(* stand so near that one covers the other.                                    *)

(* What is in a set and not above any of it is its smallest.                  *)
LEMMA FiniteMin ==
    ASSUME NEW S \in SUBSET Nat, S # {}
    PROVE  Min(S) \in S /\ \A y \in S : Min(S) <= y
<1>1. \E x \in S : \A y \in S : x <= y
    BY LeastNatural
<1>. QED BY <1>1 DEF Min

(* When a node was first called is an instant of the run.                     *)
LEMMA FirstCallOK ==
    ASSUME NEW trace, WellFormed(trace), NEW vm
    PROVE  FirstCall(trace, vm) \in Nat
<1>1. CallsTo(trace, vm) \in SUBSET Nat
    BY DEF CallsTo, WellFormed
<1>. QED BY <1>1, FiniteMin DEF FirstCall

(* The nodes of a run are finitely many, and each is known by its name.       *)
LEMMA NamesOK ==
    ASSUME NEW trace, WellFormed(trace)
    PROVE  /\ IsFiniteSet(NodeNames(trace))
           /\ \A vm \in NodeNames(trace) :
                  /\ NodeOf(trace, vm) \in Range(trace.nodes)
                  /\ NodeOf(trace, vm).name = vm
                  /\ NodeOf(trace, vm).zone \in Zones(trace)
           /\ IsFiniteSet(Zones(trace)) /\ Zones(trace) \in SUBSET (Nat \ {0})
<1>1. IsFiniteSet(NodeNames(trace)) /\ IsFiniteSet(Zones(trace))
    <2>1. IsList(trace.nodes)
        BY DEF WellFormed
    <2>2. IsFiniteSet({m["name"] : m \in Range(trace.nodes)})
          /\ IsFiniteSet({m["zone"] : m \in Range(trace.nodes)})
        BY <2>1, FiniteField
    <2>. QED BY <2>2 DEF NodeNames, Zones
<1>2. ASSUME NEW vm \in NodeNames(trace)
      PROVE  NodeOf(trace, vm) \in Range(trace.nodes) /\ NodeOf(trace, vm).name = vm
    <2>1. \E m \in Range(trace.nodes) : m.name = vm
        BY DEF NodeNames
    <2>. QED BY <2>1 DEF NodeOf
<1>3. Zones(trace) \in SUBSET (Nat \ {0})
    BY DEF Zones, WellFormed
<1>. QED BY <1>1, <1>2, <1>3 DEF Zones

(* As a list: what is put in an order that is total, each of it once.         *)
LEMMA InOrderList ==
    ASSUME NEW S, IsFiniteSet(S), NEW order,
           \A x \in S : <<x, x>> \notin order,
           \A x, y \in S : x # y => <<x, y>> \in order \/ <<y, x>> \in order,
           \A x, y, z \in S : <<x, y>> \in order /\ <<y, z>> \in order => <<x, z>> \in order
    PROVE  /\ Cardinality(S) \in Nat
           /\ InOrder(S, order) \in [1 .. Cardinality(S) -> S]
           /\ \A x \in S : \E k \in 1 .. Cardinality(S) : InOrder(S, order)[k] = x
<1>1. /\ Cardinality(S) \in Nat
      /\ DOMAIN InOrder(S, order) = 1 .. Cardinality(S)
      /\ \A k \in 1 .. Cardinality(S) : InOrder(S, order)[k] \in S
      /\ \A x \in S : \E k \in 1 .. Cardinality(S) : InOrder(S, order)[k] = x
      /\ \A j, k \in 1 .. Cardinality(S) :
             j < k => <<InOrder(S, order)[j], InOrder(S, order)[k]>> \in order
    BY InOrderSorts, Zenon
<1>. QED BY <1>1 DEF InOrder

(* The nodes of a role are put in the order of a column, each of them once.   *)
LEMMA CallOrderSorts ==
    ASSUME NEW trace, WellFormed(trace), NEW rank, rank \in Injection(DOMAIN rank, Nat),
           NEW role \in SUBSET NodeNames(trace), \A vm \in role : vm \in DOMAIN rank,
           NEW column, column = InOrder(role, CallOrder(trace, rank, role))
    PROVE  /\ Cardinality(role) \in Nat
           /\ column \in [1 .. Cardinality(role) -> role]
           /\ \A vm \in role : \E k \in 1 .. Cardinality(role) : column[k] = vm
<1>. DEFINE first(vm) == FirstCall(trace, vm)
            R == CallOrder(trace, rank, role)
<1>1. /\ \A vm \in role : first(vm) \in Nat /\ rank[vm] \in Nat
      /\ \A x, y \in role : rank[x] = rank[y] => x = y
    BY FirstCallOK DEF Injection, IsInjective
<1>2. IsFiniteSet(role)
    BY NamesOK, FS_Subset
<1>3. \A x, y \in role : <<x, y>> \in R <=>
          first(x) < first(y) \/ (first(x) = first(y) /\ rank[x] < rank[y])
    BY DEF CallOrder
<1>. HIDE DEF first, R
<1>4. \A x \in role : <<x, x>> \notin R
    BY <1>1, <1>3
<1>5. \A x, y \in role : x # y => <<x, y>> \in R \/ <<y, x>> \in R
    BY <1>1, <1>3
<1>6. \A x, y, z \in role : <<x, y>> \in R /\ <<y, z>> \in R => <<x, z>> \in R
    BY <1>1, <1>3
<1>7. column = InOrder(role, R)
    BY DEF R
<1>. QED BY <1>2, <1>4, <1>5, <1>6, <1>7, InOrderList

(* How early a role was at work: whole numbers.                               *)
LEMMA WorkingOK ==
    ASSUME NEW trace, WellFormed(trace), NEW role
    PROVE  Working(trace, role).n \in Nat /\ Working(trace, role).sum \in Nat
<1>. DEFINE at == {s \in SpanSet(trace) : s.kind = "handler" /\ s.vm \in role}
            f  == [s \in at |-> s.t0]
<1>1. IsFiniteSet(at)
    <2>1. IsFiniteSet(SpanSet(trace))
        BY FiniteRange DEF WellFormed, SpanSet
    <2>. QED BY <2>1, FS_Subset
<1>2. \A s \in at : f[s] \in Nat
    BY DEF WellFormed
<1>3. Working(trace, role).n = Cardinality(at) /\ Working(trace, role).sum = SumFunctionOnSet(f, at)
    BY DEF Working
<1>. HIDE DEF at, f
<1>. QED BY <1>1, <1>2, <1>3, FS_CardinalityType, SumNatural

(* An average as a fraction.                                                  *)
Average(a) == a.n \in Nat /\ a.sum \in Nat

(* Of two averages one is the earlier or neither is.                          *)
LEMMA NeverBothEarlier ==
    ASSUME NEW a, Average(a), NEW b, Average(b), Earlier(a, b)
    PROVE  ~Earlier(b, a)
<1>1. a.n \in Nat /\ a.sum \in Nat /\ b.n \in Nat /\ b.sum \in Nat
    BY DEF Average
<1>2. a.sum * b.n \in Nat /\ b.sum * a.n \in Nat
    BY <1>1
<1>. QED BY <1>1, <1>2 DEF Earlier

(* What is not later than another, which is not later than a third, is not    *)
(* later than that.                                                           *)
LEMMA NotLater ==
    ASSUME NEW a, Average(a), NEW b, Average(b), NEW c, Average(c),
           ~Earlier(b, a), ~Earlier(c, b)
    PROVE  ~Earlier(c, a)
<1>1. /\ a.n \in Nat /\ a.sum \in Nat /\ b.n \in Nat /\ b.sum \in Nat
      /\ c.n \in Nat /\ c.sum \in Nat
    BY DEF Average
<1>2. CASE c.n = 0
    BY <1>1, <1>2 DEF Earlier
<1>3. CASE c.n > 0
    <2>1. b.n > 0 /\ b.sum * c.n <= c.sum * b.n
        <3>1. b.sum * c.n \in Nat /\ c.sum * b.n \in Nat
            BY <1>1
        <3>. QED BY <1>1, <1>3, <3>1 DEF Earlier
    <2>2. a.n > 0 /\ a.sum * b.n <= b.sum * a.n
        <3>1. a.sum * b.n \in Nat /\ b.sum * a.n \in Nat
            BY <1>1
        <3>. QED BY <1>1, <2>1, <3>1 DEF Earlier
    <2>3. a.sum * c.n <= c.sum * a.n
        <3>. DEFINE p == a.sum   q == b.sum   r == c.sum   i == a.n   j == b.n   k == c.n
        <3>. p \in Nat /\ q \in Nat /\ r \in Nat /\ i \in Nat /\ j \in Nat \ {0} /\ k \in Nat
            BY <1>1, <2>1
        <3>1. p * j <= q * i /\ q * k <= r * j
            BY <2>1, <2>2
        <3>. HIDE DEF p, q, r, i, j, k
        <3>2. (p * j) * k <= (q * i) * k /\ (q * k) * i <= (r * j) * i
            BY <3>1
        <3>3. (q * i) * k = (q * k) * i /\ (p * j) * k = (p * k) * j /\ (r * j) * i = (r * i) * j
            OBVIOUS
        <3>4. (p * k) * j <= (r * i) * j
            BY <3>2, <3>3
        <3>5. p * k <= r * i
            <4>. DEFINE x == p * k   y == r * i
            <4>. x \in Nat /\ y \in Nat
                OBVIOUS
            <4>1. x * j <= y * j
                BY <3>4
            <4>. HIDE DEF x, y
            <4>2. x <= y
                BY <4>1
            <4>. QED BY <4>2 DEF x, y
        <3>. QED BY <3>5 DEF p, r, i, k
    <2>4. a.sum * c.n \in Nat /\ c.sum * a.n \in Nat
        BY <1>1
    <2>. QED BY <1>1, <1>3, <2>2, <2>3, <2>4 DEF Earlier
<1>. QED BY <1>1, <1>2, <1>3

(* What is counted from 1 is a sequence.                                      *)
LEMMA CountedIsSeq ==
    ASSUME NEW n \in Nat, NEW S, NEW f \in [1 .. n -> S]
    PROVE  f \in Seq(S) /\ Len(f) = n
OBVIOUS

(* Where the system is entered: some of the nodes.                            *)
LEMMA DriversOK ==
    ASSUME NEW trace, WellFormed(trace)
    PROVE  Drivers(trace) \in Seq(NodeNames(trace))
<1>. DEFINE entry == IF HasRoot(trace) /\ Root(trace)[1].vm # Nobody
                     THEN Root(trace)[1].vm ELSE trace.entry
            named == Where(trace.nodes, LAMBDA m : m.name = entry)
            uncalled == Where(trace.nodes, LAMBDA m : CallsTo(trace, m.name) = {})
            kept == IF named # {} THEN named ELSE uncalled
            at   == Ascending(kept)
            n    == Cardinality(kept)
<1>1. kept \in SUBSET (DOMAIN trace.nodes)
    BY DEF Where
<1>2. kept \in SUBSET Int /\ IsFiniteSet(kept)
    <2>1. DOMAIN trace.nodes = 1 .. Len(trace.nodes) /\ IsFiniteSet(DOMAIN trace.nodes)
          /\ Len(trace.nodes) \in Nat
        BY ListDomain DEF WellFormed
    <2>. HIDE DEF kept
    <2>2. IsFiniteSet(kept)
        BY <1>1, <2>1, FS_Subset
    <2>. QED BY <1>1, <2>1, <2>2
<1>3. Drivers(trace) = [k \in DOMAIN at |-> trace.nodes[at[k]].name]
    BY DEF Drivers
<1>. HIDE DEF kept
<1>4. n \in Nat /\ at \in [1 .. n -> kept]
    BY <1>2, AscendingSorts
<1>5. \A i \in kept : trace.nodes[i].name \in NodeNames(trace)
    BY <1>1 DEF NodeNames, Range
<1>. HIDE DEF at, n
<1>6. Drivers(trace) \in [1 .. n -> NodeNames(trace)]
    BY <1>3, <1>4, <1>5
<1>. QED BY <1>4, <1>6, CountedIsSeq

(* The order of two services and of two nodes tells any two of them apart.    *)
Ranked(trace, serviceRank, nameRank) ==
    /\ serviceRank \in Injection(DOMAIN serviceRank, Nat)
    /\ nameRank \in Injection(DOMAIN nameRank, Nat)
    /\ \A m \in Range(trace.nodes) :
           Range(m.serves) \in DOMAIN serviceRank /\ m.name \in DOMAIN nameRank

(* The order of the roles, which are finitely many, is total.                 *)
LEMMA RolesAreOrdered ==
    ASSUME NEW trace, WellFormed(trace), NEW rank, NEW nameRank, Ranked(trace, rank, nameRank),
           NEW rest \in SUBSET NodeNames(trace), NEW roles,
           roles = RolesOf(trace, rest),
           NEW order, order = RoleOrder(trace, rank, roles)
    PROVE  /\ IsFiniteSet(roles)
           /\ \A x \in roles : <<x, x>> \notin order
           /\ \A x, y \in roles : x # y => <<x, y>> \in order \/ <<y, x>> \in order
           /\ \A x, y, z \in roles : <<x, y>> \in order /\ <<y, z>> \in order => <<x, z>> \in order
<1>. DEFINE when(a)  == Working(trace, a)
            offer(a) == rank[Offers(trace, CHOOSE vm \in a : TRUE)]
            R == RoleOrder(trace, rank, roles)
<1>1. IsFiniteSet(roles)
    <2>. DEFINE g == [vm \in rest |-> {o \in rest : Offers(trace, o) = Offers(trace, vm)}]
    <2>1. IsFiniteSet(rest)
        BY NamesOK, FS_Subset
    <2>2. g \in Surjection(rest, roles)
        BY DEF Surjection, RolesOf
    <2>. QED BY <2>1, <2>2, FS_Surjection
<1>2. \A a \in roles : Average(when(a))
    BY WorkingOK DEF Average
<1>3. ASSUME NEW a \in roles
      PROVE  /\ offer(a) \in Nat
             /\ Offers(trace, CHOOSE vm \in a : TRUE) \in DOMAIN rank
             /\ \A vm \in rest : vm \in a <=> Offers(trace, vm) = Offers(trace, CHOOSE o \in a : TRUE)
    <2>1. PICK vm \in rest : a = {o \in rest : Offers(trace, o) = Offers(trace, vm)}
        BY DEF RolesOf
    <2>2. vm \in a
        BY <2>1
    <2>. DEFINE one == CHOOSE o \in a : TRUE
    <2>3. one \in a
        BY <2>2
    <2>. HIDE DEF one
    <2>4. one \in rest /\ Offers(trace, one) = Offers(trace, vm)
        BY <2>1, <2>3
    <2>5. Offers(trace, one) \in DOMAIN rank
        BY <2>4, NamesOK DEF Offers, Ranked
    <2>6. rank[Offers(trace, one)] \in Nat
        BY <2>5 DEF Ranked, Injection
    <2>7. \A o \in rest : o \in a <=> Offers(trace, o) = Offers(trace, one)
        BY <2>1, <2>4
    <2>. QED BY <2>5, <2>6, <2>7 DEF one
<1>4. ASSUME NEW a \in roles, NEW b \in roles, offer(a) = offer(b) PROVE a = b
    <2>1. Offers(trace, CHOOSE vm \in a : TRUE) = Offers(trace, CHOOSE vm \in b : TRUE)
        BY <1>3, <1>4 DEF Ranked, Injection, IsInjective
    <2>2. \A vm \in rest : vm \in a <=> vm \in b
        BY <1>3, <2>1
    <2>3. a \in SUBSET rest /\ b \in SUBSET rest
        BY DEF RolesOf
    <2>. QED BY <2>2, <2>3
<1>5. \A x, y \in roles : <<x, y>> \in R <=>
          Earlier(when(x), when(y)) \/ (~Earlier(when(y), when(x)) /\ offer(x) < offer(y))
    BY DEF RoleOrder
<1>6. \A x \in roles : offer(x) \in Nat
    BY <1>3
<1>. HIDE DEF when, offer, R
<1>7. ASSUME NEW x \in roles PROVE <<x, x>> \notin R
    <2>1. ~Earlier(when(x), when(x)) /\ ~(offer(x) < offer(x))
        BY <1>2, <1>6, NeverBothEarlier
    <2>. QED BY <1>5, <2>1
<1>8. ASSUME NEW x \in roles, NEW y \in roles, x # y PROVE <<x, y>> \in R \/ <<y, x>> \in R
    <2>1. offer(x) < offer(y) \/ offer(y) < offer(x)
        BY <1>4, <1>6, <1>8
    <2>. QED BY <1>5, <2>1
<1>9. ASSUME NEW x \in roles, NEW y \in roles, NEW z \in roles, <<x, y>> \in R, <<y, z>> \in R
      PROVE  <<x, z>> \in R
    <2>1. Average(when(x)) /\ Average(when(y)) /\ Average(when(z))
        BY <1>2
    <2>2. ~Earlier(when(y), when(x)) /\ ~Earlier(when(z), when(y))
        BY <1>5, <1>9, <2>1, NeverBothEarlier
    <2>3. ~Earlier(when(z), when(x))
        BY <2>1, <2>2, NotLater
    <2>4. CASE Earlier(when(x), when(y))
        <3>1. Earlier(when(x), when(z))
            BY <2>1, <2>2, <2>4, NotLater
        <3>. QED BY <1>5, <3>1
    <2>5. CASE Earlier(when(y), when(z))
        <3>1. Earlier(when(x), when(z))
            BY <2>1, <2>2, <2>5, NotLater
        <3>. QED BY <1>5, <3>1
    <2>6. CASE ~Earlier(when(x), when(y)) /\ ~Earlier(when(y), when(z))
        <3>1. offer(x) < offer(y) /\ offer(y) < offer(z)
            BY <1>5, <1>9, <2>6
        <3>2. offer(x) < offer(z)
            BY <1>6, <3>1
        <3>. QED BY <1>5, <2>3, <3>2
    <2>. QED BY <2>4, <2>5, <2>6
<1>10. order = R
    BY DEF R
<1>11. /\ \A x, y \in roles : x # y => <<x, y>> \in R \/ <<y, x>> \in R
       /\ \A x, y, z \in roles : <<x, y>> \in R /\ <<y, z>> \in R => <<x, z>> \in R
    BY <1>8, <1>9, Zenon
<1>. QED BY <1>1, <1>7, <1>10, <1>11, Zenon

(* The columns: lists of nodes, and every node is in one.                     *)
Covered(trace, columns) ==
    /\ columns \in Seq(Seq(NodeNames(trace)))
    /\ \A vm \in NodeNames(trace) : \E i \in DOMAIN columns : vm \in Range(columns[i])

(* So are those the layout makes: the drivers, then the roles in their order. *)
LEMMA ColumnsOK ==
    ASSUME NEW trace, WellFormed(trace), NEW serviceRank, NEW nameRank,
           Ranked(trace, serviceRank, nameRank)
    PROVE  Covered(trace, Columns(trace, serviceRank, nameRank))
<1>. DEFINE names   == NodeNames(trace)
            drivers == Drivers(trace)
            rest    == names \ Range(drivers)
            roles   == RolesOf(trace, rest)
            R       == RoleOrder(trace, serviceRank, roles)
            ranked  == InOrder(roles, R)
            byCall(role) == InOrder(role, CallOrder(trace, nameRank, role))
            first   == IF drivers = <<>> THEN <<>> ELSE <<drivers>>
            n       == Cardinality(roles)
            then    == [k \in DOMAIN ranked |-> byCall(ranked[k])]
<1>1. Columns(trace, serviceRank, nameRank) = first \o then
    BY Zenon DEF Columns, InColumns, ByRole, RolesInOrder
<1>2. drivers \in Seq(names)
    BY DriversOK
<1>3. rest \in SUBSET names
    OBVIOUS
<1>4. /\ IsFiniteSet(roles)
      /\ \A x \in roles : <<x, x>> \notin R
      /\ \A x, y \in roles : x # y => <<x, y>> \in R \/ <<y, x>> \in R
      /\ \A x, y, z \in roles : <<x, y>> \in R /\ <<y, z>> \in R => <<x, z>> \in R
    <2>. HIDE DEF rest
    <2>. QED BY <1>3, RolesAreOrdered
<1>5. \A role \in roles : role \in SUBSET names
    BY DEF RolesOf
<1>6. ASSUME NEW vm \in rest PROVE \E role \in roles : vm \in role
    <2>. DEFINE role == {o \in rest : Offers(trace, o) = Offers(trace, vm)}
    <2>1. role \in roles
        BY DEF RolesOf
    <2>2. vm \in role
        OBVIOUS
    <2>. QED BY <2>1, <2>2
<1>7. first \in Seq(Seq(names)) /\ ((Len(first) = 1 /\ first[1] = drivers) \/ drivers = <<>>)
    BY <1>2
<1>. HIDE DEF roles, R
<1>8. n \in Nat /\ ranked \in [1 .. n -> roles] /\ \A x \in roles : \E k \in 1 .. n : ranked[k] = x
    BY <1>4, InOrderList
<1>9. ASSUME NEW role \in roles
      PROVE  byCall(role) \in Seq(names) /\ role = Range(byCall(role))
    <2>. DEFINE column == byCall(role)
    <2>1. \A vm \in role : vm \in DOMAIN nameRank
        <3>1. \A vm \in names : vm \in DOMAIN nameRank
            BY DEF Ranked, NodeNames
        <3>. QED BY <1>5, <3>1
    <2>2. nameRank \in Injection(DOMAIN nameRank, Nat) /\ role \in SUBSET names
        BY <1>5 DEF Ranked
    <2>3. /\ Cardinality(role) \in Nat
          /\ column \in [1 .. Cardinality(role) -> role]
          /\ \A vm \in role : \E k \in 1 .. Cardinality(role) : column[k] = vm
        BY <2>1, <2>2, CallOrderSorts
    <2>. HIDE DEF column
    <2>4. column \in Seq(role) /\ role = Range(column)
        BY <2>3, CountedIsSeq DEF Range
    <2>5. column \in Seq(names)
        BY <2>2, <2>4, SeqMonotonic
    <2>. QED BY <2>4, <2>5 DEF column
<1>. HIDE DEF byCall
<1>10. then \in Seq(Seq(names)) /\ Len(then) = n /\ \A k \in 1 .. n : then[k] = byCall(ranked[k])
    <2>1. then \in [1 .. n -> Seq(names)] /\ \A k \in 1 .. n : then[k] = byCall(ranked[k])
        BY <1>8, <1>9
    <2>. HIDE DEF then
    <2>. QED BY <1>8, <2>1, CountedIsSeq
<1>. HIDE DEF first, then, ranked
<1>11. /\ first \o then \in Seq(Seq(names))
       /\ Len(first \o then) = Len(first) + n
       /\ \A i \in 1 .. Len(first) + n :
              (first \o then)[i] = IF i <= Len(first) THEN first[i] ELSE then[i - Len(first)]
    BY <1>7, <1>10, ConcatProperties
<1>. DEFINE columns == first \o then
<1>12. DOMAIN columns = 1 .. (Len(first) + n) /\ Len(first) \in Nat
    BY <1>7, <1>11, LenProperties
<1>13. ASSUME NEW vm \in names PROVE \E i \in DOMAIN columns : vm \in Range(columns[i])
    <2>1. CASE vm \in Range(drivers)
        <3>1. drivers # <<>>
            BY <2>1 DEF Range
        <3>2. 1 \in 1 .. (Len(first) + n) /\ columns[1] = drivers
            BY <1>7, <1>8, <1>11, <3>1
        <3>. QED BY <1>12, <2>1, <3>2
    <2>2. CASE vm \in rest
        <3>1. PICK role \in roles : vm \in role
            BY <1>6, <2>2
        <3>2. PICK k \in 1 .. n : ranked[k] = role
            BY <1>8
        <3>3. Len(first) + k \in 1 .. (Len(first) + n) /\ columns[Len(first) + k] = then[k]
            BY <1>8, <1>11, <1>12
        <3>4. then[k] = byCall(role)
            BY <1>10, <3>2
        <3>. QED BY <1>9, <1>12, <3>1, <3>3, <3>4
    <2>. QED BY <2>1, <2>2
<1>. QED BY <1>1, <1>11, <1>13 DEF Covered

(* What finitely many are taken to are finitely many.                         *)
LEMMA FiniteImage ==
    ASSUME NEW S, IsFiniteSet(S), NEW f
    PROVE  IsFiniteSet({f[x] : x \in S})
<1>. DEFINE g == [x \in S |-> f[x]]
<1>1. g \in Surjection(S, {f[x] : x \in S})
    BY DEF Surjection
<1>. QED BY <1>1, FS_Surjection

(* A cell has the nodes of its column that are in its zone, each at a place.  *)
LEMMA CellOK ==
    ASSUME NEW trace, NEW names, NEW column \in Seq(names), NEW area
    PROVE  /\ Cell(trace, column, area) \in Seq(names)
           /\ \A vm \in {v \in Range(column) : NodeOf(trace, v).zone = area} :
                  \E k \in 1 .. Len(Cell(trace, column, area)) : Cell(trace, column, area)[k] = vm
<1>. DEFINE cell == Cell(trace, column, area)
            kept == Where(column, LAMBDA vm : NodeOf(trace, vm).zone = area)
            at   == Ascending(kept)
            n    == Cardinality(kept)
<1>1. kept \in SUBSET (DOMAIN column) /\ \A i \in DOMAIN column :
          i \in kept <=> NodeOf(trace, column[i]).zone = area
    BY DEF Where
<1>2. cell = [k \in DOMAIN at |-> column[at[k]]]
    BY DEF Cell
<1>. HIDE DEF kept, cell
<1>3. kept \in SUBSET Int /\ IsFiniteSet(kept)
    <2>1. DOMAIN column = 1 .. Len(column) /\ Len(column) \in Nat
        BY LenProperties
    <2>2. IsFiniteSet(DOMAIN column)
        BY <2>1, FS_Interval
    <2>. QED BY <1>1, <2>1, <2>2, FS_Subset
<1>4. n \in Nat /\ at \in [1 .. n -> kept] /\ \A i \in kept : \E k \in 1 .. n : at[k] = i
    BY <1>3, AscendingSorts
<1>. HIDE DEF at, n
<1>5. \A i \in DOMAIN column : column[i] \in names
    BY LenProperties
<1>6. cell \in [1 .. n -> names] /\ \A k \in 1 .. n : cell[k] = column[at[k]]
    BY <1>1, <1>2, <1>4, <1>5
<1>7. cell \in Seq(names) /\ Len(cell) = n
    BY <1>4, <1>6, CountedIsSeq
<1>8. ASSUME NEW vm \in Range(column), NodeOf(trace, vm).zone = area
      PROVE  \E k \in 1 .. n : cell[k] = vm
    <2>1. PICK i \in DOMAIN column : column[i] = vm
        BY DEF Range
    <2>2. i \in kept
        BY <1>1, <1>8, <2>1
    <2>. QED BY <1>4, <1>6, <2>1, <2>2
<1>. QED BY <1>7, <1>8 DEF cell

(* A node is drawn some way wide and some way high.                           *)
Sized(trace, size) ==
    \A vm \in NodeNames(trace) : size[vm][1] \in Nat \ {0} /\ size[vm][2] \in Nat \ {0}

(* A length that is scaled against a median is never nothing.                 *)
LEMMA ScaledOK ==
    ASSUME NEW value, NEW middle, NEW normal \in 102 .. 205
    PROVE  Scaled(value, middle, normal) \in Nat \ {0}
<1>1. (normal * 37) \div 50 \in Nat \ {0} /\ (normal * 3) \div 2 \in Nat \ {0}
    OBVIOUS
<1>. QED BY <1>1 DEF Scaled

(* So every node has a size.                                                  *)
LEMMA SizesOK ==
    ASSUME NEW trace
    PROVE  Sized(trace, Sizes(trace))
<1>. DEFINE memory == Median([k \in DOMAIN trace.nodes |-> trace.nodes[k].cap], 1)
            cores  == Median([k \in DOMAIN trace.nodes |-> trace.nodes[k].vcpu], 2)
            wide(vm) == Scaled(NodeOf(trace, vm).cap, memory, NODE_W)
            high(vm) == Scaled(NodeOf(trace, vm).vcpu, cores, NODE_H)
<1>1. Sizes(trace) = [vm \in NodeNames(trace) |-> <<wide(vm), high(vm)>>]
    BY DEF Sizes
<1>2. \A vm : wide(vm) \in Nat \ {0} /\ high(vm) \in Nat \ {0}
    <2>. HIDE DEF memory, cores
    <2>. QED BY ScaledOK DEF NODE_W, NODE_H
<1>. HIDE DEF wide, high
<1>. QED BY <1>1, <1>2 DEF Sized

(* As many sub-columns as the fullest cell of the column needs.               *)
LEMMA SubsOK ==
    ASSUME NEW trace, WellFormed(trace), NEW column \in Seq(NodeNames(trace)), NEW depth \in Nat \ {0}
    PROVE  /\ Subs(trace, column, depth) \in Nat \ {0}
           /\ \A z \in Zones(trace) :
                  CeilDiv(Len(Cell(trace, column, z)), depth) <= Subs(trace, column, depth)
<1>. DEFINE f == [z \in Zones(trace) |-> CeilDiv(Len(Cell(trace, column, z)), depth)]
            needed == {1} \cup {f[z] : z \in Zones(trace)}
<1>1. Subs(trace, column, depth) = Max(needed)
    BY DEF Subs
<1>2. \A z \in Zones(trace) : f[z] \in Int
    <2>. TAKE z \in Zones(trace)
    <2>1. Cell(trace, column, z) \in Seq(NodeNames(trace))
        BY CellOK
    <2>2. Len(Cell(trace, column, z)) \in Nat
        BY <2>1, LenProperties
    <2>. QED BY <2>2 DEF CeilDiv
<1>3. \A z \in Zones(trace) : f[z] = CeilDiv(Len(Cell(trace, column, z)), depth)
    OBVIOUS
<1>. HIDE DEF f
<1>4. needed \in SUBSET Int /\ IsFiniteSet(needed) /\ 1 \in needed
    <2>1. IsFiniteSet({f[z] : z \in Zones(trace)})
        BY NamesOK, FiniteImage
    <2>2. IsFiniteSet({1}) /\ needed = {1} \cup {f[z] : z \in Zones(trace)}
        BY FS_Singleton
    <2>3. IsFiniteSet(needed)
        BY <2>1, <2>2, FS_Union
    <2>4. {f[z] : z \in Zones(trace)} \in SUBSET Int
        BY <1>2
    <2>. QED BY <2>3, <2>4
<1>5. Max(needed) \in needed /\ \A y \in needed : y <= Max(needed)
    BY <1>4, FiniteMax
<1>. QED BY <1>1, <1>2, <1>3, <1>4, <1>5

(* A column is as wide as the widest of its nodes.                            *)
LEMMA WidthOK ==
    ASSUME NEW trace, WellFormed(trace), NEW size, Sized(trace, size),
           NEW column \in Seq(NodeNames(trace))
    PROVE  /\ WidthOf(size, column) \in Nat \ {0}
           /\ \A vm \in Range(column) : size[vm][1] <= WidthOf(size, column)
<1>. DEFINE f == [vm \in Range(column) |-> size[vm][1]]
            widths == {f[vm] : vm \in Range(column)}
<1>1. Range(column) \in SUBSET NodeNames(trace)
    BY LenProperties DEF Range
<1>2. CASE column = <<>>
    BY <1>2 DEF WidthOf, NODE_W, Range
<1>3. CASE column # <<>>
    <2>1. WidthOf(size, column) = Max(widths)
        <3>1. widths = {size[vm][1] : vm \in Range(column)}
            OBVIOUS
        <3>. QED BY <1>3, <3>1, Zenon DEF WidthOf
    <2>2. \A vm \in Range(column) : f[vm] \in Nat \ {0} /\ f[vm] = size[vm][1]
        BY <1>1 DEF Sized
    <2>3. IsFiniteSet(Range(column))
        BY <1>1, NamesOK, FS_Subset
    <2>. HIDE DEF f
    <2>4. IsFiniteSet(widths)
        BY <2>3, FiniteImage
    <2>5. Range(column) # {}
        <3>1. Len(column) \in Nat /\ DOMAIN column = 1 .. Len(column) /\ Len(column) # 0
            BY <1>3, LenProperties, EmptySeq
        <3>. QED BY <3>1 DEF Range
    <2>6. widths \in SUBSET Int /\ widths # {}
        BY <2>2, <2>5
    <2>7. Max(widths) \in widths /\ \A y \in widths : y <= Max(widths)
        BY <2>4, <2>6, FiniteMax
    <2>. QED BY <2>1, <2>2, <2>7
<1>. QED BY <1>2, <1>3

(* A band has as many rows as its fullest cell, or as the depth leaves it.    *)
LEMMA RowsOK ==
    ASSUME NEW trace, WellFormed(trace), NEW columns, Covered(trace, columns), NEW zone,
           NEW depth \in Nat \ {0}
    PROVE  /\ RowsUsed(trace, columns, zone, depth) \in Nat \ {0}
           /\ \A i \in DOMAIN columns :
                  \A k \in 0 .. (Len(Cell(trace, columns[i], zone)) - 1) :
                      (k % depth) + 1 <= RowsUsed(trace, columns, zone, depth)
<1>. DEFINE f == [i \in DOMAIN columns |-> Min({depth, Len(Cell(trace, columns[i], zone))})]
            used == {1} \cup {f[i] : i \in DOMAIN columns}
            deep(i) == Len(Cell(trace, columns[i], zone))
<1>1. RowsUsed(trace, columns, zone, depth) = Max(used)
    <2>1. {f[i] : i \in DOMAIN columns} =
              {Min({depth, Len(Cell(trace, columns[i], zone))}) : i \in DOMAIN columns}
        OBVIOUS
    <2>. QED BY <2>1, Zenon DEF RowsUsed
<1>2. IsFiniteSet(DOMAIN columns) /\ \A i \in DOMAIN columns : columns[i] \in Seq(NodeNames(trace))
    <2>1. DOMAIN columns = 1 .. Len(columns) /\ Len(columns) \in Nat
          /\ \A i \in 1 .. Len(columns) : columns[i] \in Seq(NodeNames(trace))
        BY LenProperties, ElementOfSeq DEF Covered
    <2>2. IsFiniteSet(1 .. Len(columns))
        BY <2>1, FS_Interval
    <2>. QED BY <2>1, <2>2
<1>3. \A i \in DOMAIN columns : deep(i) \in Nat
    <2>. TAKE i \in DOMAIN columns
    <2>1. columns[i] \in Seq(NodeNames(trace))
        BY <1>2
    <2>2. Cell(trace, columns[i], zone) \in Seq(NodeNames(trace))
        BY <2>1, CellOK
    <2>. QED BY <2>2, LenProperties
<1>4. \A i \in DOMAIN columns : f[i] = IF depth <= deep(i) THEN depth ELSE deep(i)
    BY <1>3, MinOfTwo
<1>. HIDE DEF f
<1>5. used \in SUBSET Int /\ IsFiniteSet(used) /\ 1 \in used
    <2>1. IsFiniteSet({f[i] : i \in DOMAIN columns})
        BY <1>2, FiniteImage
    <2>2. IsFiniteSet({1}) /\ used = {1} \cup {f[i] : i \in DOMAIN columns}
        BY FS_Singleton
    <2>3. IsFiniteSet(used)
        BY <2>1, <2>2, FS_Union
    <2>4. {f[i] : i \in DOMAIN columns} \in SUBSET Int
        BY <1>3, <1>4
    <2>. QED BY <2>3, <2>4
<1>6. Max(used) \in used /\ \A y \in used : y <= Max(used)
    BY <1>5, FiniteMax
<1>7. Max(used) \in Nat \ {0} /\ Max(used) \in Int
    BY <1>5, <1>6
<1>8. ASSUME NEW i \in DOMAIN columns, NEW k \in 0 .. (deep(i) - 1)
      PROVE  (k % depth) + 1 <= Max(used)
    <2>1. f[i] <= Max(used) /\ f[i] \in Int
        BY <1>5, <1>6
    <2>2. (k % depth) + 1 <= f[i]
        <3>. DEFINE l == deep(i)
        <3>1. l \in Nat /\ k \in Nat /\ k + 1 <= l
            BY <1>3
        <3>. HIDE DEF l
        <3>2. (k % depth) \in Nat /\ (k % depth) + 1 <= depth /\ (k % depth) <= k
            BY <3>1
        <3>3. f[i] = IF depth <= l THEN depth ELSE l
            BY <1>4 DEF l
        <3>. QED BY <3>1, <3>2, <3>3
    <2>3. (k % depth) \in Nat
        BY <1>3
    <2>. QED BY <1>7, <2>1, <2>2, <2>3
<1>. QED BY <1>1, <1>7, <1>8

(* The rooms around a node are some way wide.                                 *)
LEMMA RoomOK ==
    ASSUME NEW trace
    PROVE  /\ GapX(trace) \in Nat \ {0} /\ GapY(trace) \in Nat \ {0}
           /\ Above(trace) \in Nat \ {0} /\ Below(trace) \in Nat \ {0}
           /\ PAD \in Nat \ {0}
           /\ Below(trace) >= GapY(trace)
           /\ Above(trace) + PAD >= 2
BY DEF GapX, GapY, Aside, Above, Below, PAD

(* The rows of a band are a node and the room above it apart.                 *)
LEMMA PitchOK ==
    ASSUME NEW trace, WellFormed(trace), NEW size, Sized(trace, size), NEW zone
    PROVE  /\ Pitch(trace, size, zone) \in Nat \ {0}
           /\ \A vm \in NodeNames(trace) : NodeOf(trace, vm).zone = zone =>
                  size[vm][2] + GapY(trace) <= Pitch(trace, size, zone)
<1>. DEFINE here == {m.name : m \in {o \in Range(trace.nodes) : o.zone = zone}}
            f == [vm \in here |-> size[vm][2]]
            heights == {f[vm] : vm \in here}
            tallest == IF here = {} THEN NODE_H ELSE Max(heights)
<1>1. here \in SUBSET NodeNames(trace)
    BY DEF NodeNames
<1>2. \A vm \in NodeNames(trace) : NodeOf(trace, vm).zone = zone => vm \in here
    BY NamesOK
<1>3. Pitch(trace, size, zone) = tallest + GapY(trace)
    <2>1. heights = {size[vm][2] : vm \in here}
        OBVIOUS
    <2>. QED BY <2>1, Zenon DEF Pitch
<1>4. \A vm \in here : f[vm] \in Nat \ {0} /\ f[vm] = size[vm][2]
    BY <1>1 DEF Sized
<1>5. IsFiniteSet(here)
    BY <1>1, NamesOK, FS_Subset
<1>. HIDE DEF here, f
<1>6. tallest \in Nat \ {0} /\ \A vm \in here : size[vm][2] <= tallest
    <2>1. CASE here = {}
        BY <2>1 DEF NODE_H
    <2>2. CASE here # {}
        <3>1. IsFiniteSet(heights)
            BY <1>5, FiniteImage
        <3>2. heights \in SUBSET Int /\ heights # {}
            BY <1>4, <2>2
        <3>3. Max(heights) \in heights /\ \A y \in heights : y <= Max(heights)
            BY <3>1, <3>2, FiniteMax
        <3>. QED BY <1>4, <2>2, <3>3
    <2>. QED BY <2>1, <2>2
<1>. HIDE DEF tallest
<1>7. GapY(trace) \in Nat \ {0}
    BY RoomOK
<1>8. \A vm \in here : size[vm][2] \in Nat
    BY <1>4
<1>. QED BY <1>2, <1>3, <1>6, <1>7, <1>8

(* What is added up as one goes along.                                        *)
LEMMA PartialSums ==
    ASSUME NEW n \in Nat, NEW f, \A i \in 1 .. n : f[i] \in Nat,
           NEW so, \A i \in 1 .. (n + 1) : so[i] = SumFunctionOnSet(f, 1 .. (i - 1))
    PROVE  /\ \A i \in 1 .. (n + 1) : so[i] \in Nat
           /\ \A i, j \in 1 .. (n + 1) : i < j => so[i] + f[i] <= so[j]
<1>1. ASSUME NEW i \in 1 .. (n + 1) PROVE so[i] \in Nat
    <2>1. IsFiniteSet(1 .. (i - 1)) /\ \A x \in 1 .. (i - 1) : f[x] \in Nat
        BY FS_Interval
    <2>2. SumFunctionOnSet(f, 1 .. (i - 1)) \in Nat
        BY <2>1, SumNatural
    <2>. QED BY <2>2
<1>2. ASSUME NEW i \in 1 .. (n + 1), NEW j \in 1 .. (n + 1), i < j PROVE so[i] + f[i] <= so[j]
    <2>. DEFINE before == 1 .. (i - 1)
                after  == (i + 1) .. (j - 1)
    <2>1. /\ IsFiniteSet(before) /\ IsFiniteSet(after) /\ i \notin before
          /\ (before \cup {i}) \cap after = {}
          /\ (before \cup {i}) \cup after = 1 .. (j - 1)
        <3>1. IsFiniteSet(before) /\ IsFiniteSet(after)
            BY FS_Interval
        <3>. QED BY <1>2, <3>1
    <2>2. \A x \in (before \cup {i}) \cup after : f[x] \in Nat
        BY <1>2, <2>1
    <2>. HIDE DEF before, after
    <2>3. IsFiniteSet(before \cup {i})
        BY <2>1, FS_AddElement
    <2>4. SumFunctionOnSet(f, before \cup {i}) = f[i] + SumFunctionOnSet(f, before)
        <3>1. \A x \in before \cup {i} : f[x] \in Int
            BY <2>2
        <3>. QED BY <2>1, <3>1, SumAdd
    <2>5. SumFunctionOnSet(f, (before \cup {i}) \cup after) =
              SumFunctionOnSet(f, before \cup {i}) + SumFunctionOnSet(f, after)
        BY <2>1, <2>2, <2>3, SumUnion
    <2>6. SumFunctionOnSet(f, after) \in Nat
        BY <2>1, <2>2, SumNatural
    <2>7. so[i] = SumFunctionOnSet(f, before) /\ so[i] \in Nat
        BY <1>1 DEF before
    <2>8. so[j] = SumFunctionOnSet(f, (before \cup {i}) \cup after)
        BY <2>1
    <2>9. f[i] \in Nat
        BY <2>2
    <2>. QED BY <2>4, <2>5, <2>6, <2>7, <2>8, <2>9
<1>. QED BY <1>1, <1>2

(* A node of the picture: the column, the band and the place in their cell    *)
(* that it is drawn for, and where that is.                                   *)
Stands(trace, size, columns, zones, depth, plan, vm, i, z, k) ==
    LET w == WidthOf(size, columns[i])
    IN  /\ i \in DOMAIN columns /\ vm \in Range(columns[i])
        /\ z \in DOMAIN zones /\ NodeOf(trace, vm).zone = zones[z]
        /\ k \in 0 .. (Len(Cell(trace, columns[i], zones[z])) - 1)
        /\ Cell(trace, columns[i], zones[z])[k + 1] = vm
        /\ k \div depth <= Subs(trace, columns[i], depth) - 1
        /\ plan.at[vm][1] = StartOf(trace, size, columns, depth, i) + w \div 2
                            + (k \div depth) * (w + GapX(trace))
        /\ plan.at[vm][2] = plan.bands[z][1] - PAD - Above(trace)
                            - (k % depth) * Pitch(trace, size, zones[z]) - size[vm][2] \div 2

(* What stands before a number of rounded up parts stands in one of them.     *)
LEMMA InSomePart ==
    ASSUME NEW l \in Nat, NEW d \in Nat \ {0}, NEW k \in 0 .. (l - 1)
    PROVE  k \div d <= CeilDiv(l, d) - 1 /\ k \div d \in Nat
<1>. DEFINE p == k \div d
            q == (l + d - 1) \div d
<1>1. p \in Int /\ d * p <= k /\ k < d * p + d
    OBVIOUS
<1>2. q \in Int /\ d * q <= l + d - 1 /\ l + d - 1 < d * q + d
    OBVIOUS
<1>3. p \in Nat
    OBVIOUS
<1>. HIDE DEF p, q
<1>4. d * p < d * q
    BY <1>1, <1>2
<1>5. p < q
    BY <1>1, <1>2, <1>4
<1>. QED BY <1>1, <1>2, <1>3, <1>5 DEF CeilDiv, p, q

(* The picture: the columns and bands it is drawn of.                         *)
Composed(trace, size, columns, zones, depth, plan) ==
    /\ WellFormed(trace) /\ Sized(trace, size) /\ Covered(trace, columns)
    /\ zones = Ascending(Zones(trace)) /\ depth \in Nat \ {0}
    /\ plan = Arrange(trace, size, columns, zones, depth)

(* The zones are counted from 1, and every node has one.                      *)
LEMMA ZonesOK ==
    ASSUME NEW trace, WellFormed(trace), NEW zones, zones = Ascending(Zones(trace)),
           NEW n, n = Cardinality(Zones(trace))
    PROVE  /\ n \in Nat /\ DOMAIN zones = 1 .. n
           /\ \A z \in 1 .. n : zones[z] \in Zones(trace)
           /\ \A vm \in NodeNames(trace) : \E z \in 1 .. n : zones[z] = NodeOf(trace, vm).zone
<1>1. IsFiniteSet(Zones(trace)) /\ Zones(trace) \in SUBSET Int
    BY NamesOK
<1>2. n \in Nat /\ zones \in [1 .. n -> Zones(trace)]
      /\ \A x \in Zones(trace) : \E k \in 1 .. n : zones[k] = x
    BY <1>1, AscendingSorts
<1>. QED BY <1>2, NamesOK

(* Every node is drawn for its place.                                         *)
LEMMA StandsSomewhere ==
    ASSUME NEW trace, NEW size, NEW columns, NEW zones, NEW depth, NEW plan,
           Composed(trace, size, columns, zones, depth, plan), NEW vm \in NodeNames(trace)
    PROVE  \E i, z, k : Stands(trace, size, columns, zones, depth, plan, vm, i, z, k)
<1>. DEFINE height == [z \in DOMAIN zones |-> BandHeight(trace, size, columns, zones[z], depth)]
            top(z) == 0 - SumFunctionOnSet(height, 1 .. (z - 1))
            its == NodeOf(trace, vm).zone
            i    == CHOOSE c \in DOMAIN columns : vm \in Range(columns[c])
            z    == CHOOSE k \in DOMAIN zones : zones[k] = its
            here == Cell(trace, columns[i], its)
            k    == (CHOOSE n \in DOMAIN here : here[n] = vm) - 1
            w    == WidthOf(size, columns[i])
            subs == Subs(trace, columns[i], depth)
<1>1. /\ plan.at[vm] = <<StartOf(trace, size, columns, depth, i) + w \div 2
                             + Min({k \div depth, subs - 1}) * (w + GapX(trace)),
                         top(z) - PAD - Above(trace) - (k % depth) * Pitch(trace, size, its)
                             - size[vm][2] \div 2>>
      /\ \A y \in DOMAIN zones : plan.bands[y][1] = top(y)
    BY DEF Composed, Arrange
<1>2. i \in DOMAIN columns /\ vm \in Range(columns[i])
    BY DEF Composed, Covered
<1>3. z \in DOMAIN zones /\ zones[z] = its
    BY ZonesOK DEF Composed
<1>. HIDE DEF i, z, top
<1>4. columns[i] \in Seq(NodeNames(trace))
    BY <1>2, ElementOfSeq, LenProperties DEF Composed, Covered
<1>5. k \in 0 .. (Len(here) - 1) /\ here[k + 1] = vm /\ Len(here) \in Nat
    <2>1. here \in Seq(NodeNames(trace)) /\ \E n \in 1 .. Len(here) : here[n] = vm
        <3>1. here \in Seq(NodeNames(trace))
            BY <1>4, CellOK
        <3>2. \E n \in 1 .. Len(here) : here[n] = vm
            BY <1>2, <1>4, CellOK
        <3>. QED BY <3>1, <3>2
    <2>2. DOMAIN here = 1 .. Len(here) /\ Len(here) \in Nat
        BY <2>1, LenProperties
    <2>3. PICK n \in DOMAIN here : n = (CHOOSE m \in DOMAIN here : here[m] = vm) /\ here[n] = vm
        BY <2>1, <2>2
    <2>4. k = n - 1 /\ n \in 1 .. Len(here)
        BY <2>2, <2>3
    <2>. HIDE DEF k, here
    <2>5. k + 1 = n
        BY <2>4
    <2>. QED BY <2>2, <2>3, <2>4, <2>5
<1>. HIDE DEF k
<1>6. k \div depth <= subs - 1 /\ k \div depth \in Nat /\ subs \in Nat \ {0}
    <2>1. depth \in Nat \ {0} /\ WellFormed(trace)
        BY DEF Composed
    <2>2. its \in Zones(trace)
        BY <2>1, NamesOK
    <2>3. subs \in Nat \ {0} /\ CeilDiv(Len(here), depth) <= subs
        BY <1>4, <2>1, <2>2, SubsOK
    <2>. HIDE DEF here, subs
    <2>4. k \div depth <= CeilDiv(Len(here), depth) - 1 /\ k \div depth \in Nat
        BY <1>5, <2>1, InSomePart
    <2>5. CeilDiv(Len(here), depth) \in Int
        BY <1>5, <2>1 DEF CeilDiv
    <2>. QED BY <2>3, <2>4, <2>5
<1>. HIDE DEF subs
<1>7. Min({k \div depth, subs - 1}) = k \div depth
    BY <1>6, MinOfTwo
<1>8. Stands(trace, size, columns, zones, depth, plan, vm, i, z, k)
    BY <1>1, <1>2, <1>3, <1>5, <1>6, <1>7 DEF Stands, subs
<1>. QED BY <1>8

(* Two numbers are that far apart, whichever is the larger.                   *)
LEMMA ApartBy ==
    ASSUME NEW plan, NEW x, NEW y, NEW k \in {1, 2},
           plan.at[x][k] \in Int, plan.at[y][k] \in Int,
           plan.size[x][k] \in Nat, plan.size[y][k] \in Nat,
           \/ 2 * (plan.at[x][k] - plan.at[y][k]) >= plan.size[x][k] + plan.size[y][k]
           \/ 2 * (plan.at[y][k] - plan.at[x][k]) >= plan.size[x][k] + plan.size[y][k]
    PROVE  Apart(plan, x, y)
<1>. DEFINE p == plan.at[x][k]
            q == plan.at[y][k]
            s == plan.size[x][k] + plan.size[y][k]
            gap == IF p > q THEN p - q ELSE q - p
<1>1. p \in Int /\ q \in Int /\ s \in Nat /\ (2 * (p - q) >= s \/ 2 * (q - p) >= s)
    OBVIOUS
<1>. HIDE DEF p, q, s
<1>2. 2 * gap >= s
    BY <1>1
<1>. QED BY <1>2 DEF Apart, p, q, s, gap

(* Where the columns start: each behind all of the one before it.             *)
LEMMA StartsOK ==
    ASSUME NEW trace, NEW size, NEW columns, NEW depth,
           WellFormed(trace), Sized(trace, size), Covered(trace, columns), depth \in Nat \ {0}
    PROVE  /\ \A i \in 1 .. (Len(columns) + 1) : StartOf(trace, size, columns, depth, i) \in Nat
           /\ \A i, j \in DOMAIN columns : i < j =>
                  StartOf(trace, size, columns, depth, i)
                  + Subs(trace, columns[i], depth) * (WidthOf(size, columns[i]) + GapX(trace))
                      <= StartOf(trace, size, columns, depth, j)
<1>. DEFINE span(i) == Subs(trace, columns[i], depth) * (WidthOf(size, columns[i]) + GapX(trace))
            f  == [i \in DOMAIN columns |-> span(i)]
            n  == Len(columns)
            so == [i \in 1 .. (n + 1) |-> SumFunctionOnSet(f, 1 .. (i - 1))]
<1>1. DOMAIN columns = 1 .. n /\ n \in Nat
      /\ \A i \in 1 .. n : columns[i] \in Seq(NodeNames(trace))
    BY LenProperties, ElementOfSeq DEF Covered
<1>2. \A i \in 1 .. n : span(i) \in Nat
    <2>. TAKE i \in 1 .. n
    <2>. DEFINE s == Subs(trace, columns[i], depth)
                w == WidthOf(size, columns[i])
                g == GapX(trace)
    <2>1. columns[i] \in Seq(NodeNames(trace))
        BY <1>1
    <2>2. s \in Nat
        BY <2>1, SubsOK
    <2>3. w \in Nat
        BY <2>1, WidthOK
    <2>4. g \in Nat
        BY RoomOK
    <2>. HIDE DEF s, w, g
    <2>5. s * (w + g) \in Nat
        BY <2>2, <2>3, <2>4
    <2>. QED BY <2>5 DEF s, w, g
<1>3. \A i : StartOf(trace, size, columns, depth, i) = SumFunctionOnSet(f, 1 .. (i - 1))
    BY DEF StartOf
<1>. HIDE DEF span
<1>4. \A i \in 1 .. n : f[i] \in Nat /\ f[i] = span(i)
    BY <1>1, <1>2
<1>5. \A i \in 1 .. (n + 1) : so[i] = SumFunctionOnSet(f, 1 .. (i - 1))
    OBVIOUS
<1>. HIDE DEF f, so
<1>6. /\ \A i \in 1 .. (n + 1) : so[i] \in Nat
      /\ \A i, j \in 1 .. (n + 1) : i < j => so[i] + f[i] <= so[j]
    <2>. HIDE DEF n
    <2>. QED BY <1>1, <1>4, <1>5, PartialSums
<1>7. \A i \in 1 .. (n + 1) : so[i] = StartOf(trace, size, columns, depth, i)
    BY <1>3, <1>5
<1>. DEFINE start(i) == StartOf(trace, size, columns, depth, i)
<1>. HIDE DEF start
<1>8. \A i \in 1 .. (n + 1) : so[i] = start(i) /\ start(i) \in Nat
    BY <1>6, <1>7 DEF start
<1>9. ASSUME NEW i \in DOMAIN columns, NEW j \in DOMAIN columns, i < j
      PROVE  start(i) + span(i) <= start(j)
    <2>1. i \in 1 .. n /\ j \in 1 .. n /\ i \in 1 .. (n + 1) /\ j \in 1 .. (n + 1)
        BY <1>1
    <2>2. so[i] + f[i] <= so[j]
        BY <1>6, <1>9, <2>1
    <2>. QED BY <1>4, <1>8, <2>1, <2>2
<1>10. \A i, j \in DOMAIN columns : i < j => start(i) + span(i) <= start(j)
    BY <1>9
<1>. QED BY <1>8, <1>10 DEF start, span

(* A band is as high as its rows and the rooms around them, and begins where  *)
(* the one above it ends.                                                     *)
LEMMA BandsOK ==
    ASSUME NEW trace, NEW size, NEW columns, NEW zones, NEW depth, NEW plan,
           Composed(trace, size, columns, zones, depth, plan)
    PROVE  /\ \A z \in DOMAIN zones :
                  /\ plan.bands[z][1] \in Int /\ plan.bands[z][2] \in Int
                  /\ plan.bands[z][2] = plan.bands[z][1] - BandHeight(trace, size, columns, zones[z], depth)
           /\ \A y, z \in DOMAIN zones : y < z => plan.bands[z][1] <= plan.bands[y][2]
           /\ plan.height \in Nat \ {0}
<1>. DEFINE high(z) == BandHeight(trace, size, columns, zones[z], depth)
            f  == [z \in DOMAIN zones |-> high(z)]
            n  == Cardinality(Zones(trace))
            so == [z \in 1 .. (n + 1) |-> SumFunctionOnSet(f, 1 .. (z - 1))]
<1>1. /\ WellFormed(trace) /\ Sized(trace, size) /\ Covered(trace, columns)
      /\ zones = Ascending(Zones(trace)) /\ depth \in Nat \ {0}
    BY DEF Composed
<1>2. n \in Nat /\ DOMAIN zones = 1 .. n
    BY <1>1, ZonesOK
<1>3. \A z \in 1 .. n : high(z) \in Nat
    <2>. TAKE z \in 1 .. n
    <2>. DEFINE r == RowsUsed(trace, columns, zones[z], depth)
                p == Pitch(trace, size, zones[z])
    <2>1. r \in Nat \ {0}
        BY <1>1, RowsOK
    <2>2. p \in Nat \ {0}
        BY <1>1, PitchOK
    <2>3. high(z) = r * p - GapY(trace) + Below(trace) + Above(trace) + 2 * PAD
        BY DEF BandHeight
    <2>. HIDE DEF r, p
    <2>4. r * p \in Nat
        BY <2>1, <2>2
    <2>5. GapY(trace) \in Nat /\ Above(trace) \in Nat /\ Below(trace) \in Nat /\ PAD \in Nat
          /\ Below(trace) >= GapY(trace)
        BY RoomOK
    <2>. HIDE DEF high
    <2>. QED BY <2>3, <2>4, <2>5
<1>4. \A z \in DOMAIN zones :
          /\ plan.bands[z][1] = 0 - SumFunctionOnSet(f, 1 .. (z - 1))
          /\ plan.bands[z][2] = plan.bands[z][1] - f[z]
    BY DEF Composed, Arrange
<1>. DEFINE beyond == Len(zones) + 1
            all == SumFunctionOnSet(f, 1 .. (beyond - 1))
<1>5. plan.height = Max({1, 0 - (0 - all)})
    BY DEF Composed, Arrange
<1>. HIDE DEF beyond
<1>6. Len(zones) = n
    <2>1. zones \in [1 .. n -> Zones(trace)]
        <3>1. IsFiniteSet(Zones(trace)) /\ Zones(trace) \in SUBSET Int
            BY <1>1, NamesOK
        <3>. QED BY <1>1, <3>1, AscendingSorts
    <2>. HIDE DEF n
    <2>. QED BY <1>2, <2>1, CountedIsSeq
<1>. HIDE DEF high
<1>7. \A z \in 1 .. n : f[z] \in Nat /\ f[z] = high(z)
    BY <1>2, <1>3
<1>8. \A z \in 1 .. (n + 1) : so[z] = SumFunctionOnSet(f, 1 .. (z - 1))
    OBVIOUS
<1>. HIDE DEF f, so, n
<1>9. /\ \A z \in 1 .. (n + 1) : so[z] \in Nat
      /\ \A y, z \in 1 .. (n + 1) : y < z => so[y] + f[y] <= so[z]
    BY <1>2, <1>7, <1>8, PartialSums
<1>10. \A z \in 1 .. n : plan.bands[z][1] = 0 - so[z] /\ plan.bands[z][2] = (0 - so[z]) - f[z]
    BY <1>2, <1>4, <1>8
<1>11. plan.height \in Nat \ {0}
    <2>1. n + 1 \in 1 .. (n + 1)
        BY <1>2
    <2>2. beyond \in 1 .. (n + 1)
        BY <1>6, <2>1 DEF beyond
    <2>5. all \in Nat
        BY <1>8, <1>9, <2>2
    <2>. HIDE DEF all
    <2>4. Max({1, 0 - (0 - all)}) = IF 1 >= 0 - (0 - all) THEN 1 ELSE 0 - (0 - all)
        BY <2>5, MaxOfTwo
    <2>. QED BY <1>5, <2>4, <2>5
<1>12. ASSUME NEW z \in DOMAIN zones
       PROVE  /\ plan.bands[z][1] \in Int /\ plan.bands[z][2] \in Int
              /\ plan.bands[z][2] = plan.bands[z][1] - high(z)
    <2>1. z \in 1 .. n /\ z \in 1 .. (n + 1)
        BY <1>2
    <2>2. so[z] \in Nat /\ f[z] \in Nat
        BY <1>7, <1>9, <2>1
    <2>. QED BY <1>7, <1>10, <2>1, <2>2
<1>13. ASSUME NEW y \in DOMAIN zones, NEW z \in DOMAIN zones, y < z
       PROVE  plan.bands[z][1] <= plan.bands[y][2]
    <2>1. y \in 1 .. n /\ z \in 1 .. n /\ y \in 1 .. (n + 1) /\ z \in 1 .. (n + 1)
        BY <1>2
    <2>2. so[y] \in Nat /\ so[z] \in Nat /\ f[y] \in Nat /\ so[y] + f[y] <= so[z]
        BY <1>7, <1>9, <1>13, <2>1
    <2>. QED BY <1>10, <2>1, <2>2
<1>. QED BY <1>11, <1>12, <1>13 DEF high

(* A row of a band that has that many rows lies in it: numbers.               *)
LEMMA RowInBand ==
    ASSUME NEW top \in Int, NEW rows \in Nat, NEW row \in Nat, row + 1 <= rows,
           NEW pitch \in Nat, NEW high \in Nat, NEW gap \in Nat, NEW above \in Nat, NEW below \in Nat,
           NEW pad \in Nat, high + gap <= pitch, gap <= below, above + pad >= 2,
           NEW y, y = top - pad - above - row * pitch - high \div 2
    PROVE  /\ y \in Int
           /\ y + high \div 2 <= top - 2
           /\ y - high \div 2 >= top - (rows * pitch - gap + below + above + 2 * pad)
<1>. DEFINE a == row * pitch
            b == rows * pitch
            h == high \div 2
<1>1. a \in Nat /\ b \in Nat
    OBVIOUS
<1>2. a + pitch <= b
    <2>1. (row + 1) * pitch <= rows * pitch
        OBVIOUS
    <2>2. (row + 1) * pitch = row * pitch + pitch
        OBVIOUS
    <2>. QED BY <2>1, <2>2
<1>3. h \in Nat /\ 2 * h <= high
    OBVIOUS
<1>. HIDE DEF a, b, h
<1>4. y = top - pad - above - a - h
    BY DEF a, h
<1>5. y \in Int /\ y + h <= top - 2 /\ y - h >= top - (b - gap + below + above + 2 * pad)
    BY <1>1, <1>2, <1>3, <1>4
<1>. QED BY <1>5 DEF a, b, h

(* Every node lies in the band it stands in, below its upper edge.            *)
LEMMA InItsBand ==
    ASSUME NEW trace, NEW size, NEW columns, NEW zones, NEW depth, NEW plan,
           Composed(trace, size, columns, zones, depth, plan), NEW vm \in NodeNames(trace),
           NEW i, NEW z, NEW k, Stands(trace, size, columns, zones, depth, plan, vm, i, z, k)
    PROVE  /\ plan.at[vm][2] \in Int
           /\ plan.at[vm][2] + size[vm][2] \div 2 <= plan.bands[z][1] - 2
           /\ plan.at[vm][2] - size[vm][2] \div 2 >= plan.bands[z][2]
<1>. DEFINE top   == plan.bands[z][1]
            rows  == RowsUsed(trace, columns, zones[z], depth)
            row   == k % depth
            pitch == Pitch(trace, size, zones[z])
            high  == size[vm][2]
            gap   == GapY(trace)
            above == Above(trace)
            below == Below(trace)
            y     == plan.at[vm][2]
<1>1. /\ WellFormed(trace) /\ Sized(trace, size) /\ Covered(trace, columns)
      /\ depth \in Nat \ {0}
    BY DEF Composed
<1>2. /\ i \in DOMAIN columns /\ z \in DOMAIN zones /\ NodeOf(trace, vm).zone = zones[z]
      /\ k \in 0 .. (Len(Cell(trace, columns[i], zones[z])) - 1)
      /\ y = top - PAD - above - row * pitch - high \div 2
    BY DEF Stands
<1>3. k \in Nat
    <2>1. columns[i] \in Seq(NodeNames(trace))
        BY <1>1, <1>2, LenProperties, ElementOfSeq DEF Covered
    <2>2. Cell(trace, columns[i], zones[z]) \in Seq(NodeNames(trace))
        BY <2>1, CellOK
    <2>3. Len(Cell(trace, columns[i], zones[z])) \in Nat
        BY <2>2, LenProperties
    <2>. QED BY <1>2, <2>3
<1>4. top \in Int /\ plan.bands[z][2] = top - (rows * pitch - gap + below + above + 2 * PAD)
    BY <1>2, BandsOK DEF BandHeight
<1>5. rows \in Nat /\ row \in Nat /\ row + 1 <= rows
    <2>1. rows \in Nat /\ row + 1 <= rows
        BY <1>1, <1>2, RowsOK
    <2>2. row \in Nat
        BY <1>1, <1>3
    <2>. QED BY <2>1, <2>2
<1>6. high \in Nat /\ pitch \in Nat /\ high + gap <= pitch
    BY <1>1, <1>2, PitchOK DEF Sized
<1>7. /\ gap \in Nat /\ above \in Nat /\ below \in Nat /\ PAD \in Nat
      /\ gap <= below /\ above + PAD >= 2
    BY RoomOK
<1>. DEFINE bottom == plan.bands[z][2]
<1>. HIDE DEF top, rows, row, pitch, high, gap, above, below, y, bottom
<1>8. /\ y \in Int
      /\ y + high \div 2 <= top - 2
      /\ y - high \div 2 >= top - (rows * pitch - gap + below + above + 2 * PAD)
    BY <1>2, <1>4, <1>5, <1>6, <1>7, RowInBand
<1>9. bottom = top - (rows * pitch - gap + below + above + 2 * PAD)
    BY <1>4 DEF bottom
<1>10. y - high \div 2 >= bottom
    BY <1>8, <1>9
<1>. QED BY <1>8, <1>10 DEF top, high, y, bottom

(* Middles in two columns, the second of which starts behind all the sub-     *)
(* columns of the first, are half of either width apart.                      *)
LEMMA ColumnsAside ==
    ASSUME NEW s \in Nat, NEW t \in Nat, NEW v \in Nat, NEW w \in Nat, NEW g \in Nat \ {0},
           NEW subs \in Nat, NEW c \in Nat, NEW d \in Nat, c <= subs - 1,
           s + subs * (v + g) <= t,
           NEW a \in Nat, NEW b \in Nat, a <= v, b <= w,
           NEW x, x = s + v \div 2 + c * (v + g), NEW y, y = t + w \div 2 + d * (w + g)
    PROVE  x \in Int /\ y \in Int /\ 2 * (y - x) >= a + b
<1>. DEFINE step == v + g
            p == c * step
            q == subs * step
            r == d * (w + g)
<1>1. step \in Nat
    OBVIOUS
<1>2. p \in Nat /\ q \in Nat /\ r \in Nat /\ p + step <= q
    <2>1. r \in Nat
        OBVIOUS
    <2>. HIDE DEF step
    <2>2. p \in Nat /\ q \in Nat
        BY <1>1
    <2>3. (c + 1) * step <= subs * step
        BY <1>1
    <2>4. (c + 1) * step = c * step + step
        BY <1>1
    <2>. QED BY <2>1, <2>2, <2>3, <2>4
<1>3. x = s + v \div 2 + p /\ y = t + w \div 2 + r /\ s + q <= t
    OBVIOUS
<1>. HIDE DEF p, q, r
<1>. QED BY <1>2, <1>3

(* So are middles in two sub-columns of one column.                           *)
LEMMA SubColumnsAside ==
    ASSUME NEW s \in Nat, NEW w \in Nat, NEW g \in Nat \ {0},
           NEW c \in Nat, NEW d \in Nat, c < d,
           NEW a \in Nat, NEW b \in Nat, a <= w, b <= w,
           NEW x, x = s + w \div 2 + c * (w + g), NEW y, y = s + w \div 2 + d * (w + g)
    PROVE  x \in Int /\ y \in Int /\ 2 * (y - x) >= a + b
<1>. DEFINE step == w + g
            p == c * step
            q == d * step
<1>1. step \in Nat /\ 2 * step >= a + b
    OBVIOUS
<1>2. p \in Nat /\ q \in Nat /\ p + step <= q
    <2>. HIDE DEF step
    <2>1. p \in Nat /\ q \in Nat
        BY <1>1
    <2>2. (c + 1) * step <= d * step
        BY <1>1
    <2>3. (c + 1) * step = c * step + step
        BY <1>1
    <2>. QED BY <2>1, <2>2, <2>3
<1>3. x = s + w \div 2 + p /\ y = s + w \div 2 + q
    OBVIOUS
<1>4. w \div 2 \in Int
    OBVIOUS
<1>. HIDE DEF p, q, step
<1>. QED BY <1>1, <1>2, <1>3, <1>4

(* Middles in two rows of a band are half of either height apart.             *)
LEMMA RowsAside ==
    ASSUME NEW top \in Int, NEW pitch \in Nat, NEW g \in Nat \ {0},
           NEW r \in Nat, NEW s \in Nat, r < s,
           NEW a \in Nat, NEW b \in Nat, a + g <= pitch, b + g <= pitch,
           NEW x, x = top - r * pitch - a \div 2, NEW y, y = top - s * pitch - b \div 2
    PROVE  x \in Int /\ y \in Int /\ 2 * (x - y) >= a + b
<1>. DEFINE p == r * pitch
            q == s * pitch
<1>1. p \in Nat /\ q \in Nat /\ p + pitch <= q
    <2>1. p \in Nat /\ q \in Nat
        OBVIOUS
    <2>2. (r + 1) * pitch <= s * pitch
        OBVIOUS
    <2>3. (r + 1) * pitch = r * pitch + pitch
        OBVIOUS
    <2>. QED BY <2>1, <2>2, <2>3
<1>2. x = top - p - a \div 2 /\ y = top - q - b \div 2
    OBVIOUS
<1>. HIDE DEF p, q
<1>. QED BY <1>1, <1>2

(* So are middles in two bands, one above the other.                          *)
LEMMA BandsAside ==
    ASSUME NEW a \in Nat, NEW b \in Nat, NEW x \in Int, NEW y \in Int,
           NEW bottom \in Int, NEW top \in Int, top <= bottom,
           x - a \div 2 >= bottom, y + b \div 2 <= top - 2
    PROVE  2 * (x - y) >= a + b
OBVIOUS

(* Nodes of two columns do not cover one another, wherever they stand in      *)
(* them.                                                                      *)
LEMMA ColumnsApart ==
    ASSUME NEW trace, NEW size, NEW columns, NEW zones, NEW depth, NEW plan,
           Composed(trace, size, columns, zones, depth, plan),
           NEW x \in NodeNames(trace), NEW i, NEW u, NEW k,
           Stands(trace, size, columns, zones, depth, plan, x, i, u, k),
           NEW y \in NodeNames(trace), NEW j, NEW v, NEW l,
           Stands(trace, size, columns, zones, depth, plan, y, j, v, l), i < j
    PROVE  Apart(plan, x, y) /\ Apart(plan, y, x)
<1>. DEFINE s == StartOf(trace, size, columns, depth, i)
            t == StartOf(trace, size, columns, depth, j)
            a == WidthOf(size, columns[i])
            b == WidthOf(size, columns[j])
            g == GapX(trace)
            m == Subs(trace, columns[i], depth)
            c == k \div depth
            d == l \div depth
            p == plan.at[x][1]
            q == plan.at[y][1]
            e == size[x][1]
            f == size[y][1]
<1>1. /\ WellFormed(trace) /\ Sized(trace, size) /\ Covered(trace, columns)
      /\ depth \in Nat \ {0} /\ plan.size = size
    BY DEF Composed, Arrange
<1>2. /\ i \in DOMAIN columns /\ j \in DOMAIN columns
      /\ x \in Range(columns[i]) /\ y \in Range(columns[j])
      /\ k \in 0 .. (Len(Cell(trace, columns[i], zones[u])) - 1)
      /\ l \in 0 .. (Len(Cell(trace, columns[j], zones[v])) - 1)
      /\ c <= m - 1
      /\ p = s + a \div 2 + c * (a + g)
      /\ q = t + b \div 2 + d * (b + g)
    BY DEF Stands
<1>3. columns[i] \in Seq(NodeNames(trace)) /\ columns[j] \in Seq(NodeNames(trace))
      /\ DOMAIN columns = 1 .. Len(columns) /\ Len(columns) \in Nat
    BY <1>1, <1>2, LenProperties, ElementOfSeq DEF Covered
<1>4. c \in Nat /\ d \in Nat
    <2>1. Cell(trace, columns[i], zones[u]) \in Seq(NodeNames(trace))
        BY <1>3, CellOK
    <2>2. Cell(trace, columns[j], zones[v]) \in Seq(NodeNames(trace))
        BY <1>3, CellOK
    <2>3. k \in Nat /\ l \in Nat
        BY <1>2, <2>1, <2>2, LenProperties
    <2>. QED BY <1>1, <2>3
<1>5. m \in Nat
    BY <1>1, <1>3, SubsOK
<1>6. a \in Nat /\ b \in Nat /\ e <= a /\ f <= b /\ e \in Nat /\ f \in Nat
    <2>1. a \in Nat /\ e <= a
        BY <1>1, <1>2, <1>3, WidthOK
    <2>2. b \in Nat /\ f <= b
        BY <1>1, <1>2, <1>3, WidthOK
    <2>3. e \in Nat /\ f \in Nat
        BY <1>1 DEF Sized
    <2>. QED BY <2>1, <2>2, <2>3
<1>7. g \in Nat \ {0}
    BY RoomOK
<1>8. s \in Nat /\ t \in Nat /\ s + m * (a + g) <= t
    <2>1. i \in 1 .. (Len(columns) + 1) /\ j \in 1 .. (Len(columns) + 1)
        BY <1>2, <1>3
    <2>2. s \in Nat
        BY <1>1, <2>1, StartsOK
    <2>3. t \in Nat
        BY <1>1, <2>1, StartsOK
    <2>4. s + m * (a + g) <= t
        BY <1>1, <1>2, StartsOK
    <2>. QED BY <2>2, <2>3, <2>4
<1>. HIDE DEF s, t, a, b, g, m, c, d, p, q, e, f
<1>9. p \in Int /\ q \in Int /\ 2 * (q - p) >= e + f
    BY <1>2, <1>4, <1>5, <1>6, <1>7, <1>8, ColumnsAside
<1>10. e + f = f + e
    BY <1>6
<1>11. /\ plan.at[x][1] = p /\ plan.at[y][1] = q
       /\ plan.size[x][1] = e /\ plan.size[y][1] = f
    BY <1>1 DEF p, q, e, f
<1>12. Apart(plan, x, y)
    BY <1>6, <1>9, <1>11, ApartBy
<1>13. Apart(plan, y, x)
    BY <1>6, <1>9, <1>10, <1>11, ApartBy
<1>. QED BY <1>12, <1>13

(* Nor do nodes of two bands.                                                 *)
LEMMA BandsApart ==
    ASSUME NEW trace, NEW size, NEW columns, NEW zones, NEW depth, NEW plan,
           Composed(trace, size, columns, zones, depth, plan),
           NEW x \in NodeNames(trace), NEW i, NEW u, NEW k,
           Stands(trace, size, columns, zones, depth, plan, x, i, u, k),
           NEW y \in NodeNames(trace), NEW j, NEW v, NEW l,
           Stands(trace, size, columns, zones, depth, plan, y, j, v, l),
           u \in Int, v \in Int, u < v
    PROVE  Apart(plan, x, y) /\ Apart(plan, y, x)
<1>. DEFINE p == plan.at[x][2]
            q == plan.at[y][2]
            e == size[x][2]
            f == size[y][2]
            bottom == plan.bands[u][2]
            top    == plan.bands[v][1]
<1>1. Sized(trace, size) /\ plan.size = size
    BY DEF Composed, Arrange
<1>2. u \in DOMAIN zones /\ v \in DOMAIN zones
    BY DEF Stands
<1>3. top \in Int /\ bottom \in Int /\ top <= bottom
    BY <1>2, BandsOK
<1>4. p \in Int /\ p - e \div 2 >= bottom
    BY InItsBand
<1>5. q \in Int /\ q + f \div 2 <= top - 2
    BY InItsBand
<1>6. e \in Nat /\ f \in Nat
    BY <1>1 DEF Sized
<1>. HIDE DEF p, q, e, f, top, bottom
<1>7. 2 * (p - q) >= e + f
    BY <1>3, <1>4, <1>5, <1>6, BandsAside
<1>8. e + f = f + e
    BY <1>6
<1>9. /\ plan.at[x][2] = p /\ plan.at[y][2] = q
      /\ plan.size[x][2] = e /\ plan.size[y][2] = f
    BY <1>1 DEF p, q, e, f
<1>10. Apart(plan, x, y)
    BY <1>4, <1>5, <1>6, <1>7, <1>9, ApartBy
<1>11. Apart(plan, y, x)
    BY <1>4, <1>5, <1>6, <1>7, <1>8, <1>9, ApartBy
<1>. QED BY <1>10, <1>11

(* Two places of a list that is filled column by column differ in their row   *)
(* or in their column.                                                        *)
LEMMA RowOrColumn ==
    ASSUME NEW k \in Nat, NEW l \in Nat, k # l, NEW d \in Nat \ {0}
    PROVE  k % d # l % d \/ k \div d # l \div d
<1>1. k = d * (k \div d) + (k % d) /\ l = d * (l \div d) + (l % d)
    OBVIOUS
<1>. QED BY <1>1

(* So nodes of one cell do not cover one another.                             *)
LEMMA CellApart ==
    ASSUME NEW trace, NEW size, NEW columns, NEW zones, NEW depth, NEW plan,
           Composed(trace, size, columns, zones, depth, plan),
           NEW x \in NodeNames(trace), NEW i, NEW u, NEW k,
           Stands(trace, size, columns, zones, depth, plan, x, i, u, k),
           NEW y \in NodeNames(trace), NEW l,
           Stands(trace, size, columns, zones, depth, plan, y, i, u, l),
           \/ k % depth < l % depth
           \/ k \div depth < l \div depth
    PROVE  Apart(plan, x, y) /\ Apart(plan, y, x)
<1>1. /\ WellFormed(trace) /\ Sized(trace, size) /\ Covered(trace, columns)
      /\ depth \in Nat \ {0} /\ plan.size = size
    BY DEF Composed, Arrange
<1>2. /\ i \in DOMAIN columns /\ u \in DOMAIN zones
      /\ x \in Range(columns[i]) /\ y \in Range(columns[i])
      /\ NodeOf(trace, x).zone = zones[u] /\ NodeOf(trace, y).zone = zones[u]
      /\ k \in 0 .. (Len(Cell(trace, columns[i], zones[u])) - 1)
      /\ l \in 0 .. (Len(Cell(trace, columns[i], zones[u])) - 1)
    BY DEF Stands
<1>3. columns[i] \in Seq(NodeNames(trace))
      /\ DOMAIN columns = 1 .. Len(columns) /\ Len(columns) \in Nat
    BY <1>1, <1>2, LenProperties, ElementOfSeq DEF Covered
<1>4. /\ k % depth \in Nat /\ l % depth \in Nat
      /\ k \div depth \in Nat /\ l \div depth \in Nat
    <2>1. Cell(trace, columns[i], zones[u]) \in Seq(NodeNames(trace))
        BY <1>3, CellOK
    <2>2. k \in Nat /\ l \in Nat
        BY <1>2, <2>1, LenProperties
    <2>. QED BY <1>1, <2>2
<1>5. CASE k % depth < l % depth
    <2>. DEFINE p == plan.at[x][2]
                q == plan.at[y][2]
                e == size[x][2]
                f == size[y][2]
                r == k % depth
                s == l % depth
                pitch == Pitch(trace, size, zones[u])
                g     == GapY(trace)
                top   == plan.bands[u][1] - PAD - Above(trace)
    <2>1. p = top - r * pitch - e \div 2 /\ q = top - s * pitch - f \div 2
        BY DEF Stands
    <2>2. r \in Nat /\ s \in Nat /\ r < s
        BY <1>4, <1>5
    <2>3. top \in Int /\ g \in Nat \ {0}
        <3>1. plan.bands[u][1] \in Int
            BY <1>2, BandsOK
        <3>2. PAD \in Int /\ Above(trace) \in Int /\ g \in Nat \ {0}
            BY RoomOK
        <3>. QED BY <3>1, <3>2
    <2>4. pitch \in Nat /\ e + g <= pitch /\ f + g <= pitch
        BY <1>1, <1>2, PitchOK
    <2>5. e \in Nat /\ f \in Nat
        BY <1>1 DEF Sized
    <2>. HIDE DEF p, q, e, f, r, s, pitch, g, top
    <2>6. p \in Int /\ q \in Int /\ 2 * (p - q) >= e + f
        BY <2>1, <2>2, <2>3, <2>4, <2>5, RowsAside
    <2>7. e + f = f + e
        BY <2>5
    <2>8. /\ plan.at[x][2] = p /\ plan.at[y][2] = q
          /\ plan.size[x][2] = e /\ plan.size[y][2] = f
        BY <1>1 DEF p, q, e, f
    <2>9. Apart(plan, x, y)
        BY <2>5, <2>6, <2>8, ApartBy
    <2>10. Apart(plan, y, x)
        BY <2>5, <2>6, <2>7, <2>8, ApartBy
    <2>. QED BY <2>9, <2>10
<1>6. CASE k \div depth < l \div depth
    <2>. DEFINE p == plan.at[x][1]
                q == plan.at[y][1]
                e == size[x][1]
                f == size[y][1]
                c == k \div depth
                d == l \div depth
                s == StartOf(trace, size, columns, depth, i)
                w == WidthOf(size, columns[i])
                g == GapX(trace)
    <2>1. p = s + w \div 2 + c * (w + g) /\ q = s + w \div 2 + d * (w + g)
        BY DEF Stands
    <2>2. c \in Nat /\ d \in Nat /\ c < d
        BY <1>4, <1>6
    <2>3. s \in Nat /\ g \in Nat \ {0}
        <3>1. i \in 1 .. (Len(columns) + 1)
            BY <1>2, <1>3
        <3>2. s \in Nat
            BY <1>1, <3>1, StartsOK
        <3>. QED BY <3>2, RoomOK
    <2>4. w \in Nat /\ e <= w /\ f <= w
        BY <1>1, <1>2, <1>3, WidthOK
    <2>5. e \in Nat /\ f \in Nat
        BY <1>1 DEF Sized
    <2>. HIDE DEF p, q, e, f, c, d, s, w, g
    <2>6. p \in Int /\ q \in Int /\ 2 * (q - p) >= e + f
        BY <2>1, <2>2, <2>3, <2>4, <2>5, SubColumnsAside
    <2>7. e + f = f + e
        BY <2>5
    <2>8. /\ plan.at[x][1] = p /\ plan.at[y][1] = q
          /\ plan.size[x][1] = e /\ plan.size[y][1] = f
        BY <1>1 DEF p, q, e, f
    <2>9. Apart(plan, x, y)
        BY <2>5, <2>6, <2>8, ApartBy
    <2>10. Apart(plan, y, x)
        BY <2>5, <2>6, <2>7, <2>8, ApartBy
    <2>. QED BY <2>9, <2>10
<1>. QED BY <1>5, <1>6

(* Two nodes differ in their column, in their band or in their place in a     *)
(* cell: whatever the depth, none covers another.                             *)
LEMMA NothingCovered ==
    ASSUME NEW trace, NEW size, NEW columns, NEW zones, NEW depth, NEW plan,
           Composed(trace, size, columns, zones, depth, plan),
           NEW x \in NodeNames(trace), NEW y \in NodeNames(trace), x # y
    PROVE  Apart(plan, x, y)
<1>. DEFINE Here(vm, i, z, k) == Stands(trace, size, columns, zones, depth, plan, vm, i, z, k)
<1>1. PICK i, u, k : Here(x, i, u, k)
    BY StandsSomewhere
<1>2. PICK j, v, l : Here(y, j, v, l)
    BY StandsSomewhere
<1>3. /\ i \in DOMAIN columns /\ j \in DOMAIN columns
      /\ u \in DOMAIN zones /\ v \in DOMAIN zones
      /\ Cell(trace, columns[i], zones[u])[k + 1] = x
      /\ Cell(trace, columns[j], zones[v])[l + 1] = y
      /\ k \in 0 .. (Len(Cell(trace, columns[i], zones[u])) - 1)
      /\ l \in 0 .. (Len(Cell(trace, columns[j], zones[v])) - 1)
    BY <1>1, <1>2 DEF Stands
<1>4. /\ WellFormed(trace) /\ zones = Ascending(Zones(trace)) /\ depth \in Nat \ {0}
      /\ columns \in Seq(Seq(NodeNames(trace)))
    BY DEF Composed, Covered
<1>5. i \in Int /\ j \in Int /\ u \in Int /\ v \in Int /\ k \in Nat /\ l \in Nat
    <2>1. DOMAIN columns = 1 .. Len(columns) /\ Len(columns) \in Nat
          /\ columns[i] \in Seq(NodeNames(trace)) /\ columns[j] \in Seq(NodeNames(trace))
        BY <1>3, <1>4, LenProperties, ElementOfSeq
    <2>2. DOMAIN zones \in SUBSET Int
        BY <1>4, ZonesOK
    <2>3. Cell(trace, columns[i], zones[u]) \in Seq(NodeNames(trace))
        BY <2>1, CellOK
    <2>4. Cell(trace, columns[j], zones[v]) \in Seq(NodeNames(trace))
        BY <2>1, CellOK
    <2>5. k \in Nat /\ l \in Nat
        BY <1>3, <2>3, <2>4, LenProperties
    <2>. QED BY <1>3, <2>1, <2>2, <2>5
<1>. HIDE DEF Here
<1>6. CASE i < j
    BY <1>1, <1>2, <1>6, ColumnsApart DEF Here
<1>7. CASE j < i
    BY <1>1, <1>2, <1>7, ColumnsApart DEF Here
<1>8. CASE u < v
    BY <1>1, <1>2, <1>5, <1>8, BandsApart DEF Here
<1>9. CASE v < u
    BY <1>1, <1>2, <1>5, <1>9, BandsApart DEF Here
<1>10. CASE i = j /\ u = v
    <2>1. k # l
        BY <1>3, <1>10
    <2>2. Here(x, i, u, k) /\ Here(y, i, u, l)
        BY <1>1, <1>2, <1>10
    <2>3. \/ k % depth < l % depth \/ k \div depth < l \div depth
          \/ l % depth < k % depth \/ l \div depth < k \div depth
        <3>1. k % depth # l % depth \/ k \div depth # l \div depth
            BY <1>4, <1>5, <2>1, RowOrColumn
        <3>2. k % depth \in Int /\ l % depth \in Int /\ k \div depth \in Int /\ l \div depth \in Int
            BY <1>4, <1>5
        <3>. QED BY <3>1, <3>2
    <2>4. CASE k % depth < l % depth \/ k \div depth < l \div depth
        BY <2>2, <2>4, CellApart DEF Here
    <2>5. CASE l % depth < k % depth \/ l \div depth < k \div depth
        BY <2>2, <2>5, CellApart DEF Here
    <2>. QED BY <2>3, <2>4, <2>5
<1>. QED BY <1>5, <1>6, <1>7, <1>8, <1>9, <1>10

(* No zone has two bands.                                                     *)
LEMMA ZonesAreOnce ==
    ASSUME NEW trace, WellFormed(trace), NEW zones, zones = Ascending(Zones(trace)),
           NEW y \in DOMAIN zones, NEW z \in DOMAIN zones, zones[y] = zones[z]
    PROVE  y = z
<1>1. IsFiniteSet(Zones(trace)) /\ Zones(trace) \in SUBSET Int
    BY NamesOK
<1>. DEFINE n == Cardinality(Zones(trace))
<1>2. /\ n \in Nat /\ zones \in [1 .. n -> Zones(trace)]
      /\ \A j, k \in 1 .. n : j < k => zones[j] < zones[k]
    BY <1>1, AscendingSorts
<1>. HIDE DEF n
<1>3. y \in 1 .. n /\ z \in 1 .. n /\ zones[y] \in Int /\ zones[z] \in Int
    BY <1>1, <1>2
<1>. QED BY <1>2, <1>3

(* What an arrangement of any depth draws is legible.                         *)
LEMMA LegibleArrangement ==
    ASSUME NEW r \in Runs, NEW size, NEW columns, NEW zones, NEW depth, NEW plan,
           Composed(Opened[r], size, columns, zones, depth, plan)
    PROVE  Legible(r, plan)
<1>. DEFINE trace == Opened[r]
            names == NodeNames(trace)
            bands == plan.bands
<1>1. /\ WellFormed(trace) /\ zones = Ascending(Zones(trace)) /\ plan.size = size
    BY DEF Composed, Arrange
<1>2. \A x, y \in names : x # y => Apart(plan, x, y)
    BY NothingCovered
<1>3. ASSUME NEW z \in DOMAIN zones, NEW vm \in names, NodeOf(trace, vm).zone = zones[z]
      PROVE  /\ plan.at[vm][2] + plan.size[vm][2] \div 2 <= bands[z][1]
             /\ plan.at[vm][2] - plan.size[vm][2] \div 2 >= bands[z][2]
    <2>1. PICK i, u, k : Stands(trace, size, columns, zones, depth, plan, vm, i, u, k)
        BY StandsSomewhere
    <2>2. u \in DOMAIN zones /\ zones[u] = zones[z]
        BY <1>3, <2>1 DEF Stands
    <2>3. u = z
        BY <1>1, <2>2, ZonesAreOnce
    <2>. DEFINE y == plan.at[vm][2]
                half == size[vm][2] \div 2
                top == bands[z][1]
                bottom == bands[z][2]
    <2>4. y \in Int /\ y + half <= top - 2 /\ y - half >= bottom
        BY <2>1, <2>3, InItsBand
    <2>5. top \in Int /\ half \in Int
        <3>1. top \in Int
            BY BandsOK
        <3>2. size[vm][2] \in Nat
            BY DEF Composed, Sized
        <3>. QED BY <3>1, <3>2
    <2>. HIDE DEF y, half, top, bottom
    <2>6. y + half <= top /\ y - half >= bottom
        BY <2>4, <2>5
    <2>. QED BY <1>1, <2>6 DEF y, half, top, bottom
<1>4. ASSUME NEW z \in DOMAIN zones \ {1} PROVE bands[z][1] <= bands[z - 1][2]
    <2>1. PICK n \in Nat : DOMAIN zones = 1 .. n
        BY <1>1, ZonesOK
    <2>2. z \in Int /\ z - 1 \in DOMAIN zones /\ z - 1 < z
        BY <2>1
    <2>. QED BY <2>2, BandsOK
<1>. QED BY <1>1, <1>2, <1>3, <1>4 DEF Legible

(* How large a drawing is, and so how well it fills the frame, is a number.   *)
LEMMA FitIsNumber ==
    ASSUME NEW trace, NEW size, NEW columns, NEW zones, NEW depth, NEW plan,
           Composed(trace, size, columns, zones, depth, plan),
           NEW frame \in Nat \X Nat
    PROVE  Fit(plan, frame) \in Int
<1>. DEFINE wide == StartOf(trace, size, columns, depth, Len(columns) + 1)
            gap  == GapX(trace)
            w == plan.width
            h == plan.height
<1>1. h \in Nat \ {0}
    BY BandsOK
<1>2. wide \in Nat
    <2>1. /\ WellFormed(trace) /\ Sized(trace, size) /\ Covered(trace, columns)
          /\ depth \in Nat \ {0}
        BY DEF Composed
    <2>2. Len(columns) \in Nat
        BY <2>1, LenProperties DEF Covered
    <2>3. Len(columns) + 1 \in 1 .. (Len(columns) + 1)
        BY <2>2
    <2>. QED BY <2>1, <2>3, StartsOK
<1>3. gap \in Nat
    BY RoomOK
<1>4. w = Max({1, wide - gap})
    BY DEF Composed, Arrange
<1>. HIDE DEF wide, gap, w, h
<1>5. w \in Nat \ {0}
    <2>1. Max({1, wide - gap}) = IF 1 >= wide - gap THEN 1 ELSE wide - gap
        BY <1>2, <1>3, MaxOfTwo
    <2>. QED BY <1>2, <1>3, <1>4, <2>1
<1>. DEFINE a == (frame[1] * 1000) \div (w + 90)
            b == (frame[2] * 1000) \div (h + 70)
<1>6. a \in Int /\ b \in Int
    BY <1>1, <1>5
<1>7. Fit(plan, frame) = Min({a, b})
    BY DEF Fit, w, h
<1>. HIDE DEF a, b
<1>. QED BY <1>6, <1>7, MinOfTwo

(* Of plans that can be compared one is the best, and is taken.               *)
LEMMA BestIsOne ==
    ASSUME NEW n \in Nat \ {0}, NEW plans, DOMAIN plans = 1 .. n, NEW frame,
           \A d \in 1 .. n : Fit(plans[d], frame) \in Int
    PROVE  \E d \in 1 .. n : Best(plans, frame) = plans[d]
<1>. DEFINE f    == [d \in 1 .. n |-> Fit(plans[d], frame)]
            fits == {f[d] : d \in 1 .. n}
            top  == Max(fits)
            those == {d \in 1 .. n : f[d] = top}
            Chosen(d) == \A e \in 1 .. n : f[e] < f[d] \/ (f[e] = f[d] /\ d <= e)
<1>1. \A d \in 1 .. n : f[d] \in Int /\ f[d] = Fit(plans[d], frame)
    OBVIOUS
<1>2. Best(plans, frame) = plans[CHOOSE d \in 1 .. n : Chosen(d)]
    BY DEF Best
<1>. HIDE DEF f
<1>3. top \in fits /\ \A y \in fits : y <= top
    <2>1. IsFiniteSet(1 .. n)
        BY FS_Interval
    <2>2. IsFiniteSet(fits)
        BY <2>1, FiniteImage
    <2>3. fits \in SUBSET Int /\ f[1] \in fits
        BY <1>1
    <2>. HIDE DEF fits
    <2>. QED BY <2>2, <2>3, FiniteMax
<1>4. those \in SUBSET Nat /\ those # {}
    <2>1. PICK d \in 1 .. n : top = f[d]
        BY <1>3
    <2>2. d \in those
        BY <2>1
    <2>. HIDE DEF top
    <2>. QED BY <2>2
<1>5. PICK d \in those : \A e \in those : d <= e
    BY <1>4, LeastNatural
<1>6. d \in 1 .. n /\ Chosen(d)
    <2>1. d \in 1 .. n /\ f[d] = top
        BY <1>5
    <2>2. ASSUME NEW e \in 1 .. n PROVE f[e] < f[d] \/ (f[e] = f[d] /\ d <= e)
        <3>1. f[e] <= top /\ f[e] \in Int /\ f[d] \in Int
            BY <1>1, <1>3, <2>1
        <3>2. f[e] = top => d <= e
            BY <1>5
        <3>. HIDE DEF top, those
        <3>. QED BY <2>1, <3>1, <3>2
    <2>. QED BY <2>1, <2>2
<1>. HIDE DEF Chosen
<1>. QED BY <1>2, <1>6

(* The plan that is drawn is an arrangement of some depth.                    *)
LEMMA PlaceComposed ==
    ASSUME NEW trace, WellFormed(trace), NEW columns, Covered(trace, columns),
           NEW zones, zones = Ascending(Zones(trace)), NEW frame \in Nat \X Nat
    PROVE  \E depth : Composed(trace, Sizes(trace), columns, zones, depth,
                               Place(trace, columns, zones, frame))
<1>. DEFINE cells   == (DOMAIN columns) \X Zones(trace)
            f       == [c \in cells |-> Len(Cell(trace, columns[c[1]], c[2]))]
            depths  == {1} \cup {Len(Cell(trace, columns[i], z)) :
                                    i \in DOMAIN columns, z \in Zones(trace)}
            deepest == Max(depths)
            plans   == [d \in 1 .. deepest |-> Arrange(trace, Sizes(trace), columns, zones, d)]
<1>1. Place(trace, columns, zones, frame) = Best(plans, frame)
    BY DEF Place
<1>2. depths = {1} \cup {f[c] : c \in cells}
    <2>1. ASSUME NEW d \in depths PROVE d \in {1} \cup {f[c] : c \in cells}
        <3>1. CASE d = 1
            BY <3>1
        <3>2. CASE d # 1
            <4>1. PICK i \in DOMAIN columns, z \in Zones(trace) :
                      d = Len(Cell(trace, columns[i], z))
                BY <2>1, <3>2
            <4>2. <<i, z>> \in cells /\ f[<<i, z>>] = d
                BY <4>1
            <4>. HIDE DEF f, cells
            <4>. QED BY <4>2
        <3>. QED BY <3>1, <3>2
    <2>2. ASSUME NEW c \in cells PROVE f[c] \in depths
        <3>1. c[1] \in DOMAIN columns /\ c[2] \in Zones(trace)
            OBVIOUS
        <3>2. f[c] = Len(Cell(trace, columns[c[1]], c[2]))
            OBVIOUS
        <3>. QED BY <3>1, <3>2
    <2>3. 1 \in depths
        OBVIOUS
    <2>. HIDE DEF depths, f, cells
    <2>. QED BY <2>1, <2>2, <2>3
<1>3. \A c \in cells : f[c] \in Nat
    <2>. TAKE c \in cells
    <2>1. c[1] \in DOMAIN columns
        OBVIOUS
    <2>2. columns[c[1]] \in Seq(NodeNames(trace))
        BY <2>1, LenProperties, ElementOfSeq DEF Covered
    <2>3. Cell(trace, columns[c[1]], c[2]) \in Seq(NodeNames(trace))
        BY <2>2, CellOK
    <2>. QED BY <2>3, LenProperties
<1>4. IsFiniteSet(cells)
    <2>1. DOMAIN columns = 1 .. Len(columns) /\ Len(columns) \in Nat
        BY LenProperties DEF Covered
    <2>2. IsFiniteSet(DOMAIN columns)
        BY <2>1, FS_Interval
    <2>. QED BY <2>2, NamesOK, FS_Product
<1>. HIDE DEF f, cells, depths
<1>5. deepest \in Nat \ {0}
    <2>1. IsFiniteSet({f[c] : c \in cells})
        BY <1>4, FiniteImage
    <2>2. IsFiniteSet({1})
        BY FS_Singleton
    <2>3. IsFiniteSet(depths)
        BY <1>2, <2>1, <2>2, FS_Union
    <2>4. depths \in SUBSET Nat /\ depths \in SUBSET Int /\ 1 \in depths
        BY <1>3, <1>2
    <2>5. Max(depths) \in depths /\ 1 <= Max(depths)
        BY <2>3, <2>4, FiniteMax
    <2>6. Max(depths) \in Nat
        BY <2>4, <2>5
    <2>. QED BY <2>5, <2>6
<1>. HIDE DEF deepest
<1>6. \A d \in 1 .. deepest : Composed(trace, Sizes(trace), columns, zones, d, plans[d])
    BY <1>5, SizesOK DEF Composed
<1>7. \A d \in 1 .. deepest : Fit(plans[d], frame) \in Int
    <2>. HIDE DEF plans
    <2>. QED BY <1>6, FitIsNumber
<1>8. DOMAIN plans = 1 .. deepest
    OBVIOUS
<1>. HIDE DEF plans
<1>9. \E d \in 1 .. deepest : Best(plans, frame) = plans[d]
    BY <1>5, <1>7, <1>8, BestIsOne
<1>. QED BY <1>1, <1>6, <1>9

(* What a run is drawn as on a stage: legible.                                *)
LEMMA EveryPlanIsLegible ==
    ASSUME NEW r \in Runs, NEW box \in Stages
    PROVE  Legible(r, Plan[r][box])
<1>. DEFINE trace == Opened[r]
            columns == Columns(trace, ServiceRank, NameRank)
            zones == Ascending(Zones(trace))
<1>1. WellFormed(trace)
    BY TraceAssumption
<1>2. Ranked(trace, ServiceRank, NameRank)
    BY RankAssumption DEF Ranked
<1>3. Covered(trace, columns)
    BY <1>1, <1>2, ColumnsOK
<1>4. box \in Nat \X Nat
    <2>1. \A b \in Boxes : Half(b) \in Nat \X Nat
        BY PlayerAssumption DEF Half
    <2>. QED BY <2>1, PlayerAssumption DEF Stages
<1>5. Plan[r][box] = Place(trace, columns, zones, box)
    BY DEF Plan, Roles
<1>. HIDE DEF columns
<1>6. PICK depth : Composed(trace, Sizes(trace), columns, zones, depth, Plan[r][box])
    BY <1>1, <1>3, <1>4, <1>5, PlaceComposed
<1>. QED BY <1>6, LegibleArrangement

(* Whatever run is open, whichever is beside it and however large the stage:  *)
(* no two nodes of the picture cover one another, and each is drawn in the    *)
(* band of its zone, above the next one (ThePictureIsLegible).                *)
THEOREM PictureIsLegible == Spec => []ThePictureIsLegible
<1>1. StateInv => ThePictureIsLegible
    BY StageKnown, EveryPlanIsLegible DEF ThePictureIsLegible, LegibleOn
<1>. QED BY <1>1, StateInvariant, PTL

-----------------------------------------------------------------------------
(* The tree of the spans, and the time that is accounted for on it.           *)

(* A recursion has a solution if every value takes only those of smaller size. *)
WellFounded(S, V, size, step) ==
    /\ V # {}
    /\ \A i \in S : size[i] \in Nat
    /\ \A f \in [S -> V], i \in S : step[<<f, i>>] \in V
    /\ \A f, g \in [S -> V], i \in S :
           (\A j \in S : size[j] < size[i] => f[j] = g[j]) => step[<<f, i>>] = step[<<g, i>>]

LEMMA Recursion ==
    ASSUME NEW S, NEW V, NEW size, NEW step, WellFounded(S, V, size, step)
    PROVE  \E f \in [S -> V] : \A i \in S : f[i] = step[<<f, i>>]
<1>1. /\ V # {}
      /\ \A i \in S : size[i] \in Nat
      /\ \A f \in [S -> V], i \in S : step[<<f, i>>] \in V
      /\ \A f, g \in [S -> V], i \in S :
             (\A j \in S : size[j] < size[i] => f[j] = g[j]) => step[<<f, i>>] = step[<<g, i>>]
    BY Zenon DEF WellFounded
<1>. USE <1>1
<1>2. PICK v \in V : TRUE
    OBVIOUS
<1>. DEFINE Solves(f, n) == \A i \in S : size[i] < n => f[i] = step[<<f, i>>]
            Bad == {n \in Nat : \A f \in [S -> V] : ~Solves(f, n)}
<1>3. ASSUME NEW n \in Nat PROVE \E f \in [S -> V] : Solves(f, n)
    <2>1. Bad = {}
        <3>. SUFFICES ASSUME Bad # {} PROVE FALSE
            OBVIOUS
        <3>1. PICK m \in Bad : \A k \in Bad : m <= k
            BY LeastNatural
        <3>2. m # 0
            <4>. DEFINE f == [i \in S |-> v]
            <4>1. f \in [S -> V]
                OBVIOUS
            <4>2. ASSUME m = 0 PROVE Solves(f, m)
                BY <4>2
            <4>. QED BY <3>1, <4>1, <4>2
        <3>3. m - 1 \in Nat /\ ~(m <= m - 1)
            BY <3>1, <3>2
        <3>4. m - 1 \notin Bad
            <4>. HIDE DEF Bad
            <4>. QED BY <3>1, <3>3
        <3>5. PICK f \in [S -> V] : Solves(f, m - 1)
            BY <3>3, <3>4
        <3>. DEFINE g == [i \in S |-> step[<<f, i>>]]
        <3>6. g \in [S -> V] /\ \A i \in S : g[i] = step[<<f, i>>]
            OBVIOUS
        <3>. HIDE DEF g
        <3>7. ASSUME NEW i \in S, size[i] < m PROVE g[i] = step[<<g, i>>]
            <4>1. ASSUME NEW j \in S, size[j] < size[i] PROVE f[j] = g[j]
                <5>1. size[j] \in Nat /\ size[i] \in Nat /\ m \in Nat
                    BY <3>1
                <5>2. size[j] < m - 1
                    BY <3>7, <4>1, <5>1
                <5>. QED BY <3>5, <3>6, <5>2
            <4>. QED BY <3>6, <4>1
        <3>8. Solves(g, m)
            BY <3>7
        <3>. QED BY <3>1, <3>6, <3>8
    <2>. QED BY <2>1
<1>. HIDE DEF Bad
<1>4. ASSUME NEW f \in [S -> V], NEW g \in [S -> V], NEW n \in Nat, NEW m \in Nat,
             Solves(f, n), Solves(g, m), NEW i \in S, size[i] < n, size[i] < m
      PROVE  f[i] = g[i]
    <2>. DEFINE Differ == {size[k] : k \in {x \in S : size[x] < n /\ size[x] < m /\ f[x] # g[x]}}
    <2>. SUFFICES ASSUME f[i] # g[i] PROVE FALSE
        OBVIOUS
    <2>1. Differ \in SUBSET Nat /\ Differ # {}
        BY <1>4
    <2>2. PICK s \in Differ : \A t \in Differ : s <= t
        BY <2>1, LeastNatural
    <2>3. PICK k \in S : s = size[k] /\ size[k] < n /\ size[k] < m /\ f[k] # g[k]
        BY <2>2
    <2>4. ASSUME NEW j \in S, size[j] < size[k] PROVE f[j] = g[j]
        <3>1. size[j] \in Nat /\ size[k] \in Nat
            OBVIOUS
        <3>2. size[j] < n /\ size[j] < m /\ ~(size[k] <= size[j])
            BY <2>3, <2>4, <3>1
        <3>. QED BY <2>2, <2>3, <3>2
    <2>5. step[<<f, k>>] = step[<<g, k>>]
        BY <2>4
    <2>. QED BY <1>4, <2>3, <2>5
<1>. DEFINE sol == [i \in S |-> CHOOSE f \in [S -> V] : Solves(f, size[i] + 1)]
            F   == [i \in S |-> sol[i][i]]
<1>5. ASSUME NEW i \in S PROVE sol[i] \in [S -> V] /\ Solves(sol[i], size[i] + 1)
    <2>1. size[i] + 1 \in Nat
        OBVIOUS
    <2>2. \E f \in [S -> V] : Solves(f, size[i] + 1)
        BY <1>3, <2>1
    <2>. HIDE DEF Solves
    <2>. QED BY <2>2
<1>6. F \in [S -> V] /\ \A i \in S : F[i] = sol[i][i]
    BY <1>5
<1>. HIDE DEF F, sol
<1>7. ASSUME NEW i \in S PROVE F[i] = step[<<F, i>>]
    <2>1. size[i] \in Nat
        OBVIOUS
    <2>2. sol[i][i] = step[<<sol[i], i>>]
        BY <1>5, <2>1
    <2>3. ASSUME NEW j \in S, size[j] < size[i] PROVE F[j] = sol[i][j]
        <3>1. size[j] \in Nat /\ size[j] < size[j] + 1 /\ size[j] < size[i] + 1
            BY <2>1, <2>3
        <3>2. /\ sol[j] \in [S -> V] /\ Solves(sol[j], size[j] + 1)
              /\ sol[i] \in [S -> V] /\ Solves(sol[i], size[i] + 1)
            BY <1>5
        <3>. HIDE DEF Solves
        <3>3. size[j] + 1 \in Nat /\ size[i] + 1 \in Nat
            BY <2>1, <3>1
        <3>. QED BY <1>4, <1>6, <3>1, <3>2, <3>3
    <2>4. step[<<F, i>>] = step[<<sol[i], i>>]
        BY <1>5, <1>6, <2>3
    <2>. QED BY <1>6, <2>2, <2>4
<1>. QED BY <1>6, <1>7

(* What two lists have together.                                              *)
LEMMA RangeOfBoth ==
    ASSUME NEW T, NEW s \in Seq(T), NEW t \in Seq(T)
    PROVE  s \o t \in Seq(T) /\ Range(s \o t) = Range(s) \cup Range(t)
<1>1. s \o t \in Seq(T) /\ Len(s \o t) = Len(s) + Len(t) /\ Len(s) \in Nat /\ Len(t) \in Nat
    OBVIOUS
<1>2. /\ \A i \in 1 .. Len(s) : (s \o t)[i] = s[i]
      /\ \A i \in 1 .. Len(t) : (s \o t)[Len(s) + i] = t[i]
    OBVIOUS
<1>3. /\ DOMAIN s = 1 .. Len(s) /\ DOMAIN t = 1 .. Len(t)
      /\ DOMAIN (s \o t) = 1 .. (Len(s) + Len(t))
    BY <1>1
<1>4. ASSUME NEW x \in Range(s \o t) PROVE x \in Range(s) \cup Range(t)
    <2>1. PICK i \in 1 .. (Len(s) + Len(t)) : x = (s \o t)[i]
        BY <1>3 DEF Range
    <2>2. CASE i <= Len(s)
        <3>1. i \in 1 .. Len(s)
            BY <1>1, <2>2
        <3>. QED BY <1>2, <1>3, <2>1, <3>1 DEF Range
    <2>3. CASE i > Len(s)
        <3>1. i - Len(s) \in 1 .. Len(t) /\ Len(s) + (i - Len(s)) = i
            BY <1>1, <2>3
        <3>2. x = t[i - Len(s)]
            BY <1>2, <2>1, <3>1
        <3>. QED BY <1>3, <3>1, <3>2 DEF Range
    <2>. QED BY <1>1, <2>2, <2>3
<1>5. ASSUME NEW x \in Range(s) PROVE x \in Range(s \o t)
    <2>1. PICK i \in 1 .. Len(s) : x = s[i]
        BY <1>3 DEF Range
    <2>2. i \in 1 .. (Len(s) + Len(t)) /\ x = (s \o t)[i]
        BY <1>1, <1>2, <2>1
    <2>. QED BY <1>3, <2>2 DEF Range
<1>6. ASSUME NEW x \in Range(t) PROVE x \in Range(s \o t)
    <2>1. PICK i \in 1 .. Len(t) : x = t[i]
        BY <1>3 DEF Range
    <2>2. Len(s) + i \in 1 .. (Len(s) + Len(t)) /\ x = (s \o t)[Len(s) + i]
        BY <1>1, <1>2, <2>1
    <2>. QED BY <1>3, <2>2 DEF Range
<1>. QED BY <1>1, <1>4, <1>5, <1>6

(* What the community modules define a list of lists put in one by.           *)
Joined(ss) == CHOOSE f : f = [i \in 1 .. Len(ss) |-> IF i = 1 THEN ss[i] ELSE f[i - 1] \o ss[i]]

LEMMA JoinedSolves ==
    ASSUME NEW T, NEW ss \in Seq(Seq(T))
    PROVE  Joined(ss) = [i \in 1 .. Len(ss) |->
                            IF i = 1 THEN ss[i] ELSE Joined(ss)[i - 1] \o ss[i]]
<1>. DEFINE n    == Len(ss)
            D    == 1 .. n
            V    == Seq(T)
            size == [i \in D |-> i]
            step == [p \in [D -> V] \X D |->
                        IF p[2] = 1 THEN ss[p[2]] ELSE p[1][p[2] - 1] \o ss[p[2]]]
<1>1. n \in Nat /\ \A i \in D : ss[i] \in V
    OBVIOUS
<1>2. ASSUME NEW f \in [D -> V], NEW i \in D
      PROVE  step[<<f, i>>] = IF i = 1 THEN ss[i] ELSE f[i - 1] \o ss[i]
    OBVIOUS
<1>. HIDE DEF step
<1>3. \A i \in D : i \in Nat /\ size[i] = i /\ (i # 1 => i - 1 \in D /\ i - 1 < i)
    BY <1>1
<1>4. ASSUME NEW f \in [D -> V], NEW i \in D PROVE step[<<f, i>>] \in V
    <2>1. CASE i = 1
        BY <1>1, <1>2, <2>1
    <2>2. CASE i # 1
        <3>1. f[i - 1] \in V /\ ss[i] \in V
            BY <1>1, <1>3, <2>2
        <3>2. f[i - 1] \o ss[i] \in V
            BY <3>1
        <3>. QED BY <1>2, <2>2, <3>2
    <2>. QED BY <2>1, <2>2
<1>5. ASSUME NEW f \in [D -> V], NEW g \in [D -> V], NEW i \in D,
             \A j \in D : size[j] < size[i] => f[j] = g[j]
      PROVE  step[<<f, i>>] = step[<<g, i>>]
    <2>. HIDE DEF D, size
    <2>. HIDE DEF V
    <2>1. CASE i = 1
        BY <1>2, <2>1
    <2>2. CASE i # 1
        <3>1. f[i - 1] = g[i - 1]
            BY <1>3, <1>5, <2>2
        <3>. QED BY <1>2, <2>2, <3>1
    <2>. QED BY <2>1, <2>2
<1>6. <<>> \in V /\ \A i \in D : size[i] \in Nat
    BY <1>3
<1>. HIDE DEF D, V, size
<1>7. \A f \in [D -> V], i \in D : step[<<f, i>>] \in V
    BY <1>4
<1>8. \A f, g \in [D -> V], i \in D :
          (\A j \in D : size[j] < size[i] => f[j] = g[j]) => step[<<f, i>>] = step[<<g, i>>]
    BY <1>5
<1>9. WellFounded(D, V, size, step)
    BY <1>7, <1>8, <1>6, Zenon DEF WellFounded
<1>10. PICK f \in [D -> V] : \A i \in D : f[i] = step[<<f, i>>]
    BY <1>9, Recursion
<1>11. f = [i \in D |-> IF i = 1 THEN ss[i] ELSE f[i - 1] \o ss[i]]
    BY <1>2, <1>10
<1>12. \E h : h = [i \in 1 .. Len(ss) |-> IF i = 1 THEN ss[i] ELSE h[i - 1] \o ss[i]]
    BY <1>11 DEF D
<1>. QED BY <1>12, Zenon DEF Joined

(* Lists put in one have together what each of them has.                      *)
LEMMA FlattenAll ==
    ASSUME NEW T, NEW ss \in Seq(Seq(T))
    PROVE  /\ FlattenSeq(ss) \in Seq(T)
           /\ Range(FlattenSeq(ss)) = UNION {Range(ss[k]) : k \in DOMAIN ss}
<1>. DEFINE n == Len(ss)
            J == Joined(ss)
            all(i) == UNION {Range(ss[k]) : k \in 1 .. i}
            Bad == {i \in 1 .. n : ~(J[i] \in Seq(T) /\ Range(J[i]) = all(i))}
<1>1. FlattenSeq(ss) = IF n = 0 THEN ss ELSE J[n]
    BY DEF FlattenSeq, Joined
<1>2. n \in Nat /\ DOMAIN ss = 1 .. n /\ \A i \in 1 .. n : ss[i] \in Seq(T)
    OBVIOUS
<1>3. \A i \in 1 .. n : J[i] = IF i = 1 THEN ss[i] ELSE J[i - 1] \o ss[i]
    <2>. HIDE DEF J
    <2>1. J = [i \in 1 .. n |-> IF i = 1 THEN ss[i] ELSE J[i - 1] \o ss[i]]
        BY JoinedSolves, Zenon DEF J
    <2>. HIDE DEF n
    <2>. QED BY <2>1
<1>. HIDE DEF J, n
<1>4. Bad = {}
    <2>. SUFFICES ASSUME Bad # {} PROVE FALSE
        OBVIOUS
    <2>1. Bad \in SUBSET Nat
        OBVIOUS
    <2>2. PICK i \in Bad : \A j \in Bad : i <= j
        BY <2>1, LeastNatural
    <2>3. i \in 1 .. n /\ i \in Nat
        BY <1>2
    <2>4. CASE i = 1
        <3>1. J[i] = ss[i] /\ ss[i] \in Seq(T)
            BY <1>2, <1>3, <2>3, <2>4
        <3>2. all(i) = Range(ss[i])
            BY <2>4
        <3>. QED BY <2>2, <3>1, <3>2
    <2>5. CASE i # 1
        <3>1. i - 1 \in 1 .. n /\ ~(i <= i - 1)
            BY <1>2, <2>3, <2>5
        <3>2. i - 1 \notin Bad
            <4>. HIDE DEF Bad
            <4>. QED BY <2>2, <3>1
        <3>3. J[i - 1] \in Seq(T) /\ Range(J[i - 1]) = all(i - 1)
            BY <3>1, <3>2
        <3>4. J[i] = J[i - 1] \o ss[i] /\ ss[i] \in Seq(T)
            BY <1>2, <1>3, <2>3, <2>5
        <3>5. J[i] \in Seq(T) /\ Range(J[i]) = Range(J[i - 1]) \cup Range(ss[i])
            BY <3>3, <3>4, RangeOfBoth
        <3>6. all(i) = all(i - 1) \cup Range(ss[i])
            <4>1. 1 .. i = (1 .. (i - 1)) \cup {i}
                BY <2>3
            <4>. QED BY <4>1
        <3>7. J[i] \in Seq(T) /\ Range(J[i]) = all(i)
            BY <3>3, <3>5, <3>6
        <3>. QED BY <2>2, <3>7
    <2>. QED BY <2>4, <2>5
<1>5. CASE n = 0
    <2>1. ss = <<>> /\ DOMAIN ss = {}
        BY <1>5 DEF n
    <2>2. <<>> \in Seq(T) /\ Range(<<>>) = {}
        BY DEF Range
    <2>. QED BY <1>1, <1>5, <2>1, <2>2
<1>6. CASE n # 0
    <2>1. n \in 1 .. n
        BY <1>2, <1>6
    <2>2. J[n] \in Seq(T) /\ Range(J[n]) = all(n)
        BY <1>4, <2>1
    <2>. QED BY <1>1, <1>2, <1>6, <2>2
<1>. QED BY <1>5, <1>6

(* The spans of a trace by their ids, as the tree is built from them.         *)
SpansOK(span) ==
    /\ IsFiniteSet(DOMAIN span) /\ DOMAIN span \in SUBSET (Nat \ {0})
    /\ \A i \in DOMAIN span :
           /\ span[i].id = i /\ span[i].parent \in Nat /\ span[i].parent < i
           /\ span[i].t0 \in Nat /\ span[i].t1 \in Nat \cup {Open} /\ span[i].net \in Nat
           /\ span[i].t1 # Open => span[i].t0 <= span[i].t1

LEMMA ByIdOK ==
    ASSUME NEW trace, WellFormed(trace)
    PROVE  /\ SpansOK(ById(trace))
           /\ \A i \in DOMAIN ById(trace) : ById(trace)[i] \in SpanSet(trace)
<1>. DEFINE all  == SpanSet(trace)
            ids  == {s.id : s \in all}
            span == ById(trace)
<1>1. span = [k \in ids |-> CHOOSE s \in all : s.id = k]
    BY DEF ById
<1>2. IsFiniteSet(ids)
    <2>1. IsList(trace.spans)
        BY DEF WellFormed
    <2>2. IsFiniteSet(all)
        BY <2>1, FiniteRange DEF SpanSet
    <2>. DEFINE of == [s \in all |-> s.id]
    <2>. HIDE DEF all
    <2>3. IsFiniteSet({of[s] : s \in all})
        BY <2>2, FiniteImage
    <2>4. {of[s] : s \in all} = ids
        OBVIOUS
    <2>. QED BY <2>3, <2>4
<1>3. \A s \in all : /\ s.id \in Nat \ {0} /\ s.parent \in Nat /\ s.parent < s.id
                     /\ s.t0 \in Nat /\ s.t1 \in Nat \cup {Open} /\ s.net \in Nat
                     /\ s.t1 # Open => s.t0 <= s.t1
    BY DEF WellFormed
<1>. HIDE DEF all, span
<1>4. ASSUME NEW i \in ids PROVE span[i] \in all /\ span[i].id = i
    <2>1. \E s \in all : s.id = i
        OBVIOUS
    <2>2. span[i] = CHOOSE s \in all : s.id = i
        BY <1>1
    <2>. QED BY <2>1, <2>2
<1>5. DOMAIN span = ids
    BY <1>1
<1>6. ids \in SUBSET (Nat \ {0})
    BY <1>3
<1>7. \A i \in ids :
           /\ span[i].id = i /\ span[i].parent \in Nat /\ span[i].parent < i
           /\ span[i].t0 \in Nat /\ span[i].t1 \in Nat \cup {Open} /\ span[i].net \in Nat
           /\ span[i].t1 # Open => span[i].t0 <= span[i].t1
    BY <1>3, <1>4
<1>. HIDE DEF ids
<1>8. SpansOK(span)
    BY <1>2, <1>5, <1>6, <1>7 DEF SpansOK
<1>. QED BY <1>4, <1>5, <1>8 DEF span, all

(* The children of a span are those that name it, each of them once.          *)
ChildrenOf(span, i) == {c \in DOMAIN span : span[c].parent = i}

LEMMA KidsOK ==
    ASSUME NEW span, SpansOK(span), NEW i \in DOMAIN span \cup {0}
    PROVE  /\ KidsOf(span)[i] \in Seq(DOMAIN span)
           /\ Range(KidsOf(span)[i]) = ChildrenOf(span, i)
           /\ \A j, k \in DOMAIN KidsOf(span)[i] :
                  KidsOf(span)[i][j] = KidsOf(span)[i][k] => j = k
<1>. DEFINE ids   == DOMAIN span
            S     == ChildrenOf(span, i)
            order == {p \in ids \X ids : Before(span[p[1]], span[p[2]])}
            list  == InOrder(S, order)
<1>1. KidsOf(span)[i] = list
    BY DEF KidsOf, ChildrenOf
<1>2. S \in SUBSET ids /\ IsFiniteSet(S)
    <2>1. S \in SUBSET ids
        BY DEF ChildrenOf
    <2>2. IsFiniteSet(ids)
        BY DEF SpansOK
    <2>. QED BY <2>1, <2>2, FS_Subset
<1>3. \A x, y \in ids : <<x, y>> \in order <=>
          span[x].t0 < span[y].t0 \/ (span[x].t0 = span[y].t0 /\ x < y)
    BY DEF Before, SpansOK
<1>4. \A x \in ids : x \in Nat /\ span[x].t0 \in Nat
    BY DEF SpansOK
<1>. HIDE DEF order, S
<1>5. \A x \in S : <<x, x>> \notin order
    BY <1>2, <1>3, <1>4
<1>6. \A x, y \in S : x # y => <<x, y>> \in order \/ <<y, x>> \in order
    BY <1>2, <1>3, <1>4
<1>7. \A x, y, z \in S : <<x, y>> \in order /\ <<y, z>> \in order => <<x, z>> \in order
    BY <1>2, <1>3, <1>4
<1>. DEFINE n == Cardinality(S)
<1>8. /\ n \in Nat /\ list \in [1 .. n -> S]
      /\ \A x \in S : \E k \in 1 .. n : list[k] = x
    BY <1>2, <1>5, <1>6, <1>7, InOrderList
<1>9. \A j, k \in 1 .. n : j < k => <<list[j], list[k]>> \in order
    BY <1>2, <1>5, <1>6, <1>7, InOrderSorts, Zenon
<1>. HIDE DEF list, n
<1>10. list \in Seq(ids)
    <2>1. list \in [1 .. n -> ids]
        BY <1>2, <1>8
    <2>. QED BY <1>8, <2>1
<1>11. Range(list) = S
    BY <1>8 DEF Range
<1>12. \A j, k \in 1 .. n : list[j] = list[k] => j = k
    <2>1. \A j, k \in 1 .. n : j < k => list[j] # list[k]
        BY <1>5, <1>8, <1>9
    <2>2. \A j, k \in 1 .. n : j < k \/ j = k \/ k < j
        BY <1>8
    <2>. QED BY <2>1, <2>2
<1>13. DOMAIN list = 1 .. n
    BY <1>8
<1>. QED BY <1>1, <1>10, <1>11, <1>12, <1>13 DEF S

(* The ancestors, upwards.                                                    *)
LEMMA UpSolves ==
    ASSUME NEW span, SpansOK(span)
    PROVE  \A i \in DOMAIN span \cup {0} :
               /\ UpFrom(span)[i] \in SUBSET (DOMAIN span)
               /\ UpFrom(span)[i] =
                      IF i = 0 THEN {}
                      ELSE IF span[i].parent \in DOMAIN span \cup {0}
                           THEN {i} \cup UpFrom(span)[span[i].parent]
                      ELSE {i}
<1>. DEFINE ids  == DOMAIN span
            D    == ids \cup {0}
            V    == SUBSET ids
            size == [i \in D |-> i]
            above(f, i) == IF i = 0 THEN {}
                           ELSE IF span[i].parent \in D THEN {i} \cup f[span[i].parent]
                           ELSE {i}
            step == [p \in [D -> V] \X D |-> above(p[1], p[2])]
<1>1. ASSUME NEW f \in [D -> V], NEW i \in D PROVE step[<<f, i>>] = above(f, i)
    <2>. HIDE DEF D, V, above
    <2>. QED OBVIOUS
<1>2. /\ ids \in SUBSET (Nat \ {0})
      /\ \A i \in ids : span[i].parent \in Nat /\ span[i].parent < i
    BY DEF SpansOK
<1>. HIDE DEF step
<1>3. ASSUME NEW f \in [D -> V], NEW i \in D PROVE step[<<f, i>>] \in V
    <2>1. step[<<f, i>>] = above(f, i)
        BY <1>1
    <2>2. i # 0 => i \in ids
        OBVIOUS
    <2>3. span[i].parent \in D => f[span[i].parent] \in SUBSET ids
        OBVIOUS
    <2>. HIDE DEF D
    <2>. QED BY <2>1, <2>2, <2>3
<1>4. ASSUME NEW f \in [D -> V], NEW g \in [D -> V], NEW i \in D,
             \A j \in D : size[j] < size[i] => f[j] = g[j]
      PROVE  step[<<f, i>>] = step[<<g, i>>]
    <2>1. i # 0 /\ span[i].parent \in D => f[span[i].parent] = g[span[i].parent]
        BY <1>2, <1>4
    <2>. HIDE DEF D, V, size
    <2>. QED BY <1>1, <2>1
<1>5. V # {} /\ \A i \in D : size[i] \in Nat
    BY <1>2
<1>. HIDE DEF D, V, size
<1>6. \A f \in [D -> V], i \in D : step[<<f, i>>] \in V
    BY <1>3
<1>7. \A f, g \in [D -> V], i \in D :
          (\A j \in D : size[j] < size[i] => f[j] = g[j]) => step[<<f, i>>] = step[<<g, i>>]
    BY <1>4
<1>8. WellFounded(D, V, size, step)
    BY <1>6, <1>7, <1>5, Zenon DEF WellFounded
<1>9. PICK f \in [D -> V] : \A i \in D : f[i] = step[<<f, i>>]
    BY <1>8, Recursion
<1>10. f = [i \in D |-> above(f, i)]
    BY <1>1, <1>9
<1>. DEFINE up == UpFrom(span)
<1>11. up = [i \in D |-> above(up, i)]
    <2>1. \E h : h = [i \in DOMAIN span \cup {0} |->
                        IF i = 0 THEN {}
                        ELSE IF span[i].parent \in DOMAIN span \cup {0} THEN {i} \cup h[span[i].parent]
                        ELSE {i}]
        BY <1>10 DEF D
    <2>. QED BY <2>1, Zenon DEF UpFrom, D
<1>. HIDE DEF up
<1>12. \A i \in D : up[i] = above(up, i)
    BY <1>11
<1>. DEFINE Bad == {i \in D : ~(up[i] \in V)}
<1>13. Bad = {}
    <2>. SUFFICES ASSUME Bad # {} PROVE FALSE
        OBVIOUS
    <2>1. Bad \in SUBSET Nat
        BY <1>2 DEF D
    <2>2. PICK i \in Bad : \A j \in Bad : i <= j
        BY <2>1, LeastNatural
    <2>3. i \in D /\ up[i] \notin V
        BY <2>2
    <2>. HIDE DEF Bad
    <2>4. up[i] = IF i = 0 THEN {} ELSE IF span[i].parent \in D THEN {i} \cup up[span[i].parent] ELSE {i}
        BY <1>12, <2>3
    <2>5. i # 0 => i \in ids
        BY <2>3 DEF D
    <2>6. i # 0 /\ span[i].parent \in D /\ i \in ids
        BY <2>4, <2>5, <2>3 DEF V
    <2>7. span[i].parent \notin Bad
        BY <1>2, <2>2, <2>6, <2>1
    <2>8. up[span[i].parent] \in V
        BY <2>6, <2>7 DEF Bad
    <2>9. up[i] = {i} \cup up[span[i].parent]
        BY <2>4, <2>6
    <2>. QED BY <2>3, <2>6, <2>8, <2>9 DEF V
<1>14. \A i \in D : up[i] \in V
    BY <1>13
<1>. QED BY <1>12, <1>14, Zenon DEF up, D, V

(* Nothing is its own ancestor: who is above a span began before it.          *)
LEMMA UpIsBefore ==
    ASSUME NEW span, SpansOK(span), NEW i \in DOMAIN span
    PROVE  /\ i \in UpFrom(span)[i]
           /\ \A j \in UpFrom(span)[i] : j <= i
<1>. DEFINE ids == DOMAIN span
            D   == ids \cup {0}
            up  == UpFrom(span)
            Bad == {k \in ids : \E j \in up[k] : ~(j <= k)}
<1>1. \A k \in D : /\ up[k] \in SUBSET ids
                   /\ up[k] = IF k = 0 THEN {}
                              ELSE IF span[k].parent \in D THEN {k} \cup up[span[k].parent]
                              ELSE {k}
    BY UpSolves, Zenon
<1>2. /\ ids \in SUBSET (Nat \ {0})
      /\ \A k \in ids : span[k].parent \in Nat /\ span[k].parent < k
    BY DEF SpansOK
<1>. HIDE DEF up
<1>3. Bad = {}
    <2>. SUFFICES ASSUME Bad # {} PROVE FALSE
        OBVIOUS
    <2>1. Bad \in SUBSET Nat
        BY <1>2
    <2>2. PICK k \in Bad : \A j \in Bad : k <= j
        BY <2>1, LeastNatural
    <2>3. PICK j \in up[k] : ~(j <= k)
        BY <2>2
    <2>4. k \in ids /\ k \in Nat /\ k # 0
        BY <1>2
    <2>. DEFINE p == span[k].parent
    <2>5. j # k
        BY <2>3, <2>4
    <2>6. p \in D /\ j \in up[p]
        <3>1. up[k] = IF p \in D THEN {k} \cup up[p] ELSE {k}
            BY <1>1, <2>4
        <3>. HIDE DEF D, p
        <3>. QED BY <2>3, <2>5, <3>1
    <2>7. p # 0
        BY <1>1, <2>6
    <2>8. p \in ids /\ p < k /\ p \in Nat /\ j \in Nat
        BY <1>1, <1>2, <2>4, <2>6, <2>7
    <2>. HIDE DEF p
    <2>9. p \notin Bad
        <3>1. ~(k <= p)
            BY <2>4, <2>8
        <3>. HIDE DEF Bad
        <3>. QED BY <2>2, <3>1
    <2>10. j <= p
        BY <2>6, <2>8, <2>9
    <2>. QED BY <2>3, <2>4, <2>8, <2>10
<1>4. i \in ids /\ i # 0
    BY <1>2
<1>5. i \in up[i]
    <2>1. up[i] = IF span[i].parent \in D THEN {i} \cup up[span[i].parent] ELSE {i}
        BY <1>1, <1>4
    <2>. HIDE DEF D
    <2>. QED BY <2>1
<1>6. \A j \in up[i] : j <= i
    BY <1>3, <1>4
<1>. QED BY <1>5, <1>6 DEF up

(* A tree goes on to later spans only, so that it can be walked.              *)
Downward(kids) ==
    /\ IsFiniteSet(DOMAIN kids) /\ DOMAIN kids \in SUBSET Nat
    /\ \A i \in DOMAIN kids : /\ kids[i] \in Seq(DOMAIN kids)
                              /\ \A k \in DOMAIN kids[i] : i < kids[i][k]

LEMMA KidsGoDown ==
    ASSUME NEW span, SpansOK(span)
    PROVE  Downward(KidsOf(span)) /\ DOMAIN KidsOf(span) = DOMAIN span \cup {0}
<1>. DEFINE kids == KidsOf(span)
            ids  == DOMAIN span
<1>1. DOMAIN kids = ids \cup {0}
    BY DEF KidsOf
<1>2. /\ ids \in SUBSET (Nat \ {0}) /\ IsFiniteSet(ids)
      /\ \A i \in ids : span[i].parent < i
    BY DEF SpansOK
<1>3. IsFiniteSet(ids \cup {0}) /\ ids \cup {0} \in SUBSET Nat
    BY <1>2, FS_AddElement
<1>4. ASSUME NEW i \in ids \cup {0}
      PROVE  /\ kids[i] \in Seq(ids \cup {0})
             /\ \A k \in DOMAIN kids[i] : i < kids[i][k]
    <2>1. kids[i] \in Seq(ids) /\ Range(kids[i]) = ChildrenOf(span, i)
        BY KidsOK
    <2>. HIDE DEF kids, ids
    <2>2. kids[i] \in Seq(ids \cup {0})
        BY <2>1
    <2>3. ASSUME NEW k \in DOMAIN kids[i] PROVE i < kids[i][k]
        <3>1. kids[i][k] \in ChildrenOf(span, i)
            BY <2>1 DEF Range
        <3>. QED BY <1>2, <3>1 DEF ChildrenOf, ids
    <2>. QED BY <2>2, <2>3
<1>. HIDE DEF kids, ids
<1>. QED BY <1>1, <1>3, <1>4 DEF Downward, kids, ids

LEMMA WalkSolves ==
    ASSUME NEW kids, Downward(kids)
    PROVE  \A i \in DOMAIN kids :
               WalkFrom(kids)[i] = <<i>> \o FlattenSeq([k \in DOMAIN kids[i] |->
                                                            WalkFrom(kids)[kids[i][k]]])
<1>. DEFINE D == DOMAIN kids
            V == Seq(D)
            under(f, i) == [k \in DOMAIN kids[i] |-> f[kids[i][k]]]
            step == [p \in [D -> V] \X D |-> <<p[2]>> \o FlattenSeq(under(p[1], p[2]))]
<1>1. /\ IsFiniteSet(D) /\ D \in SUBSET Nat
      /\ \A i \in D : kids[i] \in Seq(D) /\ \A k \in DOMAIN kids[i] : i < kids[i][k]
    BY DEF Downward
<1>2. PICK m \in Nat : \A i \in D : i <= m
    <2>1. CASE D = {}
        BY <2>1
    <2>2. CASE D # {}
        <3>1. D \in SUBSET Int
            BY <1>1
        <3>2. Max(D) \in D /\ \A i \in D : i <= Max(D)
            BY <1>1, <2>2, <3>1, FiniteMax
        <3>. QED BY <1>1, <3>2
    <2>. QED BY <2>1, <2>2
<1>. DEFINE size == [i \in D |-> m - i]
<1>3. ASSUME NEW f \in [D -> V], NEW i \in D
      PROVE  step[<<f, i>>] = <<i>> \o FlattenSeq(under(f, i))
    <2>. HIDE DEF D, V, under
    <2>. QED OBVIOUS
<1>. HIDE DEF step
<1>4. ASSUME NEW f \in [D -> V], NEW i \in D PROVE step[<<f, i>>] \in V
    <2>. HIDE DEF D
    <2>1. kids[i] \in Seq(D) /\ DOMAIN kids[i] = 1 .. Len(kids[i]) /\ Len(kids[i]) \in Nat
        BY <1>1
    <2>2. \A k \in DOMAIN kids[i] : f[kids[i][k]] \in Seq(D)
        BY <2>1
    <2>3. under(f, i) \in Seq(Seq(D))
        <3>1. under(f, i) \in [1 .. Len(kids[i]) -> Seq(D)]
            BY <2>1, <2>2
        <3>. QED BY <2>1, <3>1
    <2>4. FlattenSeq(under(f, i)) \in Seq(D)
        BY <2>3, FlattenAll
    <2>5. <<i>> \in Seq(D)
        OBVIOUS
    <2>6. <<i>> \o FlattenSeq(under(f, i)) \in Seq(D)
        BY <2>4, <2>5, RangeOfBoth
    <2>. QED BY <1>3, <2>6
<1>5. ASSUME NEW f \in [D -> V], NEW g \in [D -> V], NEW i \in D,
             \A j \in D : size[j] < size[i] => f[j] = g[j]
      PROVE  step[<<f, i>>] = step[<<g, i>>]
    <2>1. ASSUME NEW k \in DOMAIN kids[i] PROVE f[kids[i][k]] = g[kids[i][k]]
        <3>1. kids[i][k] \in D /\ i < kids[i][k] /\ i \in Nat /\ kids[i][k] \in Nat
            BY <1>1
        <3>2. size[kids[i][k]] < size[i]
            BY <3>1
        <3>. QED BY <1>5, <3>1, <3>2
    <2>2. under(f, i) = under(g, i)
        BY <2>1
    <2>. HIDE DEF under, D, V
    <2>. QED BY <1>3, <2>2
<1>6. V # {} /\ \A i \in D : size[i] \in Nat
    <2>1. <<>> \in V
        OBVIOUS
    <2>2. \A i \in D : i \in Nat /\ i <= m
        BY <1>1, <1>2
    <2>3. ASSUME NEW i \in D PROVE size[i] \in Nat
        <3>1. size[i] = m - i
            OBVIOUS
        <3>. HIDE DEF size
        <3>. QED BY <2>2, <3>1
    <2>. HIDE DEF V, size
    <2>. QED BY <2>1, <2>3
<1>. HIDE DEF D, V, size
<1>7. \A f \in [D -> V], i \in D : step[<<f, i>>] \in V
    BY <1>4
<1>8. \A f, g \in [D -> V], i \in D :
          (\A j \in D : size[j] < size[i] => f[j] = g[j]) => step[<<f, i>>] = step[<<g, i>>]
    BY <1>5
<1>9. WellFounded(D, V, size, step)
    BY <1>6, <1>7, <1>8, Zenon DEF WellFounded
<1>10. PICK f \in [D -> V] : \A i \in D : f[i] = step[<<f, i>>]
    BY <1>9, Recursion
<1>11. f = [i \in D |-> <<i>> \o FlattenSeq(under(f, i))]
    <2>. HIDE DEF under
    <2>. QED BY <1>3, <1>10
<1>12. \E h : h = [i \in DOMAIN kids |->
                     <<i>> \o FlattenSeq([k \in DOMAIN kids[i] |-> h[kids[i][k]]])]
    BY <1>11, Zenon DEF D
<1>. DEFINE W == WalkFrom(kids)
<1>13. W = [i \in DOMAIN kids |->
              <<i>> \o FlattenSeq([k \in DOMAIN kids[i] |-> W[kids[i][k]]])]
    BY <1>12, Zenon DEF WalkFrom
<1>. HIDE DEF W
<1>14. \A i \in DOMAIN kids :
          W[i] = <<i>> \o FlattenSeq([k \in DOMAIN kids[i] |-> W[kids[i][k]]])
    BY <1>13, Zenon
<1>. QED BY <1>14 DEF W

(* Walking from a span meets it and what walking from its children meets.     *)
LEMMA WalkMeets ==
    ASSUME NEW kids, Downward(kids), NEW i \in DOMAIN kids
    PROVE  LET walk == WalkFrom(kids)
               rest == UNION {Range(walk[c]) : c \in Range(kids[i])}
           IN  /\ walk[i] \in Seq(DOMAIN kids)
               /\ Range(walk[i]) = {i} \cup rest
               /\ Range(Tail(walk[i])) = rest
<1>. DEFINE D == DOMAIN kids
            W == WalkFrom(kids)
            under(j) == [k \in DOMAIN kids[j] |-> W[kids[j][k]]]
            rest(j)  == FlattenSeq(under(j))
            met(j)   == UNION {Range(W[c]) : c \in Range(kids[j])}
            Fine(j)  == /\ W[j] \in Seq(D) /\ rest(j) \in Seq(D)
                        /\ Range(W[j]) = {j} \cup met(j)
                        /\ Range(Tail(W[j])) = met(j)
            Bad == {j \in D : ~Fine(j)}
<1>1. /\ IsFiniteSet(D) /\ D \in SUBSET Nat
      /\ \A j \in D : kids[j] \in Seq(D) /\ \A k \in DOMAIN kids[j] : j < kids[j][k]
    BY DEF Downward
<1>2. \A j \in D : W[j] = <<j>> \o rest(j)
    BY WalkSolves
<1>. HIDE DEF W
<1>3. ASSUME NEW j \in D, \A k \in D : j < k => W[k] \in Seq(D)
      PROVE  Fine(j)
    <2>1. DOMAIN kids[j] = 1 .. Len(kids[j]) /\ Len(kids[j]) \in Nat
        BY <1>1
    <2>. HIDE DEF D
    <2>2. ASSUME NEW k \in DOMAIN kids[j] PROVE kids[j][k] \in D /\ W[kids[j][k]] \in Seq(D)
        <3>1. kids[j] \in Seq(D) /\ j < kids[j][k]
            BY <1>1
        <3>2. kids[j][k] \in D
            BY <3>1
        <3>. QED BY <1>3, <3>1, <3>2
    <2>3. under(j) \in Seq(Seq(D))
        <3>1. under(j) \in [1 .. Len(kids[j]) -> Seq(D)]
            BY <2>1, <2>2
        <3>. QED BY <2>1, <3>1
    <2>4. DOMAIN under(j) = DOMAIN kids[j] /\ \A k \in DOMAIN kids[j] : under(j)[k] = W[kids[j][k]]
        OBVIOUS
    <2>. HIDE DEF under
    <2>5. /\ rest(j) \in Seq(D)
          /\ Range(rest(j)) = UNION {Range(under(j)[k]) : k \in DOMAIN under(j)}
        BY <2>3, FlattenAll
    <2>6. Range(rest(j)) = met(j)
        <3>1. {Range(under(j)[k]) : k \in DOMAIN under(j)} = {Range(W[kids[j][k]]) : k \in DOMAIN kids[j]}
            BY <2>4
        <3>2. {Range(W[kids[j][k]]) : k \in DOMAIN kids[j]} = {Range(W[c]) : c \in Range(kids[j])}
            BY DEF Range
        <3>. QED BY <2>5, <3>1, <3>2
    <2>. HIDE DEF rest
    <2>7. <<j>> \in Seq(D) /\ Range(<<j>>) = {j}
        <3>1. <<j>> \in Seq(D) /\ DOMAIN <<j>> = {1} /\ <<j>>[1] = j
            OBVIOUS
        <3>. QED BY <3>1 DEF Range
    <2>8. /\ <<j>> \o rest(j) \in Seq(D)
          /\ Range(<<j>> \o rest(j)) = Range(<<j>>) \cup Range(rest(j))
        BY <2>5, <2>7, RangeOfBoth
    <2>9. Tail(<<j>> \o rest(j)) = rest(j)
        BY <2>5
    <2>. HIDE DEF met
    <2>. QED BY <1>2, <2>5, <2>6, <2>7, <2>8, <2>9
<1>4. Bad = {}
    <2>. SUFFICES ASSUME Bad # {} PROVE FALSE
        OBVIOUS
    <2>. HIDE DEF Fine
    <2>1. Bad \in SUBSET D /\ Bad \in SUBSET Int /\ IsFiniteSet(Bad)
        <3>1. Bad \in SUBSET D
            OBVIOUS
        <3>. HIDE DEF Bad
        <3>. QED BY <1>1, <3>1, FS_Subset
    <2>2. PICK j \in Bad : \A k \in Bad : k <= j
        <3>. HIDE DEF Bad
        <3>. QED BY <2>1, FiniteMax
    <2>3. ASSUME NEW k \in D, j < k PROVE W[k] \in Seq(D)
        <3>1. j \in Nat /\ k \in Nat
            BY <1>1, <2>1
        <3>2. k \notin Bad
            <4>. HIDE DEF Bad
            <4>. QED BY <2>2, <2>3, <3>1
        <3>. QED BY <3>2 DEF Fine
    <2>. QED BY <1>3, <2>1, <2>2, <2>3
<1>5. Fine(i)
    BY <1>4
<1>. QED BY <1>5, Zenon DEF W

(* What a walk meets, it meets with its children and, but for where it began, *)
(* with its parent.                                                           *)
LEMMA WalkIsClosed ==
    ASSUME NEW span, SpansOK(span), NEW i \in DOMAIN span \cup {0},
           NEW x \in Range(WalkFrom(KidsOf(span))[i])
    PROVE  LET walk == WalkFrom(KidsOf(span))
           IN  /\ x \in DOMAIN span \cup {0}
               /\ ChildrenOf(span, x) \in SUBSET Range(walk[i])
               /\ x = i \/ (x \in DOMAIN span /\ span[x].parent \in Range(walk[i]))
<1>. DEFINE ids  == DOMAIN span
            D    == ids \cup {0}
            kids == KidsOf(span)
            met(j) == Range(WalkFrom(kids)[j])
            Fine(j) == \A y \in met(j) : /\ y \in D
                                         /\ ChildrenOf(span, y) \in SUBSET met(j)
                                         /\ y = j \/ (y \in ids /\ span[y].parent \in met(j))
            Bad == {j \in D : ~Fine(j)}
<1>1. Downward(kids) /\ DOMAIN kids = D
    BY KidsGoDown
<1>2. \A j \in D : Range(kids[j]) = ChildrenOf(span, j)
    BY KidsOK
<1>3. ASSUME NEW j \in D PROVE met(j) = {j} \cup UNION {met(c) : c \in ChildrenOf(span, j)}
    <2>1. Downward(kids) /\ j \in DOMAIN kids
        BY <1>1
    <2>. HIDE DEF kids
    <2>2. met(j) = {j} \cup UNION {met(c) : c \in Range(kids[j])}
        BY <2>1, WalkMeets
    <2>3. Range(kids[j]) = ChildrenOf(span, j)
        BY <1>2
    <2>. QED BY <2>2, <2>3, Zenon
<1>4. /\ IsFiniteSet(D) /\ D \in SUBSET Nat
      /\ \A j \in D : \A c \in ChildrenOf(span, j) : c \in ids /\ c \in Nat /\ j < c /\ span[c].parent = j
    <2>1. IsFiniteSet(D) /\ D \in SUBSET Nat
        BY <1>1 DEF Downward
    <2>2. \A c \in ids : span[c].parent < c
        BY DEF SpansOK
    <2>. QED BY <2>1, <2>2 DEF ChildrenOf
<1>. HIDE DEF met, kids
<1>5. ASSUME NEW j \in D, \A c \in ChildrenOf(span, j) : Fine(c)
      PROVE  Fine(j)
    <2>. SUFFICES ASSUME NEW y \in met(j)
                  PROVE  /\ y \in D
                         /\ ChildrenOf(span, y) \in SUBSET met(j)
                         /\ y = j \/ (y \in ids /\ span[y].parent \in met(j))
        OBVIOUS
    <2>1. \A c \in ChildrenOf(span, j) : c \in met(c)
        <3>. SUFFICES ASSUME NEW c \in ChildrenOf(span, j) PROVE c \in met(c)
            OBVIOUS
        <3>1. c \in D
            BY <1>4
        <3>. QED BY <1>3, <3>1
    <2>2. CASE y = j
        BY <1>3, <2>1, <2>2
    <2>3. CASE y # j
        <3>1. PICK c \in ChildrenOf(span, j) : y \in met(c)
            BY <1>3, <2>3
        <3>2. /\ y \in D /\ ChildrenOf(span, y) \in SUBSET met(c)
              /\ y = c \/ (y \in ids /\ span[y].parent \in met(c))
            BY <1>5, <3>1
        <3>3. met(c) \in SUBSET met(j) /\ j \in met(j)
            BY <1>3
        <3>4. y = c => y \in ids /\ span[y].parent \in met(j)
            BY <1>4, <3>3
        <3>. HIDE DEF D, ids
        <3>. QED BY <3>2, <3>3, <3>4
    <2>. QED BY <2>2, <2>3
<1>6. Bad = {}
    <2>. SUFFICES ASSUME Bad # {} PROVE FALSE
        OBVIOUS
    <2>. HIDE DEF Fine, D
    <2>1. Bad \in SUBSET D
        OBVIOUS
    <2>2. Bad \in SUBSET Int /\ IsFiniteSet(Bad)
        <3>1. IsFiniteSet(D) /\ D \in SUBSET Int
            BY <1>4
        <3>. HIDE DEF Bad
        <3>2. IsFiniteSet(Bad)
            BY <2>1, <3>1, FS_Subset
        <3>. QED BY <2>1, <3>1, <3>2
    <2>3. PICK j \in Bad : \A k \in Bad : k <= j
        <3>. HIDE DEF Bad
        <3>. QED BY <2>2, FiniteMax
    <2>4. ASSUME NEW c \in ChildrenOf(span, j) PROVE Fine(c)
        <3>1. j \in Nat /\ c \in Nat /\ c \in D /\ j < c
            BY <1>4, <2>1 DEF D
        <3>2. c \notin Bad
            <4>. HIDE DEF Bad
            <4>. QED BY <2>3, <3>1
        <3>. QED BY <3>1, <3>2
    <2>. QED BY <1>5, <2>1, <2>3, <2>4
<1>7. Fine(i)
    BY <1>6
<1>. QED BY <1>7 DEF met, kids

(* The tree of a trace: what is drawn is drawn with its children and with its *)
(* parent.                                                                    *)
LEMMA TreeOK ==
    ASSUME NEW trace, WellFormed(trace), NEW tree, tree = TreeOf(trace)
    PROVE  /\ SpansOK(tree.span) /\ tree.span = ById(trace)
           /\ tree.kids = KidsOf(tree.span) /\ tree.up = UpFrom(tree.span)
           /\ \A i \in DOMAIN tree.span :
                  /\ tree.end[i] \in Nat /\ tree.end[i] <= Duration(trace)
                  /\ tree.end[i] = IF tree.span[i].t1 = Open THEN Duration(trace) ELSE tree.span[i].t1
           /\ IsFiniteSet(Drawable(tree)) /\ Drawable(tree) \in SUBSET (DOMAIN tree.span)
           /\ \A x \in Drawable(tree) :
                  /\ ChildrenOf(tree.span, x) \in SUBSET Drawable(tree)
                  /\ tree.span[x].parent = 0 \/ tree.span[x].parent \in Drawable(tree)
<1>. DEFINE span == ById(trace)
            kids == KidsOf(span)
            ids  == DOMAIN span
            walk == WalkFrom(kids)
            D    == Range(Tail(walk[0]))
<1>1. /\ tree.span = span /\ tree.kids = kids /\ tree.up = UpFrom(span)
      /\ tree.flat = Tail(walk[0])
      /\ tree.end = [i \in ids |-> IF span[i].t1 < 0 THEN Duration(trace) ELSE span[i].t1]
    BY DEF TreeOf
<1>2. Drawable(tree) = D
    BY <1>1 DEF Drawable
<1>3. SpansOK(span) /\ \A i \in ids : span[i] \in SpanSet(trace)
    BY ByIdOK
<1>4. /\ IsFiniteSet(ids) /\ ids \in SUBSET (Nat \ {0})
      /\ \A i \in ids : span[i].t1 \in Nat \cup {Open} /\ span[i].parent \in Nat
    BY <1>3 DEF SpansOK
<1>5. ASSUME NEW i \in ids
      PROVE  /\ tree.end[i] \in Nat /\ tree.end[i] <= Duration(trace)
             /\ tree.end[i] = IF span[i].t1 = Open THEN Duration(trace) ELSE span[i].t1
    <2>1. tree.end[i] = IF span[i].t1 < 0 THEN Duration(trace) ELSE span[i].t1
        BY <1>1
    <2>2. Duration(trace) \in Nat /\ span[i].t1 <= Duration(trace)
        BY <1>3, DurationOK
    <2>3. span[i].t1 \in Nat \cup {-1}
        BY <1>4 DEF Open
    <2>. HIDE DEF span
    <2>. QED BY <2>1, <2>2, <2>3 DEF Open
<1>6. Downward(kids) /\ DOMAIN kids = ids \cup {0}
    BY <1>3, KidsGoDown
<1>7. Range(kids[0]) = ChildrenOf(span, 0)
    BY <1>3, KidsOK
<1>. HIDE DEF kids, span
<1>8. D = UNION {Range(walk[c]) : c \in Range(kids[0])}
    BY <1>6, WalkMeets
<1>9. ASSUME NEW x \in D
      PROVE  /\ x \in ids /\ ChildrenOf(span, x) \in SUBSET D
             /\ span[x].parent = 0 \/ span[x].parent \in D
    <2>1. PICK c \in ChildrenOf(span, 0) : x \in Range(walk[c])
        BY <1>7, <1>8
    <2>2. c \in ids /\ span[c].parent = 0
        BY DEF ChildrenOf
    <2>3. /\ ChildrenOf(span, x) \in SUBSET Range(walk[c])
          /\ x = c \/ (x \in ids /\ span[x].parent \in Range(walk[c]))
        BY <1>3, <2>1, <2>2, WalkIsClosed DEF kids
    <2>4. Range(walk[c]) \in SUBSET D
        BY <1>7, <1>8
    <2>. HIDE DEF walk, D
    <2>. QED BY <2>2, <2>3, <2>4
<1>10. D \in SUBSET ids /\ IsFiniteSet(D)
    <2>1. D \in SUBSET ids
        BY <1>9
    <2>. HIDE DEF D
    <2>. QED BY <1>4, <2>1, FS_Subset
<1>. HIDE DEF D
<1>11. /\ \A i \in ids :
              /\ tree.end[i] \in Nat /\ tree.end[i] <= Duration(trace)
              /\ tree.end[i] = IF span[i].t1 = Open THEN Duration(trace) ELSE span[i].t1
       /\ \A x \in D : /\ ChildrenOf(span, x) \in SUBSET D
                       /\ span[x].parent = 0 \/ span[x].parent \in D
    BY <1>5, <1>9
<1>. QED BY <1>1, <1>2, <1>3, <1>10, <1>11, Zenon DEF kids, span

-----------------------------------------------------------------------------
(* However spans overlap, they cover no more than they last between them.     *)
OpenFor(tree, c) == IF Lasts(tree, c) >= 0 THEN Lasts(tree, c) ELSE 0

Sweep(tree, list, f, k) ==
    IF k = 1 THEN [total |-> 0, start |-> tree.span[list[k]].t0, end |-> tree.end[list[k]]]
    ELSE IF tree.span[list[k]].t0 > f[k - 1].end
    THEN [total |-> f[k - 1].total + f[k - 1].end - f[k - 1].start,
          start |-> tree.span[list[k]].t0, end |-> tree.end[list[k]]]
    ELSE [f[k - 1] EXCEPT !.end = Max({f[k - 1].end, tree.end[list[k]]})]

Swept(tree, list) == CHOOSE f : f = [k \in DOMAIN list |-> Sweep(tree, list, f, k)]

LEMMA SweptSolves ==
    ASSUME NEW tree, NEW T, NEW list \in Seq(T),
           \A c \in T : tree.span[c].t0 \in Int /\ tree.end[c] \in Int
    PROVE  \A k \in DOMAIN list : Swept(tree, list)[k] = Sweep(tree, list, Swept(tree, list), k)
<1>. DEFINE D    == DOMAIN list
            V    == [total : Int, start : Int, end : Int]
            size == [k \in D |-> k]
            step == [p \in [D -> V] \X D |-> Sweep(tree, list, p[1], p[2])]
<1>1. /\ D = 1 .. Len(list) /\ Len(list) \in Nat
      /\ \A k \in D : list[k] \in T
    OBVIOUS
<1>2. /\ \A k \in D : k \in Nat /\ size[k] = k /\ (k # 1 => k - 1 \in D /\ k - 1 < k)
      /\ \A k \in D : tree.span[list[k]].t0 \in Int /\ tree.end[list[k]] \in Int
    BY <1>1
<1>3. [total |-> 0, start |-> 0, end |-> 0] \in V
    OBVIOUS
<1>. HIDE DEF D, size
<1>4. ASSUME NEW f \in [D -> V], NEW k \in D PROVE step[<<f, k>>] = Sweep(tree, list, f, k)
    <2>. HIDE DEF V
    <2>. QED OBVIOUS
<1>. HIDE DEF step
<1>5. ASSUME NEW f \in [D -> V], NEW k \in D PROVE step[<<f, k>>] \in V
    <2>. DEFINE b == tree.span[list[k]].t0
                e == tree.end[list[k]]
                p == f[k - 1]
                m == Max({p.end, e})
    <2>1. b \in Int /\ e \in Int
        BY <1>2
    <2>2. CASE k = 1
        <3>1. Sweep(tree, list, f, k) = [total |-> 0, start |-> b, end |-> e]
            BY <2>2 DEF Sweep
        <3>. HIDE DEF b, e
        <3>2. [total |-> 0, start |-> b, end |-> e] \in V
            BY <2>1
        <3>. QED BY <1>4, <3>1, <3>2
    <2>3. CASE k # 1
        <3>1. p \in V
            BY <1>2, <2>3
        <3>2. p.total \in Int /\ p.start \in Int /\ p.end \in Int
            BY <3>1
        <3>3. Sweep(tree, list, f, k) =
                  IF b > p.end THEN [total |-> p.total + p.end - p.start, start |-> b, end |-> e]
                  ELSE [p EXCEPT !.end = m]
            BY <2>3 DEF Sweep
        <3>4. m \in Int
            BY <2>1, <3>2, MaxOfTwo
        <3>. HIDE DEF b, e, p, m
        <3>5. /\ [total |-> p.total + p.end - p.start, start |-> b, end |-> e] \in V
              /\ [p EXCEPT !.end = m] \in V
            BY <2>1, <3>1, <3>2, <3>4
        <3>. HIDE DEF V
        <3>. QED BY <1>4, <3>3, <3>5
    <2>. QED BY <2>2, <2>3
<1>6. ASSUME NEW f \in [D -> V], NEW g \in [D -> V], NEW k \in D,
             \A j \in D : size[j] < size[k] => f[j] = g[j]
      PROVE  step[<<f, k>>] = step[<<g, k>>]
    <2>1. k # 1 => f[k - 1] = g[k - 1]
        BY <1>2, <1>6
    <2>2. Sweep(tree, list, f, k) = Sweep(tree, list, g, k)
        <3>1. CASE k = 1
            BY <3>1 DEF Sweep
        <3>2. CASE k # 1
            BY <2>1, <3>2 DEF Sweep
        <3>. QED BY <3>1, <3>2
    <2>. QED BY <1>4, <2>2
<1>7. V # {} /\ \A k \in D : size[k] \in Nat
    BY <1>2, <1>3
<1>. HIDE DEF V
<1>8. \A f \in [D -> V], k \in D : step[<<f, k>>] \in V
    BY <1>5
<1>9. \A f, g \in [D -> V], k \in D :
          (\A j \in D : size[j] < size[k] => f[j] = g[j]) => step[<<f, k>>] = step[<<g, k>>]
    BY <1>6
<1>10. WellFounded(D, V, size, step)
    BY <1>7, <1>8, <1>9, Zenon DEF WellFounded
<1>11. PICK f \in [D -> V] : \A k \in D : f[k] = step[<<f, k>>]
    BY <1>10, Recursion
<1>12. f = [k \in D |-> Sweep(tree, list, f, k)]
    BY <1>4, <1>11
<1>13. \E h : h = [k \in DOMAIN list |-> Sweep(tree, list, h, k)]
    BY <1>12 DEF D
<1>. DEFINE S == Swept(tree, list)
<1>14. S = [k \in DOMAIN list |-> Sweep(tree, list, S, k)]
    BY <1>13, Zenon DEF Swept
<1>. HIDE DEF S
<1>15. \A k \in DOMAIN list : S[k] = Sweep(tree, list, S, k)
    BY <1>14, Zenon
<1>. QED BY <1>15 DEF S

LEMMA UnionWithin ==
    ASSUME NEW tree, NEW T, NEW list \in Seq(T),
           \A c \in T : tree.span[c].t0 \in Int /\ tree.end[c] \in Int,
           \A j, k \in DOMAIN list : list[j] = list[k] => j = k,
           NEW L, \A c \in T : L[c] = OpenFor(tree, c)
    PROVE  /\ Union(tree, list) \in Int
           /\ Union(tree, list) <= SumFunctionOnSet(L, Range(list))
<1>. DEFINE n == Len(list)
            S == Swept(tree, list)
            V == [total : Int, start : Int, end : Int]
            P == [k \in 1 .. n |-> OpenFor(tree, list[k])]
            covered(k) == S[k].total + S[k].end - S[k].start
            sumTo(k)   == SumFunctionOnSet(P, 1 .. k)
            Fine(k) == S[k] \in V /\ covered(k) <= sumTo(k)
            Bad == {k \in 1 .. n : ~Fine(k)}
<1>1. /\ DOMAIN list = 1 .. n /\ n \in Nat
      /\ \A k \in 1 .. n : list[k] \in T
    OBVIOUS
<1>2. \A k \in 1 .. n : S[k] = Sweep(tree, list, S, k)
    BY <1>1, SweptSolves
<1>3. ASSUME NEW k \in 1 .. n
      PROVE  /\ tree.span[list[k]].t0 \in Int /\ tree.end[list[k]] \in Int
             /\ P[k] \in Nat /\ tree.end[list[k]] - tree.span[list[k]].t0 <= P[k]
             /\ P[k] = L[list[k]]
    <2>1. tree.span[list[k]].t0 \in Int /\ tree.end[list[k]] \in Int /\ P[k] = L[list[k]]
        BY <1>1
    <2>2. P[k] = OpenFor(tree, list[k])
        OBVIOUS
    <2>. HIDE DEF P
    <2>. QED BY <2>1, <2>2 DEF OpenFor, Lasts
<1>. HIDE DEF n, S, P
<1>4. ASSUME NEW k \in 1 .. n, k # 1 => Fine(k - 1)
      PROVE  Fine(k)
    <2>. DEFINE b == tree.span[list[k]].t0
                e == tree.end[list[k]]
                p == S[k - 1]
                m == Max({p.end, e})
    <2>1. b \in Int /\ e \in Int /\ P[k] \in Nat /\ e - b <= P[k]
        BY <1>3
    <2>2. S[k] = Sweep(tree, list, S, k)
        BY <1>2
    <2>3. CASE k = 1
        <3>1. S[k] = [total |-> 0, start |-> b, end |-> e]
            BY <2>2, <2>3 DEF Sweep
        <3>2. 1 .. k = {1}
            BY <2>3
        <3>3. sumTo(k) = P[k]
            <4>1. SumFunctionOnSet(P, {1}) = P[1]
                <5>1. P[1] \in Int
                    BY <2>1, <2>3
                <5>. QED BY <5>1, SumOne
            <4>. QED BY <2>3, <3>2, <4>1
        <3>. HIDE DEF b, e
        <3>4. S[k] \in V /\ S[k].total = 0 /\ S[k].end = e /\ S[k].start = b
            BY <2>1, <3>1
        <3>5. covered(k) <= sumTo(k)
            BY <2>1, <3>3, <3>4
        <3>. QED BY <3>4, <3>5
    <2>4. CASE k # 1
        <3>1. k - 1 \in 1 .. n /\ k \in Nat /\ k - 1 \in Nat
            BY <1>1, <2>4
        <3>2. p \in V /\ p.total + p.end - p.start <= sumTo(k - 1)
            BY <1>4, <2>4
        <3>3. sumTo(k) = P[k] + sumTo(k - 1) /\ sumTo(k - 1) \in Int
            <4>1. 1 .. k = (1 .. (k - 1)) \cup {k} /\ k \notin 1 .. (k - 1)
                BY <3>1
            <4>2. IsFiniteSet(1 .. (k - 1))
                BY <3>1, FS_Interval
            <4>3. \A j \in 1 .. k : P[j] \in Int
                <5>1. \A j \in 1 .. k : j \in 1 .. n
                    BY <1>1, <3>1
                <5>. HIDE DEF sumTo
                <5>. QED BY <1>3, <5>1
            <4>4. sumTo(k - 1) \in Int
                BY <4>1, <4>2, <4>3, SumType
            <4>. QED BY <4>1, <4>2, <4>3, <4>4, SumAdd
        <3>4. p.total \in Int /\ p.start \in Int /\ p.end \in Int
            BY <3>2
        <3>5. S[k] =
                  IF b > p.end THEN [total |-> p.total + p.end - p.start, start |-> b, end |-> e]
                  ELSE [p EXCEPT !.end = m]
            BY <2>2, <2>4 DEF Sweep
        <3>6. m \in Int /\ m = IF p.end >= e THEN p.end ELSE e
            BY <2>1, <3>4, MaxOfTwo
        <3>. HIDE DEF b, e, p, m, sumTo
        <3>7. CASE b > p.end
            <4>1. /\ S[k] \in V /\ S[k].total = p.total + p.end - p.start
                  /\ S[k].start = b /\ S[k].end = e
                BY <2>1, <3>4, <3>5, <3>7
            <4>2. covered(k) <= sumTo(k)
                BY <2>1, <3>2, <3>3, <3>4, <4>1
            <4>. QED BY <4>1, <4>2
        <3>8. CASE ~(b > p.end)
            <4>1. S[k] = [p EXCEPT !.end = m]
                BY <3>5, <3>8
            <4>2. /\ S[k] \in V /\ S[k].total = p.total
                  /\ S[k].start = p.start /\ S[k].end = m
                BY <3>2, <3>6, <4>1
            <4>3. p.total + m - p.start <= sumTo(k)
                BY <2>1, <3>2, <3>3, <3>4, <3>6, <3>8
            <4>4. covered(k) <= sumTo(k)
                BY <4>2, <4>3
            <4>. QED BY <4>2, <4>4
        <3>. QED BY <3>7, <3>8
    <2>. QED BY <2>3, <2>4
<1>5. Bad = {}
    <2>. SUFFICES ASSUME Bad # {} PROVE FALSE
        OBVIOUS
    <2>. HIDE DEF Fine
    <2>1. Bad \in SUBSET Nat
        OBVIOUS
    <2>2. PICK k \in Bad : \A j \in Bad : k <= j
        BY <2>1, LeastNatural
    <2>3. k \in 1 .. n /\ ~Fine(k)
        BY <2>2
    <2>4. ASSUME k # 1 PROVE Fine(k - 1)
        <3>1. k - 1 \in 1 .. n /\ ~(k <= k - 1)
            BY <1>1, <2>3, <2>4
        <3>2. k - 1 \notin Bad
            <4>. HIDE DEF Bad
            <4>. QED BY <2>2, <3>1
        <3>. QED BY <3>1, <3>2
    <2>. QED BY <1>4, <2>3, <2>4
<1>6. Union(tree, list) = IF list = <<>> THEN 0 ELSE covered(n)
    BY Zenon DEF Union, Swept, Sweep, S, n
<1>7. SumFunctionOnSet(P, 1 .. n) = SumFunctionOnSet(L, Range(list)) /\ IsFiniteSet(Range(list))
    <2>1. IsFiniteSet(1 .. n)
        BY <1>1, FS_Interval
    <2>. DEFINE I == 1 .. n
                R == Range(list)
    <2>2. R = {list[k] : k \in I} /\ DOMAIN list = I
        BY <1>1 DEF Range
    <2>3. \A k \in I : P[k] \in Int /\ L[list[k]] = P[k]
        BY <1>3
    <2>. HIDE DEF I, R
    <2>4. IsFiniteSet(I)
        BY <2>1 DEF I
    <2>5. IsFiniteSet(R)
        <3>1. IsFiniteSet({list[k] : k \in I})
            BY <2>4, FiniteImage
        <3>. QED BY <2>2, <3>1
    <2>6. /\ \A k \in I : list[k] \in R
          /\ \A j, k \in I : list[j] = list[k] => j = k
          /\ \A c \in R : \E k \in I : list[k] = c
        BY <2>2
    <2>7. SumFunctionOnSet(L, R) = SumFunctionOnSet(P, I)
        BY <2>3, <2>4, <2>5, <2>6, SumRenamed
    <2>. QED BY <2>5, <2>7 DEF I, R
<1>8. CASE list = <<>>
    <2>1. Range(list) = {}
        BY <1>8 DEF Range
    <2>2. SumFunctionOnSet(L, Range(list)) = 0
        BY <2>1, SumNone
    <2>. QED BY <1>6, <1>8, <2>2
<1>9. CASE list # <<>>
    <2>1. n \in 1 .. n
        BY <1>1, <1>9 DEF n
    <2>2. Fine(n)
        BY <1>5, <2>1
    <2>3. covered(n) \in Int
        BY <2>2
    <2>. HIDE DEF covered
    <2>. QED BY <1>6, <1>7, <1>9, <2>2, <2>3
<1>. QED BY <1>8, <1>9

(* What a span was at work itself, and its children between them, is at least *)
(* what it lasted.                                                            *)
LEMMA SelfOK ==
    ASSUME NEW trace, WellFormed(trace), NEW tree, tree = TreeOf(trace),
           NEW L, L = [c \in DOMAIN tree.span |-> OpenFor(tree, c)],
           NEW i \in DOMAIN tree.span
    PROVE  /\ SelfMs(tree, i) \in Nat /\ L[i] \in Nat /\ Lasts(tree, i) <= L[i]
           /\ SumFunctionOnSet(L, ChildrenOf(tree.span, i)) \in Nat
           /\ L[i] <= SelfMs(tree, i) + SumFunctionOnSet(L, ChildrenOf(tree.span, i))
<1>. DEFINE ids  == DOMAIN tree.span
            list == tree.kids[i]
            kids == ChildrenOf(tree.span, i)
            u    == Union(tree, list)
            rest == SumFunctionOnSet(L, kids)
            time == Lasts(tree, i)
<1>1. /\ SpansOK(tree.span) /\ tree.kids = KidsOf(tree.span)
      /\ \A c \in ids : tree.end[c] \in Nat
    BY TreeOK
<1>2. /\ IsFiniteSet(ids)
      /\ \A c \in ids : tree.span[c].t0 \in Nat
    BY <1>1 DEF SpansOK
<1>3. \A c \in ids : Lasts(tree, c) \in Int /\ L[c] = IF Lasts(tree, c) >= 0 THEN Lasts(tree, c) ELSE 0
    BY <1>1, <1>2 DEF Lasts, OpenFor
<1>4. \A c \in ids : L[c] \in Nat
    BY <1>3
<1>5. /\ list \in Seq(ids) /\ Range(list) = kids
      /\ \A j, k \in DOMAIN list : list[j] = list[k] => j = k
    BY <1>1, KidsOK
<1>6. u \in Int /\ u <= rest
    <2>1. \A c \in ids : /\ tree.span[c].t0 \in Int /\ tree.end[c] \in Int
                         /\ L[c] = OpenFor(tree, c)
        BY <1>1, <1>2
    <2>. HIDE DEF list, ids, kids
    <2>2. u \in Int /\ u <= SumFunctionOnSet(L, Range(list))
        BY <1>5, <2>1, UnionWithin
    <2>. QED BY <1>5, <2>2
<1>7. rest \in Nat
    <2>1. kids \in SUBSET ids
        BY DEF ChildrenOf
    <2>. HIDE DEF kids, ids
    <2>2. IsFiniteSet(kids)
        BY <1>2, <2>1, FS_Subset
    <2>. QED BY <1>4, <2>1, <2>2, SumNatural
<1>8. time \in Int /\ L[i] = (IF time >= 0 THEN time ELSE 0)
    BY <1>3
<1>9. SelfMs(tree, i) = Max({0, time - u})
    BY DEF SelfMs
<1>. HIDE DEF list, kids, u, rest, time
<1>10. SelfMs(tree, i) = IF 0 >= time - u THEN 0 ELSE time - u
    BY <1>6, <1>8, <1>9, MaxOfTwo
<1>11. /\ SelfMs(tree, i) \in Nat /\ L[i] \in Nat /\ time <= L[i]
       /\ L[i] <= SelfMs(tree, i) + rest
    BY <1>6, <1>7, <1>8, <1>10
<1>. QED BY <1>7, <1>11 DEF rest, kids, time

(* So the own times of a span and of all under it are at least what it lasted. *)
LEMMA OwnTimesCover ==
    ASSUME NEW trace, WellFormed(trace), NEW tree, tree = TreeOf(trace),
           NEW i \in Drawable(tree)
    PROVE  OwnTime(tree, Under(tree, i)) >= Lasts(tree, i)
<1>. DEFINE span == tree.span
            ids  == DOMAIN span
            D    == Drawable(tree)
            U    == Under(tree, i)
            L    == [c \in ids |-> OpenFor(tree, c)]
            own  == [k \in U |-> SelfMs(tree, k)]
            at   == [k \in U |-> ChildrenOf(span, k)]
            g    == [k \in U |-> SumFunctionOnSet(L, at[k])]
            h    == [k \in U |-> own[k] + g[k]]
            key  == [k \in U |-> span[k].parent]
            S    == U \ {i}
<1>1. /\ SpansOK(span) /\ tree.up = UpFrom(span)
      /\ IsFiniteSet(D) /\ D \in SUBSET ids
      /\ \A x \in D : /\ ChildrenOf(span, x) \in SUBSET D
                      /\ span[x].parent = 0 \/ span[x].parent \in D
    BY TreeOK
<1>2. /\ ids \in SUBSET (Nat \ {0})
      /\ \A x \in ids : span[x].parent \in Nat /\ span[x].parent < x
    BY <1>1 DEF SpansOK
<1>3. \A x \in ids \cup {0} :
          tree.up[x] = IF x = 0 THEN {}
                       ELSE IF span[x].parent \in ids \cup {0} THEN {x} \cup tree.up[span[x].parent]
                       ELSE {x}
    BY <1>1, UpSolves
<1>4. \A x \in ids : x \in tree.up[x] /\ \A y \in tree.up[x] : y <= x
    BY <1>1, UpIsBefore
<1>5. U = {k \in D : i \in tree.up[k]}
    BY DEF Under
<1>. HIDE DEF U, D, span
<1>6. ASSUME NEW x \in D, span[x].parent # 0
      PROVE  span[x].parent \in D /\ tree.up[x] = {x} \cup tree.up[span[x].parent]
    <2>1. span[x].parent \in D
        BY <1>1, <1>6
    <2>2. x \in ids /\ x # 0 /\ span[x].parent \in ids
        BY <1>1, <1>2, <2>1
    <2>3. tree.up[x] = {x} \cup tree.up[span[x].parent]
        BY <1>3, <2>2
    <2>. QED BY <2>1, <2>3
<1>7. ASSUME NEW x \in D, span[x].parent = 0
      PROVE  tree.up[x] = {x}
    <2>1. x \in ids /\ x # 0
        BY <1>1, <1>2
    <2>2. tree.up[0] = {}
        BY <1>3
    <2>3. tree.up[x] = {x} \cup tree.up[span[x].parent]
        BY <1>3, <1>7, <2>1
    <2>. QED BY <1>7, <2>2, <2>3
<1>8. ASSUME NEW x \in U, x # i PROVE span[x].parent \in U
    <2>1. x \in D /\ i \in tree.up[x]
        BY <1>5
    <2>2. span[x].parent # 0
        BY <1>7, <1>8, <2>1
    <2>. QED BY <1>5, <1>6, <1>8, <2>1, <2>2
<1>9. ASSUME NEW k \in U, NEW c \in ChildrenOf(span, k) PROVE c \in U /\ c # i
    <2>1. k \in D /\ i \in tree.up[k] /\ c \in D /\ span[c].parent = k
        BY <1>1, <1>5 DEF ChildrenOf
    <2>2. k \in ids /\ c \in ids /\ k \in Nat /\ k # 0 /\ c \in Nat /\ k < c /\ i \in Nat
        <3>1. i \in D
            BY DEF D
        <3>2. k \in ids /\ c \in ids /\ i \in ids
            BY <1>1, <2>1, <3>1
        <3>. HIDE DEF ids
        <3>. QED BY <1>2, <2>1, <3>2
    <2>3. i \in tree.up[c]
        BY <1>6, <2>1, <2>2
    <2>4. i <= k
        BY <1>4, <2>1, <2>2
    <2>. QED BY <1>5, <2>1, <2>2, <2>3, <2>4
<1>10. i \in U /\ U \in SUBSET ids /\ IsFiniteSet(U)
    <2>1. i \in ids /\ i \in tree.up[i]
        BY <1>1, <1>4 DEF D
    <2>2. i \in U /\ U \in SUBSET D
        BY <1>5, <2>1 DEF D
    <2>. QED BY <1>1, <2>2, FS_Subset
<1>11. ASSUME NEW k \in ids
       PROVE  /\ SelfMs(tree, k) \in Nat /\ L[k] \in Nat /\ Lasts(tree, k) <= L[k]
              /\ SumFunctionOnSet(L, ChildrenOf(span, k)) \in Nat
              /\ L[k] <= SelfMs(tree, k) + SumFunctionOnSet(L, ChildrenOf(span, k))
    BY SelfOK DEF span
<1>12. ASSUME NEW k \in U
       PROVE  /\ at[k] = ChildrenOf(span, k) /\ g[k] = SumFunctionOnSet(L, at[k])
              /\ own[k] \in Nat /\ g[k] \in Nat /\ h[k] = own[k] + g[k]
              /\ L[k] \in Nat /\ L[k] <= h[k]
    <2>1. k \in ids
        BY <1>10
    <2>2. /\ at[k] = ChildrenOf(span, k) /\ g[k] = SumFunctionOnSet(L, at[k])
          /\ own[k] = SelfMs(tree, k) /\ h[k] = own[k] + g[k]
        OBVIOUS
    <2>. HIDE DEF L, own, at, g, h
    <2>. QED BY <1>11, <2>1, <2>2
<1>13. OwnTime(tree, U) = SumFunctionOnSet(own, U)
    BY DEF OwnTime, SumFunction
<1>14. \A x \in S : key[x] = span[x].parent
    OBVIOUS
<1>. HIDE DEF L, own, at, g, h, key
<1>15. SumFunctionOnSet(g, U) = SumFunctionOnSet(L, S)
    <2>1. IsFiniteSet(S)
        BY <1>10, FS_RemoveElement
    <2>2. \A x \in S : L[x] \in Int /\ key[x] \in U
        BY <1>8, <1>12, <1>14
    <2>3. ASSUME NEW k \in U
          PROVE  at[k] \in SUBSET S /\ \A x \in S : x \in at[k] <=> key[x] = k
        <3>1. at[k] = ChildrenOf(span, k)
            BY <1>12
        <3>2. \A x \in S : x \in ids
            BY <1>10
        <3>. QED BY <1>9, <1>14, <3>1, <3>2 DEF ChildrenOf
    <2>4. \A k \in U : g[k] = SumFunctionOnSet(L, at[k])
        BY <1>12
    <2>. HIDE DEF S
    <2>. QED BY <1>10, <2>1, <2>2, <2>3, <2>4, SumGathered
<1>16. SumFunctionOnSet(L, U) = L[i] + SumFunctionOnSet(L, S)
    BY <1>10, <1>12, SumWithout
<1>17. SumFunctionOnSet(L, U) <= SumFunctionOnSet(h, U)
    BY <1>10, <1>12, SumUp
<1>18. SumFunctionOnSet(h, U) = SumFunctionOnSet(own, U) + SumFunctionOnSet(g, U)
    BY <1>10, <1>12, SumBoth
<1>19. SumFunctionOnSet(own, U) \in Int /\ SumFunctionOnSet(L, S) \in Int
    <2>1. IsFiniteSet(S) /\ \A x \in S : L[x] \in Int
        BY <1>10, <1>12, FS_RemoveElement
    <2>2. \A x \in U : own[x] \in Int
        BY <1>12
    <2>. QED BY <1>10, <2>1, <2>2, SumType
<1>20. L[i] \in Nat /\ Lasts(tree, i) <= L[i] /\ Lasts(tree, i) \in Int
    <2>1. tree.end[i] \in Nat /\ span[i].t0 \in Nat
        BY <1>10, TreeOK DEF SpansOK, span
    <2>. QED BY <1>10, <1>11, <2>1 DEF Lasts, span
<1>21. Lasts(tree, i) <= SumFunctionOnSet(own, U)
    BY <1>15, <1>16, <1>17, <1>18, <1>19, <1>20
<1>22. OwnTime(tree, U) \in Int
    BY <1>13, <1>19
<1>. QED BY <1>13, <1>19, <1>20, <1>21 DEF U

(* Gathered by whatever key, the own times are divided up once.               *)
LEMMA RollupDivides ==
    ASSUME NEW trace, WellFormed(trace), NEW tree, tree = TreeOf(trace), NEW by
    PROVE  SumFunction([k \in DOMAIN Rollup(tree, by) |-> Rollup(tree, by)[k].self])
               + OwnTime(tree, {i \in Drawable(tree) : by[i] = <<>>})
           = OwnTime(tree, Drawable(tree))
<1>. DEFINE D   == Drawable(tree)
            N   == {i \in D : by[i] = <<>>}
            S   == {i \in D : by[i] # <<>>}
            K   == {by[i] : i \in D} \ {<<>>}
            own == [i \in D |-> SelfMs(tree, i)]
            at  == [k \in K |-> {i \in D : by[i] = k}]
            g   == [k \in DOMAIN Rollup(tree, by) |-> Rollup(tree, by)[k].self]
<1>1. IsFiniteSet(D) /\ D \in SUBSET (DOMAIN tree.span)
    BY TreeOK
<1>2. \A i \in D : own[i] \in Int
    <2>. SUFFICES ASSUME NEW i \in D PROVE own[i] \in Int
        OBVIOUS
    <2>1. SelfMs(tree, i) \in Nat
        BY <1>1, SelfOK
    <2>. HIDE DEF D
    <2>. QED BY <2>1
<1>3. \A U \in SUBSET D : /\ IsFiniteSet(U)
                          /\ OwnTime(tree, U) = SumFunctionOnSet(own, U)
                          /\ SumFunction([i \in U |-> SelfMs(tree, i)]) = SumFunctionOnSet(own, U)
    <2>. SUFFICES ASSUME NEW U \in SUBSET D
                  PROVE  /\ IsFiniteSet(U)
                         /\ SumFunction([i \in U |-> SelfMs(tree, i)]) = SumFunctionOnSet(own, U)
        BY DEF OwnTime
    <2>. DEFINE f == [i \in U |-> SelfMs(tree, i)]
    <2>1. IsFiniteSet(U)
        <3>. HIDE DEF D
        <3>. QED BY <1>1, FS_Subset
    <2>2. SumFunction(f) = SumFunctionOnSet(f, U)
        BY DEF SumFunction
    <2>3. \A i \in U : f[i] \in Int /\ f[i] = own[i]
        BY <1>2
    <2>. HIDE DEF f, own, D
    <2>4. SumFunctionOnSet(f, U) = SumFunctionOnSet(own, U)
        BY <2>1, <2>3, SumSame
    <2>. QED BY <2>1, <2>2, <2>4 DEF f
<1>4. DOMAIN Rollup(tree, by) = K
    BY DEF Rollup
<1>5. \A k \in K : Rollup(tree, by)[k].self = SumFunction([i \in at[k] |-> SelfMs(tree, i)])
    <2>. SUFFICES ASSUME NEW k \in K
                  PROVE  Rollup(tree, by)[k].self = SumFunction([i \in at[k] |-> SelfMs(tree, i)])
        OBVIOUS
    <2>1. at[k] = {i \in D : by[i] = k}
        OBVIOUS
    <2>2. Rollup(tree, by)[k].self = SumFunction([i \in {j \in D : by[j] = k} |-> SelfMs(tree, i)])
        BY DEF Rollup
    <2>. QED BY <2>1, <2>2
<1>6. SumFunction(g) = SumFunctionOnSet(g, K)
    BY <1>4 DEF SumFunction
<1>7. \A k \in K : g[k] = Rollup(tree, by)[k].self
    BY <1>4
<1>8. /\ N \in SUBSET D /\ S \in SUBSET D /\ N \cap S = {} /\ N \cup S = D
      /\ \A k \in K : at[k] \in SUBSET S /\ \A x \in S : x \in at[k] <=> by[x] = k
      /\ \A x \in S : by[x] \in K
    OBVIOUS
<1>9. IsFiniteSet(K)
    <2>. DEFINE all == {by[i] : i \in D}
    <2>. HIDE DEF D
    <2>1. IsFiniteSet(all)
        BY <1>1, FiniteImage
    <2>. QED BY <2>1, FS_Subset
<1>. HIDE DEF D, N, S, K, own, at, g
<1>10. \A k \in K : g[k] = SumFunctionOnSet(own, at[k])
    <2>. SUFFICES ASSUME NEW k \in K PROVE g[k] = SumFunctionOnSet(own, at[k])
        OBVIOUS
    <2>1. at[k] \in SUBSET D
        BY <1>8
    <2>. QED BY <1>3, <1>5, <1>7, <2>1
<1>11. /\ IsFiniteSet(N) /\ IsFiniteSet(S)
       /\ \A x \in N \cup S : own[x] \in Int
       /\ OwnTime(tree, N) = SumFunctionOnSet(own, N)
       /\ OwnTime(tree, D) = SumFunctionOnSet(own, N \cup S)
    <2>1. D \in SUBSET D
        OBVIOUS
    <2>. QED BY <1>2, <1>3, <1>8, <2>1
<1>12. SumFunctionOnSet(g, K) = SumFunctionOnSet(own, S)
    <2>1. \A x \in S : own[x] \in Int /\ by[x] \in K
        BY <1>8, <1>11
    <2>. QED BY <1>8, <1>9, <1>10, <1>11, <2>1, SumGathered
<1>13. SumFunctionOnSet(own, N \cup S) = SumFunctionOnSet(own, N) + SumFunctionOnSet(own, S)
    BY <1>8, <1>11, SumUnion
<1>14. SumFunctionOnSet(own, N) \in Int /\ SumFunctionOnSet(own, S) \in Int
    BY <1>11, SumType
<1>15. SumFunction(g) + OwnTime(tree, N) = OwnTime(tree, D)
    BY <1>6, <1>11, <1>12, <1>13, <1>14
<1>. QED BY <1>15 DEF g, N, D

(* The parts of a call that was answered: whatever of the wire, the queue, the *)
(* work and the way back there is of it, one is what it was doing.            *)
LEMMA PartsFollow ==
    ASSUME NEW trace, WellFormed(trace), NEW tree, tree = TreeOf(trace),
           NEW i \in Drawable(tree)
    PROVE  PartsTile(tree, i)
<1>. DEFINE parts    == Segments(tree, i)
            s        == tree.span[i]
            s0       == tree.span[i].t0
            t1       == tree.end[i]
            list     == tree.kids[i]
            handlers == Where(list, LAMBDA c : tree.span[c].kind = "handler")
            h        == list[Min(handlers)]
            h0       == tree.span[h].t0
            h1       == tree.end[h]
            half     == s.net \div 2
            leg      == Max({0, Min({half, h0 - s0})})
            Doing(t) == {p \in parts : p[2] <= t /\ t < p[3]}
            Within(p) == s0 <= p[2] /\ p[2] <= t1 /\ p[3] <= t1
<1>. SUFFICES ASSUME NEW w \in parts, w[1] = "working"
              PROVE  /\ \A t \in s0 .. t1 - 1 : Cardinality(Doing(t)) = 1
                     /\ (\A p \in {q \in parts : q[1] = "working"} : Within(p))
                            => \A p \in parts : Within(p)
    BY DEF PartsTile
<1>. DEFINE working == <<"working", h0, h1>>
            out     == <<"out", s0, s0 + leg>>
            queue   == <<"queue", s0 + leg, h0>>
            back    == <<"back", h1, t1>>
<1>1. /\ s.kind = "rpc" /\ handlers # {}
      /\ parts = {working} \cup (IF leg > 0 THEN {out} ELSE {})
                           \cup (IF h0 > s0 + leg THEN {queue} ELSE {})
                           \cup (IF t1 > h1 THEN {back} ELSE {})
    <2>. DEFINE some == IF s.net > 0 THEN {<<"out", s0, Min({t1, s0 + half})>>} ELSE {}
                all  == {working} \cup (IF leg > 0 THEN {out} ELSE {})
                            \cup (IF h0 > s0 + leg THEN {queue} ELSE {})
                            \cup (IF t1 > h1 THEN {back} ELSE {})
    <2>1. parts = IF s.kind # "rpc" THEN {} ELSE IF handlers = {} THEN some ELSE all
        BY Zenon DEF Segments
    <2>2. w \notin some
        OBVIOUS
    <2>. HIDE DEF all, some, handlers, s
    <2>3. s.kind = "rpc" /\ handlers # {} /\ parts = all
        BY <2>1, <2>2
    <2>. QED BY <2>3, Zenon DEF all
<1>2. /\ SpansOK(tree.span) /\ tree.kids = KidsOf(tree.span) /\ i \in DOMAIN tree.span
      /\ \A c \in DOMAIN tree.span :
             /\ tree.end[c] \in Nat /\ tree.end[c] <= Duration(trace)
             /\ tree.end[c] = IF tree.span[c].t1 = Open THEN Duration(trace) ELSE tree.span[c].t1
    BY TreeOK
<1>3. h \in DOMAIN tree.span
    <2>1. list \in Seq(DOMAIN tree.span)
        BY <1>2, KidsOK
    <2>. HIDE DEF list
    <2>2. handlers \in SUBSET (DOMAIN list) /\ DOMAIN list \in SUBSET Nat
        BY <2>1 DEF Where
    <2>. HIDE DEF handlers
    <2>3. Min(handlers) \in handlers
        BY <1>1, <2>2, FiniteMin
    <2>. QED BY <2>1, <2>2, <2>3
<1>4. /\ s0 \in Nat /\ h0 \in Nat /\ t1 \in Nat /\ h1 \in Nat /\ half \in Nat
      /\ h0 <= h1 \/ t1 <= h1
    <2>1. \A c \in DOMAIN tree.span :
              /\ tree.span[c].t0 \in Nat /\ tree.span[c].t1 \in Nat \cup {Open} /\ tree.span[c].net \in Nat
              /\ tree.span[c].t1 # Open => tree.span[c].t0 <= tree.span[c].t1
        BY <1>2 DEF SpansOK
    <2>. HIDE DEF h
    <2>2. h1 \in Nat /\ t1 \in Nat /\ s0 \in Nat /\ h0 \in Nat /\ s.net \in Nat
        BY <1>2, <1>3, <2>1
    <2>3. half \in Nat
        <3>. DEFINE net == s.net
        <3>. HIDE DEF net
        <3>1. net \in Nat
            BY <2>2 DEF net
        <3>2. net \div 2 \in Nat
            BY <3>1
        <3>. QED BY <3>2 DEF net
    <2>4. h0 <= h1 \/ t1 <= h1
        <3>1. tree.span[h].t1 = Open => h1 = Duration(trace) /\ t1 <= Duration(trace)
            BY <1>2, <1>3
        <3>2. tree.span[h].t1 # Open => h0 <= h1
            BY <1>2, <1>3, <2>1
        <3>. HIDE DEF h0, h1, t1
        <3>. QED BY <3>1, <3>2
    <2>. QED BY <2>2, <2>3, <2>4
<1>. HIDE DEF s, s0, t1, h, h0, h1, half, handlers, parts
<1>5. leg \in Nat /\ (leg > 0 => s0 + leg <= h0)
    <2>. DEFINE m == Min({half, h0 - s0})
    <2>1. m \in Int /\ m = IF half <= h0 - s0 THEN half ELSE h0 - s0
        BY <1>4, MinOfTwo
    <2>. HIDE DEF m
    <2>2. Max({0, m}) = IF 0 >= m THEN 0 ELSE m
        BY <2>1, MaxOfTwo
    <2>3. leg = IF 0 >= m THEN 0 ELSE m
        BY <2>2 DEF m
    <2>. HIDE DEF leg
    <2>. QED BY <1>4, <2>1, <2>3
<1>. HIDE DEF leg
<1>6. \A p \in parts : \/ p = working \/ (leg > 0 /\ p = out)
                       \/ (h0 > s0 + leg /\ p = queue) \/ (t1 > h1 /\ p = back)
    BY <1>1
<1>7. /\ working \in parts /\ (leg > 0 => out \in parts)
      /\ (h0 > s0 + leg => queue \in parts) /\ (t1 > h1 => back \in parts)
    BY <1>1
<1>8. /\ working[2] = h0 /\ working[3] = h1 /\ out[2] = s0 /\ out[3] = s0 + leg
      /\ queue[2] = s0 + leg /\ queue[3] = h0 /\ back[2] = h1 /\ back[3] = t1
    OBVIOUS
<1>9. ASSUME \A p \in {q \in parts : q[1] = "working"} : Within(p)
      PROVE  \A p \in parts : Within(p)
    <2>1. working \in {q \in parts : q[1] = "working"}
        BY <1>7
    <2>2. Within(working)
        BY <1>9, <2>1
    <2>. HIDE DEF working, out, queue, back
    <2>3. s0 <= h0 /\ h0 <= t1 /\ h1 <= t1
        BY <1>8, <2>2
    <2>. QED BY <1>4, <1>5, <1>6, <1>8, <2>3
<1>10. ASSUME NEW t \in s0 .. t1 - 1 PROVE Cardinality(Doing(t)) = 1
    <2>. HIDE DEF working, out, queue, back
    <2>1. t \in Int /\ s0 <= t /\ t < t1
        BY <1>4, <1>10
    <2>2. \E q \in parts : /\ q[2] <= t /\ t < q[3]
                            /\ \A p \in parts : p[2] <= t /\ t < p[3] => p = q
        <3>1. CASE t < s0 + leg
            <4>1. leg > 0 /\ out \in parts /\ out[2] <= t /\ t < out[3]
                BY <1>4, <1>5, <1>7, <1>8, <2>1, <3>1
            <4>2. /\ ~(working[2] <= t) /\ ~(queue[2] <= t)
                  /\ t1 > h1 => ~(back[2] <= t)
                BY <1>4, <1>5, <1>8, <2>1, <3>1, <4>1
            <4>. QED BY <1>6, <4>1, <4>2
        <3>2. CASE s0 + leg <= t /\ t < h0
            <4>1. queue \in parts /\ queue[2] <= t /\ t < queue[3]
                BY <1>4, <1>5, <1>7, <1>8, <2>1, <3>2
            <4>2. /\ ~(working[2] <= t) /\ ~(t < out[3])
                  /\ t1 > h1 => ~(back[2] <= t)
                BY <1>4, <1>5, <1>8, <2>1, <3>2
            <4>. QED BY <1>6, <4>1, <4>2
        <3>3. CASE s0 + leg <= t /\ h0 <= t /\ t < h1
            <4>1. working \in parts /\ working[2] <= t /\ t < working[3]
                BY <1>7, <1>8, <2>1, <3>3
            <4>2. ~(t < out[3]) /\ ~(t < queue[3]) /\ ~(back[2] <= t)
                BY <1>4, <1>5, <1>8, <2>1, <3>3
            <4>. QED BY <1>6, <4>1, <4>2
        <3>4. CASE s0 + leg <= t /\ h0 <= t /\ h1 <= t
            <4>1. t < t1 /\ t1 > h1
                BY <1>4, <1>5, <2>1, <3>4
            <4>2. back \in parts /\ back[2] <= t /\ t < back[3]
                BY <1>7, <1>8, <3>4, <4>1
            <4>3. ~(t < out[3]) /\ ~(t < queue[3]) /\ ~(t < working[3])
                BY <1>4, <1>5, <1>8, <2>1, <3>4
            <4>. QED BY <1>6, <4>2, <4>3
        <3>. QED BY <1>4, <1>5, <2>1, <3>1, <3>2, <3>3, <3>4
    <2>3. PICK q \in parts : Doing(t) = {q}
        BY <2>2
    <2>. QED BY <2>3, FS_Singleton
<1>. QED BY <1>9, <1>10

(* Of every run that can be open.                                             *)
LEMMA EveryRunIsAccountedFor ==
    ASSUME NEW r \in Runs
    PROVE  r \in Accounted
<1>. DEFINE tree == Tree[r]
<1>1. WellFormed(Opened[r]) /\ tree = TreeOf(Opened[r])
    BY TraceAssumption DEF Tree
<1>. HIDE DEF tree
<1>2. \A i \in Drawable(tree) : OwnTime(tree, Under(tree, i)) >= Lasts(tree, i) /\ PartsTile(tree, i)
    BY <1>1, OwnTimesCover, PartsFollow
<1>3. \A by \in {"method", "node", "zone", "task"} : DividedOnce(r, by)
    <2>. SUFFICES ASSUME NEW by \in {"method", "node", "zone", "task"} PROVE DividedOnce(r, by)
        OBVIOUS
    <2>. DEFINE key == [i \in Drawable(tree) |-> KeyOf(Opened[r], tree, Index[r].tasks, by, i)]
    <2>1. SumFunction([k \in DOMAIN Rollup(tree, key) |-> Rollup(tree, key)[k].self])
              + OwnTime(tree, {i \in Drawable(tree) : key[i] = <<>>})
          = OwnTime(tree, Drawable(tree))
        <3>. HIDE DEF key
        <3>. QED BY <1>1, RollupDivides
    <2>. QED BY <2>1, Zenon DEF DividedOnce, tree
<1>. QED BY <1>2, <1>3 DEF Accounted, tree

(* However calls overlap, outlive their callers or are never over, and        *)
(* whichever run is opened: the own times of a span and all under it account  *)
(* for all of the time it was open, gathered by whatever key they are divided *)
(* up once, and at every instant of a call that was answered it was doing one *)
(* thing, within its bar if its handler is (TimeIsAccountedFor of run         *)
(* "player").                                                                 *)
THEOREM TimeIsKept == Spec => []TimeIsAccountedFor
<1>1. StateInv => TimeIsAccountedFor
    BY EveryRunIsAccountedFor DEF StateInv, TimeIsAccountedFor
<1>. QED BY <1>1, StateInvariant, PTL
=============================================================================
