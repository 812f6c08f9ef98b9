-------------------------- MODULE DocumentsProofs --------------------------
(***************************************************************************)
(* Proofs about the documents of the CMS: where visitors find them         *)
(* (Addresses), and what is published of them (Content). The two share no  *)
(* state; each part stands by itself.                                      *)
(***************************************************************************)
EXTENDS Addresses, Content, WellFoundedInduction, NaturalsInduction, FiniteSetTheorems, TLAPS

-----------------------------------------------------------------------------
(***************************************************************************)
(* Addresses, for every set of pages, projects and actions at work, every  *)
(* finite set of slugs and every MAX_HOPS.                                 *)
(*                                                                         *)
(* followRedirect, wouldLoop and a visitor's journey are loops over data,  *)
(* so induction is needed; the library states it with an operator for a    *)
(* parameter, and here it is restated for sets (Induction, Recursion).     *)
(* What the loops do is then told in terms of trails: the least closed set *)
(* of paths that a map leads through (TrailLeast, TrailClosed).            *)
(***************************************************************************)
(* Induction and recursion up to n, stated for sets and functions.         *)
Less == {p \in Nat \X Nat : p[1] < p[2]}

LEMMA Induction ==
  ASSUME NEW n \in Nat, NEW G, 0 \in G, \A k \in Nat : k < n /\ k \in G => k + 1 \in G
  PROVE  \A k \in 0..n : k \in G
<1> DEFINE Bad == {k \in Nat : k <= n /\ k \notin G}
<1> SUFFICES ASSUME Bad # {} PROVE FALSE
  OBVIOUS
<1>1. IsWellFoundedOn(Less, Nat)
  BY NatLessThanWellFounded, Zenon DEF OpToRel, Less
<1>2. PICK k \in Bad : \A j \in Bad : ~ (<<j, k>> \in Less)
  <2>1. Bad \subseteq Nat
    OBVIOUS
  <2> HIDE DEF Bad
  <2> QED
    BY <1>1, <2>1, WFMin
<1>3. k # 0 /\ k - 1 \in Nat /\ k - 1 < n
  BY <1>2
<1>4. <<k - 1, k>> \in Less
  BY <1>2, <1>3 DEF Less
<1>5. k - 1 \notin Bad
  BY <1>2, <1>4
<1> QED
  BY <1>2, <1>3, <1>5

Iterates(g, c, n, S, f) ==
  f \in [0..n -> S] /\ f[0] = c /\ \A k \in 1..n : f[k] = g[f[k - 1]]

LEMMA Recursion ==
  ASSUME NEW n \in Nat, NEW S, NEW c \in S, NEW g \in [S -> S]
  PROVE  \E f : Iterates(g, c, n, S, f)
<1> DEFINE G == {m \in Nat : \E f \in [0..m -> S] :
                               f[0] = c /\ \A k \in 1..m : f[k] = g[f[k - 1]]}
<1>1. 0 \in G
  <2> DEFINE f == [k \in 0..0 |-> c]
  <2>1. f \in [0..0 -> S] /\ f[0] = c /\ \A k \in 1..0 : f[k] = g[f[k - 1]]
    OBVIOUS
  <2> HIDE DEF f
  <2> QED
    BY <2>1
<1>2. ASSUME NEW m \in Nat, m \in G
      PROVE  m + 1 \in G
  <2>1. PICK f \in [0..m -> S] : f[0] = c /\ \A k \in 1..m : f[k] = g[f[k - 1]]
    BY <1>2
  <2> DEFINE h == [k \in 0..(m + 1) |-> IF k = m + 1 THEN g[f[m]] ELSE f[k]]
  <2>2. h \in [0..(m + 1) -> S] /\ h[0] = c
    BY <2>1
  <2>3. ASSUME NEW k \in 1..(m + 1)
        PROVE  h[k] = g[h[k - 1]]
    <3>1. CASE k = m + 1
      BY <3>1
    <3>2. CASE k # m + 1
      <4>1. k \in 1..m /\ h[k] = f[k] /\ h[k - 1] = f[k - 1]
        BY <3>2
      <4> QED
        BY <2>1, <4>1
    <3> QED
      BY <3>1, <3>2
  <2> HIDE DEF h
  <2> QED
    BY <2>2, <2>3
<1> HIDE DEF G
<1>3. n \in G
  BY <1>1, <1>2, Induction
<1> QED
  BY <1>3 DEF G, Iterates

-----------------------------------------------------------------------------
LEMMA PathsFinite == IsFiniteSet(Paths)
<1>1. IsFiniteSet(PagePaths)
  <2> DEFINE f == [s \in Slugs |-> <<s>>]
  <2>1. f \in Surjection(Slugs, PagePaths)
    BY DEF Surjection, PagePaths
  <2> QED
    BY <2>1, FS_Surjection, AddressesAssumption
<1>2. IsFiniteSet(Slugs \X Slugs)
  BY FS_Product, AddressesAssumption
<1>3. IsFiniteSet(IF Projects = {} THEN {} ELSE Slugs \X Slugs)
  BY <1>2, FS_EmptySet
<1> QED
  BY <1>1, <1>3, FS_Union DEF Paths

Steps == Cardinality(Paths)
Maps == [Paths -> Paths \union {Nowhere}]

LEMMA StepsType == Steps \in Nat
  BY PathsFinite, FS_CardinalityType DEF Steps

Grown(map, r) == r \union ({map[q] : q \in r} \ {Nowhere})

IsReach(map, p, f) ==
  f = [n \in 0..Steps |-> IF n = 0 THEN {p} ELSE Grown(map, f[n - 1])]

LEMMA TrailDef ==
  ASSUME NEW map, NEW p
  PROVE  Trail(map, p) = (CHOOSE f : IsReach(map, p, f))[Steps]
  BY DEF Trail, IsReach, Grown, Steps

LEMMA ReachExists ==
  ASSUME NEW map \in Maps, NEW p \in Paths
  PROVE  \E f : IsReach(map, p, f) /\ Trail(map, p) = f[Steps]
<1> DEFINE g == [r \in SUBSET Paths |-> Grown(map, r)]
<1>1. g \in [SUBSET Paths -> SUBSET Paths]
  BY DEF Grown, Maps
<1>2. {p} \in SUBSET Paths
  OBVIOUS
<1>3. PICK f \in [0..Steps -> SUBSET Paths] :
        f[0] = {p} /\ \A k \in 1..Steps : f[k] = g[f[k - 1]]
  <2> DEFINE S == SUBSET Paths
  <2>1. g \in [S -> S] /\ {p} \in S
    BY <1>1
  <2> HIDE DEF g, S
  <2>2. \E f : Iterates(g, {p}, Steps, S, f)
    BY <2>1, StepsType, Recursion
  <2> QED
    BY <2>2 DEF S, Iterates
<1>4. ASSUME NEW n \in 0..Steps
      PROVE  f[n] = IF n = 0 THEN {p} ELSE Grown(map, f[n - 1])
  <2>1. CASE n = 0
    BY <1>3, <2>1
  <2>2. CASE n # 0
    <3>1. n \in 1..Steps /\ n - 1 \in 0..Steps /\ f[n - 1] \in SUBSET Paths
      BY <2>2, StepsType
    <3> QED
      BY <1>3, <2>2, <3>1
  <2> QED
    BY <2>1, <2>2
<1>5. IsReach(map, p, f)
  BY <1>4 DEF IsReach
<1> QED
  BY <1>5, TrailDef

(* The paths that a map leads to from inside S are in S.                   *)
Closed(map, S) == \A q \in S : map[q] \in S \union {Nowhere}

LEMMA ReachGrows ==
  ASSUME NEW map \in Maps, NEW p \in Paths, NEW f, IsReach(map, p, f)
  PROVE  /\ f[0] = {p} /\ \A n \in Nat : n < Steps => f[n + 1] = Grown(map, f[n])
         /\ \A n \in 0..Steps : f[n] \subseteq Paths /\ p \in f[n]
<1>1. \A n \in 0..Steps : f[n] = IF n = 0 THEN {p} ELSE Grown(map, f[n - 1])
  BY DEF IsReach
<1>2. f[0] = {p}
  BY <1>1, StepsType
<1>3. ASSUME NEW n \in Nat, n < Steps
      PROVE  f[n + 1] = Grown(map, f[n])
  <2>1. n + 1 \in 0..Steps /\ n + 1 # 0 /\ (n + 1) - 1 = n
    BY <1>3, StepsType
  <2> QED
    BY <1>1, <2>1
<1> DEFINE G == {n \in Nat : n <= Steps => f[n] \subseteq Paths /\ p \in f[n]}
<1>4. 0 \in G
  BY <1>2
<1>5. \A n \in Nat : n < Steps /\ n \in G => n + 1 \in G
  BY <1>3, StepsType DEF Grown, Maps
<1>6. \A n \in 0..Steps : n \in G
  <2> HIDE DEF G
  <2> QED
    BY <1>4, <1>5, StepsType, Induction
<1> QED
  BY <1>2, <1>3, <1>6

LEMMA TrailLeast ==
  ASSUME NEW map \in Maps, NEW p \in Paths, NEW S, p \in S, Closed(map, S)
  PROVE  Trail(map, p) \subseteq S
<1>1. PICK f : IsReach(map, p, f) /\ Trail(map, p) = f[Steps]
  BY ReachExists
<1>2. /\ f[0] = {p} /\ \A n \in Nat : n < Steps => f[n + 1] = Grown(map, f[n])
  BY <1>1, ReachGrows
<1> DEFINE G == {n \in Nat : n <= Steps => f[n] \subseteq S}
<1>3. 0 \in G
  BY <1>2
<1>4. \A n \in Nat : n < Steps /\ n \in G => n + 1 \in G
  BY <1>2, StepsType DEF Grown, Closed
<1>5. Steps \in G
  <2> HIDE DEF G
  <2> QED
    BY <1>3, <1>4, StepsType, Induction
<1> QED
  BY <1>1, <1>5

LEMMA TrailClosed ==
  ASSUME NEW map \in Maps, NEW p \in Paths
  PROVE  /\ p \in Trail(map, p) /\ Trail(map, p) \subseteq Paths
         /\ Closed(map, Trail(map, p))
<1>1. PICK f : IsReach(map, p, f) /\ Trail(map, p) = f[Steps]
  BY ReachExists
<1>2. /\ f[0] = {p} /\ \A n \in Nat : n < Steps => f[n + 1] = Grown(map, f[n])
      /\ \A n \in 0..Steps : f[n] \subseteq Paths /\ p \in f[n]
  BY <1>1, ReachGrows
<1>3. \A n \in 0..Steps : IsFiniteSet(f[n]) /\ Cardinality(f[n]) \in Nat
                          /\ Cardinality(f[n]) <= Steps
  BY <1>2, PathsFinite, FS_Subset, FS_CardinalityType DEF Steps
<1> DEFINE G == {n \in Nat : n <= Steps => Cardinality(f[n]) >= n + 1 \/ Closed(map, f[n])}
<1>4. 0 \in G
  <2>1. Cardinality(f[0]) = 1
    BY <1>2, FS_Singleton
  <2> QED
    BY <2>1
<1>5. ASSUME NEW n \in Nat, n < Steps, n \in G
      PROVE  n + 1 \in G
  <2>1. n \in 0..Steps /\ n + 1 \in 0..Steps /\ f[n + 1] = Grown(map, f[n])
    BY <1>2, <1>5, StepsType
  <2>2. CASE Closed(map, f[n])
    <3>1. f[n + 1] = f[n]
      BY <2>1, <2>2 DEF Grown, Closed
    <3> QED
      BY <2>2, <3>1
  <2>3. CASE ~Closed(map, f[n])
    <3>1. PICK q \in f[n] : map[q] \notin f[n] \union {Nowhere}
      BY <2>3 DEF Closed
    <3>2. f[n] \union {map[q]} \subseteq f[n + 1]
      BY <2>1, <3>1 DEF Grown
    <3>3. Cardinality(f[n] \union {map[q]}) = Cardinality(f[n]) + 1
      BY <1>3, <2>1, <3>1, FS_AddElement
    <3>4. Cardinality(f[n] \union {map[q]}) <= Cardinality(f[n + 1])
      BY <1>3, <2>1, <3>2, FS_Subset
    <3>5. Cardinality(f[n]) >= n + 1
      BY <1>5, <2>1, <2>3
    <3>6. Cardinality(f[n + 1]) >= (n + 1) + 1
      BY <1>3, <2>1, <3>3, <3>4, <3>5
    <3> QED
      BY <3>6
  <2> QED
    BY <2>2, <2>3
<1>6. Steps \in G
  <2> HIDE DEF G
  <2> QED
    BY <1>4, <1>5, StepsType, Induction
<1>7. Closed(map, f[Steps])
  BY <1>3, <1>6, StepsType
<1> QED
  BY <1>1, <1>2, <1>7, StepsType

(* A trail starts with its path and goes on where the map leads.           *)
LEMMA TrailUnfolds ==
  ASSUME NEW map \in Maps, NEW p \in Paths
  PROVE  /\ map[p] = Nowhere => Trail(map, p) = {p}
         /\ map[p] # Nowhere => Trail(map, p) = {p} \union Trail(map, map[p])
<1>1. /\ p \in Trail(map, p) /\ Closed(map, Trail(map, p))
  BY TrailClosed
<1>2. CASE map[p] = Nowhere
  <2>1. Closed(map, {p})
    BY <1>2 DEF Closed
  <2>2. Trail(map, p) \subseteq {p}
    BY <2>1, TrailLeast
  <2> QED
    BY <1>1, <1>2, <2>2
<1>3. CASE map[p] # Nowhere
  <2>1. map[p] \in Paths /\ map[p] \in Trail(map, p)
    BY <1>1, <1>3 DEF Closed, Maps
  <2>2. map[p] \in Trail(map, map[p]) /\ Closed(map, Trail(map, map[p]))
    BY <2>1, TrailClosed
  <2>3. Closed(map, {p} \union Trail(map, map[p]))
    BY <2>2 DEF Closed
  <2>4. Trail(map, p) \subseteq {p} \union Trail(map, map[p])
    BY <2>3, TrailLeast
  <2>5. Trail(map, map[p]) \subseteq Trail(map, p)
    BY <1>1, <2>1, TrailLeast
  <2> QED
    BY <1>1, <1>3, <2>4, <2>5
<1> QED
  BY <1>2, <1>3

LEMMA TrailNests ==
  ASSUME NEW map \in Maps, NEW p \in Paths, NEW q \in Trail(map, p)
  PROVE  Trail(map, q) \subseteq Trail(map, p)
  BY TrailClosed, TrailLeast

LEMMA TrailAgrees ==
  ASSUME NEW map \in Maps, NEW other \in Maps, NEW p \in Paths,
         \A q \in Trail(map, p) : other[q] = map[q]
  PROVE  Trail(other, p) = Trail(map, p)
<1>1. p \in Trail(map, p) /\ Closed(map, Trail(map, p))
  BY TrailClosed
<1>2. Closed(other, Trail(map, p))
  BY <1>1 DEF Closed
<1>3. Trail(other, p) \subseteq Trail(map, p)
  BY <1>1, <1>2, TrailLeast
<1>4. p \in Trail(other, p) /\ Closed(other, Trail(other, p))
  BY TrailClosed
<1>5. Closed(map, Trail(other, p))
  BY <1>3, <1>4 DEF Closed
<1>6. Trail(map, p) \subseteq Trail(other, p)
  BY <1>4, <1>5, TrailLeast
<1> QED
  BY <1>3, <1>6

-----------------------------------------------------------------------------
Loops(map, p) == \E q \in Trail(map, p) \ {p} : p \in Trail(map, q)

(* From everywhere on a circle one comes back to where one was.            *)
LEMMA LoopReturns ==
  ASSUME NEW map \in Maps, NEW p \in Paths, Loops(map, p), NEW r \in Trail(map, p)
  PROVE  /\ map[r] \in Paths /\ p \in Trail(map, map[r])
         /\ Trail(map, r) = Trail(map, p)
<1> DEFINE S == {x \in Trail(map, p) : map[x] # Nowhere /\ p \in Trail(map, map[x])}
<1>1. PICK q \in Trail(map, p) \ {p} : p \in Trail(map, q)
  BY DEF Loops
<1>2. Closed(map, Trail(map, p)) /\ Trail(map, p) \subseteq Paths
  BY TrailClosed
<1>3. p \in S
  <2>1. map[p] # Nowhere /\ q \in Trail(map, map[p])
    BY <1>1, TrailUnfolds
  <2>2. map[p] \in Paths
    BY <2>1 DEF Maps
  <2>3. p \in Trail(map, map[p])
    BY <1>1, <2>1, <2>2, TrailNests
  <2> QED
    BY <2>1, <2>3, TrailClosed
<1>4. ASSUME NEW x \in S
      PROVE  map[x] \in S
  <2>1. map[x] \in Trail(map, p) /\ map[x] \in Paths
    BY <1>2 DEF Closed
  <2>2. CASE map[x] = p
    BY <1>3, <2>2
  <2>3. CASE map[x] # p
    BY <2>1, <2>3, TrailUnfolds
  <2> QED
    BY <2>2, <2>3
<1>5. Trail(map, p) \subseteq S
  <2>1. Closed(map, S)
    BY <1>4 DEF Closed
  <2> HIDE DEF S
  <2> QED
    BY <1>3, <2>1, TrailLeast
<1>6. r \in Paths /\ map[r] \in Paths /\ p \in Trail(map, map[r])
  BY <1>2, <1>5 DEF Maps
<1>7. p \in Trail(map, r)
  BY <1>6, PathsAssumption, TrailUnfolds
<1>8. Trail(map, p) \subseteq Trail(map, r) /\ Trail(map, r) \subseteq Trail(map, p)
  BY <1>6, <1>7, TrailNests
<1> QED
  BY <1>6, <1>8

(* The loop of wouldLoop, turn by turn.                                    *)
Look(map, w) ==
  IF w.at = Nowhere \/ w.at \in w.seen THEN [w EXCEPT !.at = Nowhere]
  ELSE [at |-> map[w.at], seen |-> w.seen \union {w.at}]

IsSearch(map, from, to, f) ==
  f = [hop \in 0..MaxHops |->
         IF hop = 0 THEN [at |-> to, seen |-> {from}] ELSE Look(map, f[hop - 1])]

LEMMA SearchDef ==
  ASSUME NEW map, NEW from, NEW to
  PROVE  WouldLoop(map, from, to) =
         \E hop \in 0..MaxHops : (CHOOSE f : IsSearch(map, from, to, f))[hop].at = from
  BY DEF WouldLoop, IsSearch, Look

LEMMA SearchExists ==
  ASSUME NEW map \in Maps, NEW from \in Paths, NEW to \in Paths
  PROVE  \E f : /\ IsSearch(map, from, to, f)
                /\ WouldLoop(map, from, to) <=> \E hop \in 0..MaxHops : f[hop].at = from
<1> DEFINE S == [at : Paths \union {Nowhere}, seen : SUBSET Paths]
           g == [w \in S |-> Look(map, w)]
           c == [at |-> to, seen |-> {from}]
<1>1. MaxHops \in Nat
  BY AddressesAssumption
<1>2. g \in [S -> S] /\ c \in S
  BY DEF Look, Maps
<1>3. \E f : Iterates(g, c, MaxHops, S, f)
  <2> HIDE DEF S, g, c
  <2> QED
    BY <1>1, <1>2, Recursion
<1>4. PICK f : Iterates(g, c, MaxHops, S, f)
  BY <1>3
<1>5. ASSUME NEW hop \in 0..MaxHops
      PROVE  f[hop] = IF hop = 0 THEN c ELSE Look(map, f[hop - 1])
  <2>1. CASE hop = 0
    BY <1>4, <2>1 DEF Iterates
  <2>2. CASE hop # 0
    <3>1. hop \in 1..MaxHops /\ hop - 1 \in 0..MaxHops /\ f[hop - 1] \in S
      BY <1>1, <1>4, <2>2 DEF Iterates
    <3> HIDE DEF S
    <3> QED
      BY <1>4, <2>2, <3>1 DEF Iterates
  <2> QED
    BY <2>1, <2>2
<1>6. IsSearch(map, from, to, f)
  BY <1>4, <1>5 DEF IsSearch, Iterates
<1> QED
  BY <1>6, SearchDef

Redirected(map, new, from, to) == new = [map EXCEPT ![from] = to]

(* What wouldLoop misses is a circle longer than it looks.                 *)
LEMMA LongCircle ==
  ASSUME NEW map \in Maps, NEW new \in Maps, NEW from \in Paths, NEW to \in Paths,
         Redirected(map, new, from, to), ~ WouldLoop(map, from, to),
         from \in Trail(new, to)
  PROVE  Cardinality(Trail(new, from)) > MaxHops + 1
<1>1. PICK f : /\ IsSearch(map, from, to, f)
               /\ WouldLoop(map, from, to) <=> \E hop \in 0..MaxHops : f[hop].at = from
  BY SearchExists
<1>2. MaxHops \in Nat
  BY AddressesAssumption
<1>3. /\ f[0] = [at |-> to, seen |-> {from}]
      /\ \A hop \in Nat : hop < MaxHops => f[hop + 1] = Look(map, f[hop])
      /\ \A hop \in 0..MaxHops : f[hop].at # from
  <2>1. \A hop \in 0..MaxHops :
          f[hop] = IF hop = 0 THEN [at |-> to, seen |-> {from}] ELSE Look(map, f[hop - 1])
    BY <1>1 DEF IsSearch
  <2>2. ASSUME NEW hop \in Nat, hop < MaxHops
        PROVE  f[hop + 1] = Look(map, f[hop])
    <3>1. hop + 1 \in 0..MaxHops /\ hop + 1 # 0 /\ (hop + 1) - 1 = hop
      BY <1>2, <2>2
    <3> QED
      BY <2>1, <3>1
  <2>3. f[0] = [at |-> to, seen |-> {from}]
    BY <1>2, <2>1
  <2>4. \A hop \in 0..MaxHops : f[hop].at # from
    BY <1>1
  <2> QED
    BY <2>2, <2>3, <2>4
<1>4. /\ new[from] = to /\ Trail(new, from) = {from} \union Trail(new, to)
      /\ Trail(new, to) \subseteq Paths /\ Closed(new, Trail(new, to))
      /\ to \in Trail(new, to)
  <2>1. new[from] = to /\ to # Nowhere
    BY PathsAssumption DEF Redirected, Maps
  <2> QED
    BY <2>1, TrailUnfolds, TrailClosed
<1> DEFINE own(w) == w.seen \ {from}
           P(w, hop) == /\ w.at \in Trail(new, to) /\ w.at \notin w.seen
                        /\ from \in w.seen /\ w.seen \subseteq Trail(new, from)
                        /\ IsFiniteSet(w.seen) /\ Cardinality(w.seen) = hop + 1
                        /\ to \in own(w) \union {w.at}
                        /\ \A s \in own(w) : new[s] \in own(w) \union {w.at}
           G == {hop \in Nat : hop <= MaxHops => P(f[hop], hop)}
<1>5. 0 \in G
  <2>1. f[0].at = to /\ f[0].seen = {from} /\ to # from
    BY <1>2, <1>3
  <2>2. IsFiniteSet({from}) /\ Cardinality({from}) = 1
    BY FS_Singleton
  <2>3. own(f[0]) = {}
    BY <2>1
  <2> QED
    BY <1>4, <2>1, <2>2, <2>3
<1>6. ASSUME NEW hop \in Nat, hop < MaxHops, hop \in G
      PROVE  hop + 1 \in G
  <2> DEFINE w == f[hop]  v == f[hop + 1]
  <2>1. P(w, hop)
    BY <1>2, <1>6
  <2>2. v = Look(map, w) /\ v.at # from
    BY <1>2, <1>3, <1>6
  <2>3. w.at # Nowhere /\ w.at \in Paths /\ w.at # from
    BY <1>4, <2>1, PathsAssumption
  <2>4. v = [at |-> map[w.at], seen |-> w.seen \union {w.at}]
    BY <2>1, <2>2, <2>3 DEF Look
  <2>5. v.at = new[w.at] /\ v.seen = w.seen \union {w.at}
    <3>1. map[w.at] = new[w.at]
      BY <2>3 DEF Redirected, Maps
    <3> QED
      BY <2>4, <3>1
  <2> DEFINE S == own(w) \union {w.at}
  <2>6. v.at \notin S \union {Nowhere}
    <3>1. SUFFICES ASSUME v.at \in S \union {Nowhere} PROVE FALSE
      OBVIOUS
    <3>2. Closed(new, S) /\ to \in S /\ from \notin S
      BY <2>1, <2>3, <2>5, <3>1 DEF Closed
    <3> HIDE DEF S
    <3>3. Trail(new, to) \subseteq S
      BY <3>2, TrailLeast
    <3> QED
      BY <3>2, <3>3
  <2>7. v.at \in Trail(new, to) /\ v.at \notin v.seen
    BY <1>4, <2>1, <2>2, <2>5, <2>6 DEF Closed
  <2>8. IsFiniteSet(v.seen) /\ Cardinality(v.seen) = (hop + 1) + 1
    BY <2>1, <2>5, FS_AddElement
  <2>9. own(v) = S
    BY <2>3, <2>5
  <2>10. from \in v.seen /\ v.seen \subseteq Trail(new, from)
    BY <1>4, <2>1, <2>5
  <2>11. to \in own(v) \union {v.at} /\ \A s \in own(v) : new[s] \in own(v) \union {v.at}
    BY <2>1, <2>5, <2>9
  <2> HIDE DEF own
  <2> QED
    BY <2>7, <2>8, <2>10, <2>11
<1>7. MaxHops \in G
  <2> HIDE DEF G
  <2> QED
    BY <1>2, <1>5, <1>6, Induction
<1> DEFINE w == f[MaxHops]
<1>8. P(w, MaxHops)
  BY <1>2, <1>7
<1>9. Cardinality(w.seen \union {w.at}) = MaxHops + 2
  <2>1. w.at \notin w.seen /\ IsFiniteSet(w.seen) /\ Cardinality(w.seen) = MaxHops + 1
    BY <1>8
  <2> HIDE DEF w
  <2>2. Cardinality(w.seen \union {w.at}) = Cardinality(w.seen) + 1
    BY <2>1, FS_AddElement
  <2> QED
    BY <1>2, <2>1, <2>2
<1>10. /\ w.seen \union {w.at} \subseteq Trail(new, from)
       /\ IsFiniteSet(Trail(new, from)) /\ Cardinality(Trail(new, from)) \in Nat
  <2>1. Trail(new, from) \subseteq Paths
    BY TrailClosed
  <2> QED
    BY <1>4, <1>8, <2>1, PathsFinite, FS_Subset, FS_CardinalityType
<1> HIDE DEF w
<1>11. Cardinality(w.seen \union {w.at}) <= Cardinality(Trail(new, from))
  BY <1>10, FS_Subset
<1> QED
  BY <1>2, <1>9, <1>10, <1>11

LEMMA NewCircle ==
  ASSUME NEW map \in Maps, NEW new \in Maps, NEW from \in Paths, NEW to \in Paths,
         Redirected(map, new, from, to), ~ WouldLoop(map, from, to),
         NEW p \in Paths, Loops(new, p), from \in Trail(new, p)
  PROVE  Cardinality(Trail(new, p)) > MaxHops + 1
<1>1. new[from] = to
  BY DEF Redirected, Maps
<1>2. p \in Trail(new, to) /\ Trail(new, from) = Trail(new, p)
  BY <1>1, LoopReturns
<1>3. from \in Trail(new, to)
  BY <1>2, TrailNests
<1> QED
  BY <1>2, <1>3, LongCircle

(* A circle of which no rule has changed was there before.                 *)
LEMMA OldCircle ==
  ASSUME NEW map \in Maps, NEW new \in Maps, NEW p \in Paths, Loops(new, p),
         \A q \in Trail(new, p) : map[q] = new[q]
  PROVE  Loops(map, p) /\ Trail(map, p) = Trail(new, p)
<1>1. Trail(map, p) = Trail(new, p)
  BY TrailAgrees
<1>2. PICK q \in Trail(new, p) \ {p} : p \in Trail(new, q)
  BY DEF Loops
<1>3. q \in Paths /\ Trail(new, q) \subseteq Trail(new, p)
  BY TrailClosed, TrailNests
<1>4. Trail(map, q) = Trail(new, q)
  BY <1>3, TrailAgrees
<1> QED
  BY <1>1, <1>2, <1>4 DEF Loops

-----------------------------------------------------------------------------
(* What an action at work has read. The rule that a rename will make is    *)
(* about two paths; those of a page that was shown are its own.            *)
RenamePlans ==
  {s \in [op : {"slug"}, doc : Docs, slug : Slugs, up : BOOLEAN, old : Slugs,
          parent : Slugs, shown : BOOLEAN, from : Paths, to : Paths] :
     /\ s.from # s.to
     /\ s.shown => /\ s.up /\ s.from = PathOf(s.doc, s.old, s.parent)
                   /\ s.to = PathOf(s.doc, s.slug, s.parent)}
CreatePlans == [op : {"create"}, from : Paths, to : Paths]
EnablePlans == [op : {"enable"}, from : Paths]
SessionInv ==
  session \in [Actors -> {Idle} \union RenamePlans \union CreatePlans \union EnablePlans]

AddressInv == TypeOK /\ SessionInv

LEMMA Plans ==
  ASSUME SessionInv, NEW x \in Actors
  PROVE  /\ session[x].op = "slug" => session[x] \in RenamePlans
         /\ session[x].op = "create" => session[x].from \in Paths /\ session[x].to \in Paths
         /\ session[x].op = "enable" => session[x].from \in Paths
<1>1. \A s \in RenamePlans : s.op = "slug"
  BY DEF RenamePlans
<1>2. \A s \in CreatePlans : s.op = "create" /\ s.from \in Paths /\ s.to \in Paths
  BY DEF CreatePlans
<1>3. \A s \in EnablePlans : s.op = "enable" /\ s.from \in Paths
  BY DEF EnablePlans
<1>4. Idle.op = "idle"
  BY DEF Idle
<1>5. session[x] \in {Idle} \union RenamePlans \union CreatePlans \union EnablePlans
  BY DEF SessionInv
<1> QED
  BY <1>1, <1>2, <1>3, <1>4, <1>5

LEMMA PathOfType ==
  ASSUME NEW d \in Docs, NEW s \in Slugs, NEW parent \in Slugs
  PROVE  PathOf(d, s, parent) \in Paths
  BY DEF Docs, Paths, PagePaths, PathOf

(* A document's path tells its kind, and its slug.                         *)
LEMMA PathOfInjective ==
  ASSUME NEW d \in Docs, NEW e \in Docs, NEW s \in Slugs, NEW t \in Slugs,
         NEW p \in Slugs, NEW q \in Slugs, PathOf(d, s, p) = PathOf(e, t, q)
  PROVE  s = t /\ (d \in Pages <=> e \in Pages) /\ (d \in Projects => p = q)
<1>1. <<s>> # <<q, t>> /\ <<p, s>> # <<t>>
  OBVIOUS
<1>2. CASE d \in Pages
  <2>1. e \in Pages
    BY <1>1, <1>2 DEF PathOf
  <2>2. <<s>> = <<t>>
    BY <1>2, <2>1 DEF PathOf
  <2> QED
    BY <1>2, <2>1, <2>2, AddressesAssumption
<1>3. CASE d \notin Pages
  <2>1. e \notin Pages
    BY <1>1, <1>3 DEF PathOf
  <2>2. <<p, s>> = <<q, t>>
    BY <1>3, <2>1 DEF PathOf
  <2> QED
    BY <1>3, <2>1, <2>2
<1> QED
  BY <1>2, <1>3

LEMMA ActiveMapType ==
  ASSUME TypeOK
  PROVE  /\ ActiveMap \in Maps
         /\ \A p \in Paths : ActiveMap[p] = IF p \in on THEN rule[p] ELSE Nowhere
  BY DEF TypeOK, ActiveMap, Maps

-----------------------------------------------------------------------------
LEMMA AddressInit == Init => AddressInv
<1> SUFFICES ASSUME Init PROVE AddressInv
  OBVIOUS
<1>1. left \in [Paths -> [doc : Docs, owed : BOOLEAN]]
  BY AddressesAssumption DEF Init, Nobody, Docs
<1>2. \A d, e \in Docs : slug[d] = slug[e] /\ (d \in Pages <=> e \in Pages) => d = e
  BY DEF Init, Taken
<1>3. TypeOK
  BY <1>1, <1>2, AddressesAssumption DEF Init, TypeOK
<1>4. SessionInv
  BY DEF Init, SessionInv
<1> QED
  BY <1>3, <1>4 DEF AddressInv

LEMMA Begun ==
  ASSUME AddressInv, NEW x \in Actors, NEW s \in RenamePlans \union CreatePlans \union EnablePlans,
         Begin(x, s), UNCHANGED <<slug, up, rule, on, left, late>>
  PROVE  AddressInv'
<1>1. SessionInv'
  BY DEF AddressInv, SessionInv, Begin
<1>2. TypeOK'
  BY AddressesAssumption DEF AddressInv, TypeOK, Begin
<1> QED
  BY <1>1, <1>2 DEF AddressInv

LEMMA Ended ==
  ASSUME AddressInv, NEW x \in Actors, Done(x)
  PROVE  SessionInv' /\ actions' \in 0..MaxActions
  BY DEF AddressInv, TypeOK, SessionInv, Done

LEMMA OnceType ==
  ASSUME AddressInv, Once
  PROVE  SessionInv' /\ actions' \in 0..MaxActions
  BY AddressesAssumption DEF AddressInv, TypeOK, SessionInv, Once

LEMMA Released ==
  ASSUME TypeOK, NEW p, Release(p)
  PROVE  left' \in [Paths -> [doc : Docs, owed : BOOLEAN]]
<1>1. Nobody \in [doc : Docs, owed : BOOLEAN]
  BY AddressesAssumption DEF Nobody, Docs
<1> QED
  BY <1>1 DEF TypeOK, Release

LEMMA SlugReadsInv ==
  ASSUME AddressInv, NEW x \in Actors, NEW d \in Docs, NEW s \in Slugs, SlugReads(x, d, s)
  PROVE  AddressInv'
<1> DEFINE r == [op |-> "slug", doc |-> d, slug |-> s, up |-> up[d],
                 old |-> slug[d], parent |-> slug[Index], shown |-> Visible(d),
                 from |-> PathOf(d, slug[d], Parent), to |-> PathOf(d, s, Parent)]
<1>1. /\ Index \in Docs /\ slug[d] \in Slugs /\ slug[Index] \in Slugs /\ Parent \in Slugs
      /\ up[d] \in BOOLEAN /\ up[Index] \in BOOLEAN /\ Visible(d) \in BOOLEAN
  BY AddressesAssumption DEF AddressInv, TypeOK, Docs, Parent, Visible
<1>2. PathOf(d, slug[d], Parent) \in Paths /\ PathOf(d, s, Parent) \in Paths
  BY <1>1, PathOfType
<1>3. PathOf(d, slug[d], Parent) # PathOf(d, s, Parent)
  BY <1>1, PathOfInjective DEF SlugReads
<1>4. ASSUME Visible(d)
      PROVE  /\ up[d] /\ PathOf(d, slug[d], Parent) = PathOf(d, slug[d], slug[Index])
             /\ PathOf(d, s, Parent) = PathOf(d, s, slug[Index])
  BY <1>4 DEF Visible, Parent, PathOf, Docs
<1>5. r \in RenamePlans
  <2>1. r \in [op : {"slug"}, doc : Docs, slug : Slugs, up : BOOLEAN, old : Slugs,
               parent : Slugs, shown : BOOLEAN, from : Paths, to : Paths]
    BY <1>1, <1>2
  <2> QED
    BY <1>3, <1>4, <2>1 DEF RenamePlans
<1>6. Begin(x, r) /\ UNCHANGED <<slug, up, rule, on, left, late>>
  BY DEF SlugReads
<1> HIDE DEF r
<1> QED
  BY <1>5, <1>6, Begun

LEMMA CreateReadsInv ==
  ASSUME AddressInv, NEW x \in Actors, NEW from \in Paths, NEW to \in Paths,
         CreateReads(x, from, to)
  PROVE  AddressInv'
<1> DEFINE r == [op |-> "create", from |-> from, to |-> to]
<1>1. r \in CreatePlans
  BY DEF CreatePlans
<1>2. Begin(x, r) /\ UNCHANGED <<slug, up, rule, on, left, late>>
  BY DEF CreateReads
<1> HIDE DEF r
<1> QED
  BY <1>1, <1>2, Begun

LEMMA EnableReadsInv ==
  ASSUME AddressInv, NEW x \in Actors, NEW from \in Paths, EnableReads(x, from)
  PROVE  AddressInv'
<1> DEFINE r == [op |-> "enable", from |-> from]
<1>1. r \in EnablePlans
  BY DEF EnablePlans
<1>2. Begin(x, r) /\ UNCHANGED <<slug, up, rule, on, left, late>>
  BY DEF EnableReads
<1> HIDE DEF r
<1> QED
  BY <1>1, <1>2, Begun

LEMMA CreateWritesInv ==
  ASSUME AddressInv, NEW x \in Actors, CreateWrites(x)
  PROVE  AddressInv'
<1>1. session[x].from \in Paths /\ session[x].to \in Paths /\ session[x].to # Nowhere
  BY Plans, PathsAssumption DEF AddressInv, CreateWrites
<1>2. /\ SessionInv' /\ actions' \in 0..MaxActions
      /\ left' \in [Paths -> [doc : Docs, owed : BOOLEAN]]
  BY Ended, Released DEF AddressInv, CreateWrites
<1>3. /\ rule' \in [Paths -> Paths \union {Nowhere}]
      /\ on' \subseteq {p \in Paths : rule'[p] # Nowhere}
  BY <1>1 DEF AddressInv, TypeOK, CreateWrites
<1>4. late' \subseteq on'
  BY <1>1 DEF AddressInv, TypeOK, CreateWrites, Judge
<1> QED
  BY <1>2, <1>3, <1>4 DEF AddressInv, TypeOK, CreateWrites

LEMMA EnableWritesInv ==
  ASSUME AddressInv, NEW x \in Actors, EnableWrites(x)
  PROVE  AddressInv'
<1>1. session[x].from \in Paths /\ rule[session[x].from] # Nowhere
  BY Plans DEF AddressInv, EnableWrites
<1>2. /\ SessionInv' /\ actions' \in 0..MaxActions
      /\ left' \in [Paths -> [doc : Docs, owed : BOOLEAN]]
  BY Ended, Released DEF AddressInv, EnableWrites
<1>3. on' \subseteq {p \in Paths : rule'[p] # Nowhere}
  BY <1>1 DEF AddressInv, TypeOK, EnableWrites
<1>4. late' \subseteq on'
  BY <1>1 DEF AddressInv, TypeOK, EnableWrites, Judge
<1> QED
  BY <1>2, <1>3, <1>4 DEF AddressInv, TypeOK, EnableWrites

LEMMA DisableInv ==
  ASSUME AddressInv, NEW from \in Paths, Disable(from)
  PROVE  AddressInv'
<1>1. /\ SessionInv' /\ actions' \in 0..MaxActions
      /\ left' \in [Paths -> [doc : Docs, owed : BOOLEAN]]
  BY OnceType, Released DEF AddressInv, Disable
<1> QED
  BY <1>1 DEF AddressInv, TypeOK, Disable

LEMMA DropInv ==
  ASSUME AddressInv, NEW from \in Paths, Drop(from)
  PROVE  AddressInv'
<1>1. left' \in [Paths -> [doc : Docs, owed : BOOLEAN]]
  BY Released DEF AddressInv, Drop
<1>2. SessionInv'
  BY DEF AddressInv, SessionInv, Drop
<1>3. /\ rule' \in [Paths -> Paths \union {Nowhere}]
      /\ on' \subseteq {p \in Paths : rule'[p] # Nowhere}
  BY DEF AddressInv, TypeOK, Drop
<1>4. actions' \in 0..MaxActions /\ late' \subseteq on'
  BY AddressesAssumption DEF AddressInv, TypeOK, Drop
<1> QED
  BY <1>1, <1>2, <1>3, <1>4 DEF AddressInv, TypeOK, Drop

LEMMA SlugWritesInv ==
  ASSUME AddressInv, NEW x \in Actors, SlugWrites(x)
  PROVE  AddressInv'
<1> DEFINE s == session[x]
<1>1. s \in RenamePlans
  BY Plans DEF AddressInv, SlugWrites
<1>2. s.from \in Paths /\ s.to \in Paths /\ s.doc \in Docs /\ s.slug \in Slugs /\ s.from # s.to
  BY <1>1 DEF RenamePlans
<1>3. SessionInv' /\ actions' \in 0..MaxActions
  BY Ended DEF AddressInv, SlugWrites
<1>4. /\ slug' = [slug EXCEPT ![s.doc] = s.slug] /\ ~ Taken(s.doc, s.slug) /\ up' = up
      /\ IF s.up
         THEN /\ rule' = RenamedRules(s.from, s.to)
              /\ on' = {p \in on \union {s.from} : rule'[p] # Nowhere}
              /\ late' = late \ {s.from, s.to}
         ELSE UNCHANGED <<rule, on, late>>
  BY DEF SlugWrites
<1>5. slug' \in [Docs -> Slugs] /\ up' \in [Docs -> BOOLEAN]
  BY <1>2, <1>4 DEF AddressInv, TypeOK
<1>6. \A d, e \in Docs : slug'[d] = slug'[e] /\ (d \in Pages <=> e \in Pages) => d = e
  BY <1>2, <1>4 DEF AddressInv, TypeOK, Taken
<1>7. /\ rule' \in [Paths -> Paths \union {Nowhere}]
      /\ on' \subseteq {p \in Paths : rule'[p] # Nowhere} /\ late' \subseteq on'
  <2>1. CASE s.up
    <3>1. rule' = [rule EXCEPT ![s.to] = Nowhere, ![s.from] = s.to]
      BY <1>4, <2>1 DEF RenamedRules
    <3>2. rule' \in [Paths -> Paths \union {Nowhere}]
      BY <1>2, <3>1 DEF AddressInv, TypeOK
    <3>3. \A p \in Paths \ {s.from, s.to} : rule'[p] = rule[p]
      BY <1>2, <3>1 DEF AddressInv, TypeOK
    <3> QED
      BY <1>2, <1>4, <2>1, <3>2, <3>3 DEF AddressInv, TypeOK
  <2>2. CASE ~ s.up
    BY <1>4, <2>2 DEF AddressInv, TypeOK
  <2> QED
    BY <2>1, <2>2
<1>8. left' \in [Paths -> [doc : Docs, owed : BOOLEAN]]
  <2>1. /\ Nobody \in [doc : Docs, owed : BOOLEAN]
        /\ [doc |-> s.doc, owed |-> TRUE] \in [doc : Docs, owed : BOOLEAN]
        /\ \A q \in Paths : left[q] \in [doc : Docs, owed : BOOLEAN]
    BY <1>2, AddressesAssumption DEF Nobody, Docs, AddressInv, TypeOK
  <2>2. /\ left' = [q \in Paths |-> left'[q]]
        /\ \A q \in Paths : left'[q] \in {[doc |-> s.doc, owed |-> TRUE], Nobody, left[q]}
    BY DEF SlugWrites
  <2> QED
    BY <2>1, <2>2
<1> QED
  BY <1>3, <1>5, <1>6, <1>7, <1>8 DEF AddressInv, TypeOK

LEMMA AddressNext == AddressInv /\ [Next]_vars => AddressInv'
<1> SUFFICES ASSUME AddressInv, [Next]_vars PROVE AddressInv'
  OBVIOUS
<1>1. ASSUME NEW x \in Actors, GiveUp(x) PROVE AddressInv'
  BY <1>1, Ended DEF GiveUp, AddressInv, TypeOK
<1>2. ASSUME NEW d \in Docs, Toggle(d) PROVE AddressInv'
  BY <1>2, OnceType DEF Toggle, AddressInv, TypeOK
<1>3. CASE UNCHANGED vars
  BY <1>3 DEF vars, AddressInv, TypeOK, SessionInv
<1>4. CASE Next
  BY <1>1, <1>2, <1>4, SlugReadsInv, CreateReadsInv, EnableReadsInv, SlugWritesInv,
     CreateWritesInv, EnableWritesInv, DisableInv, DropInv DEF Next
<1> QED
  BY <1>3, <1>4

(* Addresses, rules, and what every action at work has read, are in shape. *)
THEOREM AddressTypes == Spec => []TypeOK
<1>1. AddressInv => TypeOK
  BY DEF AddressInv
<1> QED
  BY <1>1, AddressInit, AddressNext, PTL DEF Spec

-----------------------------------------------------------------------------
(* What an action does to the rules that are active.                       *)
RulesKept(C) == \A q \in Paths \ C : ActiveMap'[q] = ActiveMap[q]

LEMMA ActiveMapNext ==
  ASSUME AddressInv, AddressInv'
  PROVE  /\ ActiveMap \in Maps /\ ActiveMap' \in Maps
         /\ \A p \in Paths : ActiveMap'[p] = IF p \in on' THEN rule'[p] ELSE Nowhere
  BY ActiveMapType DEF AddressInv, ActiveMap, Maps, TypeOK

LEMMA CreatedRule ==
  ASSUME AddressInv, AddressInv', NEW x \in Actors, CreateWrites(x)
  PROVE  /\ Redirected(ActiveMap, ActiveMap', session[x].from, session[x].to)
         /\ session[x].from \in Paths /\ session[x].to \in Paths
         /\ RulesKept({session[x].from})
<1> DEFINE from == session[x].from  to == session[x].to
<1>1. from \in Paths /\ to \in Paths
  BY Plans DEF AddressInv, CreateWrites
<1>2. rule' = [rule EXCEPT ![from] = to] /\ on' = on \union {from}
  BY DEF CreateWrites
<1> HIDE DEF from, to
<1>3. /\ Redirected(ActiveMap, ActiveMap', from, to) /\ RulesKept({from})
  BY <1>1, <1>2 DEF AddressInv, TypeOK, ActiveMap, Redirected, RulesKept
<1> QED
  BY <1>1, <1>3 DEF from, to

LEMMA EnabledRule ==
  ASSUME AddressInv, AddressInv', NEW x \in Actors, EnableWrites(x)
  PROVE  /\ Redirected(ActiveMap, ActiveMap', session[x].from, rule[session[x].from])
         /\ session[x].from \in Paths /\ rule[session[x].from] \in Paths
         /\ RulesKept({session[x].from})
<1>1. session[x].from \in Paths /\ rule[session[x].from] \in Paths
  BY Plans DEF AddressInv, TypeOK, EnableWrites
<1> QED
  BY <1>1 DEF AddressInv, TypeOK, EnableWrites, ActiveMap, Redirected, RulesKept

LEMMA RemovedRule ==
  ASSUME AddressInv, AddressInv', NEW from \in Paths, Disable(from) \/ Drop(from)
  PROVE  ActiveMap'[from] = Nowhere /\ RulesKept({from})
<1>1. on' = on \ {from}
  BY DEF Disable, Drop
<1>2. \A q \in Paths \ {from} : rule'[q] = rule[q]
  BY DEF Disable, Drop, AddressInv, TypeOK
<1> QED
  BY <1>1, <1>2 DEF ActiveMap, RulesKept

LEMMA RenamedRule ==
  ASSUME AddressInv, AddressInv', NEW x \in Actors, SlugWrites(x), session[x].up
  PROVE  /\ ActiveMap'[session[x].to] = Nowhere
         /\ ActiveMap'[session[x].from] = session[x].to
         /\ RulesKept({session[x].from, session[x].to})
<1> DEFINE s == session[x]
<1>1. s \in RenamePlans
  BY Plans DEF AddressInv, SlugWrites
<1>2. s.from \in Paths /\ s.to \in Paths /\ s.from # s.to /\ s.to # Nowhere
  BY <1>1, PathsAssumption DEF RenamePlans
<1>3. /\ rule' = [rule EXCEPT ![s.to] = Nowhere, ![s.from] = s.to]
      /\ on' = {p \in on \union {s.from} : rule'[p] # Nowhere}
  BY DEF SlugWrites, RenamedRules
<1> HIDE DEF s
<1>4. /\ rule'[s.to] = Nowhere /\ rule'[s.from] = s.to
      /\ \A q \in Paths \ {s.from, s.to} : rule'[q] = rule[q]
  BY <1>2, <1>3 DEF AddressInv, TypeOK
<1>5. /\ s.to \notin on' /\ s.from \in on'
      /\ \A q \in Paths \ {s.from, s.to} : q \in on' <=> q \in on
  BY <1>2, <1>3, <1>4 DEF AddressInv, TypeOK
<1>6. ActiveMap'[s.to] = Nowhere /\ ActiveMap'[s.from] = s.to
  BY <1>2, <1>4, <1>5 DEF ActiveMap
<1>7. RulesKept({s.from, s.to})
  BY <1>4, <1>5 DEF ActiveMap, RulesKept
<1> QED
  BY <1>6, <1>7 DEF s

LEMMA SameRules ==
  ASSUME UNCHANGED <<rule, on>>
  PROVE  ActiveMap' = ActiveMap /\ RulesKept({})
  BY DEF ActiveMap, RulesKept

-----------------------------------------------------------------------------
Excused(map, p, wrong) ==
  Trail(map, p) \intersect wrong # {} \/ Cardinality(Trail(map, p)) > MaxHops + 1
Tame(map, wrong) == \A p \in Paths : Loops(map, p) => Excused(map, p, wrong)

LEMMA TameMeans == NoShortCircle <=> Tame(ActiveMap, late)
  BY DEF NoShortCircle, OnCycle, Loops, Tame, Excused

(* Circles that an action has not touched are excused as they were; so it  *)
(* is enough to look at those on which a rule has changed.                 *)
LEMMA TameStays ==
  ASSUME AddressInv, AddressInv', NoShortCircle, NEW C \in SUBSET Paths, RulesKept(C),
         late \subseteq late' \union C,
         \A p \in Paths : Loops(ActiveMap', p) /\ Trail(ActiveMap', p) \intersect C # {}
                            => Excused(ActiveMap', p, late')
  PROVE  NoShortCircle'
<1> DEFINE map == ActiveMap  new == ActiveMap'
<1>1. map \in Maps /\ new \in Maps
  BY ActiveMapNext
<1>2. Tame(map, late)
  BY TameMeans
<1>3. ASSUME NEW p \in Paths, Loops(new, p), Trail(new, p) \intersect C = {}
      PROVE  Excused(new, p, late')
  <2>1. \A q \in Trail(new, p) : map[q] = new[q]
    BY <1>1, <1>3, TrailClosed DEF RulesKept
  <2>2. Loops(map, p) /\ Trail(map, p) = Trail(new, p)
    <3> HIDE DEF map, new
    <3> QED
      BY <1>1, <1>3, <2>1, OldCircle
  <2>3. Excused(map, p, late)
    BY <1>2, <2>2 DEF Tame
  <2> HIDE DEF map, new
  <2> QED
    BY <1>3, <2>2, <2>3 DEF Excused
<1>4. Tame(new, late')
  BY <1>3 DEF Tame
<1>5. NoShortCircle' <=> Tame(ActiveMap, late)'
  BY TameMeans, PTL
<1> QED
  BY <1>4, <1>5 DEF Tame, Loops, Excused

LEMMA WrittenTame ==
  ASSUME AddressInv, AddressInv', NoShortCircle, NEW from \in Paths, NEW to \in Paths,
         Redirected(ActiveMap, ActiveMap', from, to), RulesKept({from}), Judge(from, to)
  PROVE  NoShortCircle'
<1> DEFINE map == ActiveMap  new == ActiveMap'
<1>1. map \in Maps /\ new \in Maps
  BY ActiveMapNext
<1>2. ASSUME NEW p \in Paths, Loops(new, p), from \in Trail(new, p)
      PROVE  Excused(new, p, late')
  <2>1. CASE WouldLoop(map, from, to)
    <3>1. from \in late'
      BY <2>1 DEF Judge
    <3> QED
      BY <1>2, <3>1 DEF Excused
  <2>2. CASE ~ WouldLoop(map, from, to)
    <3> HIDE DEF map, new
    <3>1. Redirected(map, new, from, to)
      BY DEF map, new
    <3>2. Cardinality(Trail(new, p)) > MaxHops + 1
      BY <1>1, <1>2, <2>2, <3>1, NewCircle
    <3> QED
      BY <3>2 DEF Excused
  <2> QED
    BY <2>1, <2>2
<1>3. late \subseteq late' \union {from}
  BY DEF Judge
<1>4. {from} \in SUBSET Paths
  OBVIOUS
<1>5. \A p \in Paths : Loops(new, p) /\ Trail(new, p) \intersect {from} # {}
                         => Excused(new, p, late')
  BY <1>2
<1> QED
  BY <1>3, <1>4, <1>5, TameStays

(* No circle runs through a path that has no rule.                         *)
LEMMA RemovedTame ==
  ASSUME AddressInv, AddressInv', NoShortCircle, NEW C \in SUBSET Paths, RulesKept(C),
         late \subseteq late' \union C, NEW dead \in Paths, ActiveMap'[dead] = Nowhere,
         \A p \in Paths : Trail(ActiveMap', p) \intersect C # {} => dead \in Trail(ActiveMap', p)
  PROVE  NoShortCircle'
<1> DEFINE new == ActiveMap'
<1>1. new \in Maps
  BY ActiveMapNext
<1>2. ASSUME NEW p \in Paths, Loops(new, p), Trail(new, p) \intersect C # {}
      PROVE  FALSE
  <2>1. dead \in Trail(new, p) /\ new[dead] = Nowhere
    BY <1>2
  <2> HIDE DEF new
  <2> QED
    BY <1>1, <1>2, <2>1, LoopReturns, PathsAssumption
<1> QED
  BY <1>2, TameStays

LEMMA TameNext ==
  ASSUME AddressInv, AddressInv', NoShortCircle, [Next]_vars
  PROVE  NoShortCircle'
<1>1. ASSUME NEW x \in Actors, CreateWrites(x) PROVE NoShortCircle'
  BY <1>1, CreatedRule, WrittenTame DEF CreateWrites
<1>2. ASSUME NEW x \in Actors, EnableWrites(x) PROVE NoShortCircle'
  BY <1>2, EnabledRule, WrittenTame DEF EnableWrites
<1>3. ASSUME NEW from \in Paths, Disable(from) \/ Drop(from) PROVE NoShortCircle'
  <2>1. late' = late \ {from}
    BY <1>3 DEF Disable, Drop
  <2>2. ActiveMap'[from] = Nowhere /\ RulesKept({from})
    BY <1>3, RemovedRule
  <2> QED
    BY <2>1, <2>2, RemovedTame
<1>4. ASSUME NEW x \in Actors, SlugWrites(x), session[x].up PROVE NoShortCircle'
  <2> DEFINE from == session[x].from  to == session[x].to  new == ActiveMap'
  <2>1. from \in Paths /\ to \in Paths
    BY <1>4, Plans DEF AddressInv, SlugWrites, RenamePlans
  <2>2. new[to] = Nowhere /\ new[from] = to /\ RulesKept({from, to})
    BY <1>4, RenamedRule
  <2>3. late' = late \ {from, to}
    BY <1>4 DEF SlugWrites
  <2>4. ASSUME NEW p \in Paths, Trail(new, p) \intersect {from, to} # {}
        PROVE  to \in Trail(new, p)
    <3>1. new \in Maps /\ to # Nowhere
      BY <2>1, ActiveMapNext, PathsAssumption
    <3>2. from \in Trail(new, p) => to \in Trail(new, p)
      <4> HIDE DEF new
      <4> QED
        BY <2>2, <3>1, TrailClosed DEF Closed
    <3> QED
      BY <2>4, <3>2
  <2>5. {from, to} \in SUBSET Paths /\ late \subseteq late' \union {from, to}
    BY <2>1, <2>3
  <2> HIDE DEF from, to
  <2> QED
    BY <2>1, <2>2, <2>4, <2>5, RemovedTame
<1>5. ASSUME UNCHANGED <<rule, on, late>> PROVE NoShortCircle'
  BY <1>5, SameRules, TameStays
<1>6. ASSUME NEW x \in Actors, SlugWrites(x), ~ session[x].up PROVE NoShortCircle'
  BY <1>5, <1>6 DEF SlugWrites
<1>7. CASE UNCHANGED vars
  BY <1>5, <1>7 DEF vars
<1>8. ASSUME NEW x \in Actors, NEW d \in Docs, NEW s \in Slugs, SlugReads(x, d, s)
      PROVE  NoShortCircle'
  BY <1>5, <1>8 DEF SlugReads
<1>9. ASSUME NEW x \in Actors, NEW from \in Paths,
             EnableReads(x, from) \/ \E to \in Paths : CreateReads(x, from, to)
      PROVE  NoShortCircle'
  BY <1>5, <1>9 DEF EnableReads, CreateReads
<1>10. ASSUME NEW x \in Actors, GiveUp(x) PROVE NoShortCircle'
  BY <1>5, <1>10 DEF GiveUp
<1>11. ASSUME NEW d \in Docs, Toggle(d) PROVE NoShortCircle'
  BY <1>5, <1>11 DEF Toggle
<1>12. CASE Next
  BY <1>1, <1>2, <1>3, <1>4, <1>6, <1>8, <1>9, <1>10, <1>11, <1>12 DEF Next
<1> QED
  BY <1>7, <1>12

LEMMA TameInit == Init => NoShortCircle
<1> SUFFICES ASSUME Init, NEW p \in Paths, Loops(ActiveMap, p) PROVE FALSE
  BY TameMeans DEF Tame
<1>1. ActiveMap \in Maps /\ ActiveMap[p] = Nowhere
  BY AddressInit, ActiveMapType DEF AddressInv, Init
<1> QED
  BY <1>1, TrailUnfolds DEF Loops

(* No rules lead in a circle that wouldLoop can see, unless two people     *)
(* wrote at the same time: renaming documents never closes one.            *)
THEOREM CirclesAreLongOrLate == Spec => []NoShortCircle
<1>1. Init => AddressInv /\ NoShortCircle
  BY AddressInit, TameInit
<1>2. AddressInv /\ NoShortCircle /\ [Next]_vars => (AddressInv /\ NoShortCircle)'
  <2> SUFFICES ASSUME AddressInv, NoShortCircle, [Next]_vars PROVE AddressInv' /\ NoShortCircle'
    OBVIOUS
  <2>1. AddressInv'
    BY AddressNext
  <2> QED
    BY <2>1, TameNext
<1> QED
  BY <1>1, <1>2, PTL DEF Spec

-----------------------------------------------------------------------------
(* The way from an address that a document is owed a redirect from: it     *)
(* ends where the document is, and no other document's address is on it.   *)
(* Own says that the way is of addresses the document may once have had.   *)
Own(d) == {PathOf(d, s, slug[Index]) : s \in Slugs}
Leads(d, way) ==
  /\ Address(d) \in way /\ ActiveMap[Address(d)] = Nowhere
  /\ way \subseteq Own(d)
  /\ \A e \in Docs : Address(e) \in way => e = d
WayInv == \A q \in Paths : left[q].owed => Leads(left[q].doc, Trail(ActiveMap, q))

LEMMA AddressType ==
  ASSUME TypeOK, NEW d \in Docs
  PROVE  Address(d) \in Paths
<1>1. Index \in Docs
  BY AddressesAssumption DEF Docs
<1> QED
  BY <1>1, PathOfType DEF TypeOK, Address

(* An action that leaves every document where it is.                       *)
LEMMA WaysStay ==
  ASSUME AddressInv, AddressInv', WayInv, slug' = slug, NEW C \in SUBSET Paths, RulesKept(C),
         \A q \in Paths : left'[q].owed =>
           left'[q] = left[q] /\ Trail(ActiveMap, q) \intersect C = {}
  PROVE  WayInv'
<1> SUFFICES ASSUME NEW q \in Paths, left'[q].owed
             PROVE  Leads(left[q].doc, Trail(ActiveMap, q))'
  BY DEF WayInv
<1> DEFINE map == ActiveMap  new == ActiveMap'
<1>1. map \in Maps /\ new \in Maps
  BY ActiveMapNext
<1>2. left'[q] = left[q] /\ left[q].doc \in Docs /\ Leads(left[q].doc, Trail(map, q))
  BY DEF WayInv, AddressInv, TypeOK
<1>3. \A r \in Trail(map, q) : new[r] = map[r]
  BY <1>1, TrailClosed DEF RulesKept
<1>4. Trail(new, q) = Trail(map, q)
  <2> HIDE DEF map, new
  <2> QED
    BY <1>1, <1>3, TrailAgrees
<1>5. Address(left[q].doc) \in Trail(map, q) /\ map[Address(left[q].doc)] = Nowhere
  BY <1>2 DEF Leads
<1>6. new[Address(left[q].doc)] = Nowhere
  BY <1>3, <1>5
<1>7. Own(left[q].doc)' = Own(left[q].doc)' /\ \A e \in Docs : Address(e)' = Address(e)
  BY DEF Address
<1>8. Own(left[q].doc)' = {PathOf(left[q].doc, s, slug[Index]) : s \in Slugs}
  BY <1>2 DEF Own
<1> QED
  BY <1>2, <1>4, <1>5, <1>6, <1>7, <1>8 DEF Leads, Own, Address

LEMMA ReleasedWays ==
  ASSUME AddressInv, AddressInv', WayInv, slug' = slug, NEW p \in Paths, RulesKept({p}), Release(p)
  PROVE  WayInv'
<1>1. \A q \in Paths : left'[q].owed =>
        left'[q] = left[q] /\ Trail(ActiveMap, q) \intersect {p} = {}
  BY DEF Release, Nobody
<1> QED
  BY <1>1, WaysStay

-----------------------------------------------------------------------------
(* A rename.                                                               *)
Renamed(d, s) == slug' = [slug EXCEPT ![d] = s] /\ ~ Taken(d, s)

(* Only the document has moved, and what is beneath it.                    *)
LEMMA MovedAddresses ==
  ASSUME TypeOK, NEW d \in Docs, NEW s \in Slugs, Renamed(d, s)
  PROVE  /\ Address(d)' = PathOf(d, s, slug'[Index])
         /\ \A e \in Docs \ {d} : (d = Index /\ e \in Projects) \/ Address(e)' = Address(e)
         /\ d \in Projects => slug'[Index] = slug[Index]
<1>1. slug'[d] = s /\ \A e \in Docs \ {d} : slug'[e] = slug[e]
  BY DEF Renamed, TypeOK
<1>2. Index \in Docs /\ (d \in Projects => d # Index)
  BY AddressesAssumption DEF Docs
<1>3. d \in Projects => slug'[Index] = slug[Index]
  BY <1>1, <1>2
<1>4. Address(d)' = PathOf(d, s, slug'[Index])
  BY <1>1 DEF Address, PathOf
<1>5. ASSUME NEW e \in Docs \ {d}, ~ (d = Index /\ e \in Projects)
      PROVE  Address(e)' = Address(e)
  <2>1. CASE e \in Pages
    BY <1>1, <2>1 DEF Address, PathOf
  <2>2. CASE e \notin Pages
    <3>1. slug'[Index] = slug[Index]
      BY <1>1, <1>2, <1>5, <2>2 DEF Docs
    <3> QED
      BY <1>1, <3>1 DEF Address, PathOf
  <2> QED
    BY <2>1, <2>2
<1> QED
  BY <1>3, <1>4, <1>5

(* It is on nobody else's way, neither where it was nor where it is.       *)
LEMMA OwnWay ==
  ASSUME AddressInv, AddressInv', NEW d \in Docs, NEW s \in Slugs, Renamed(d, s), NEW way,
         way \subseteq Own(d), \A e \in Docs : Address(e) \in way => e = d,
         d \in Projects => slug'[Index] = slug[Index]
  PROVE  /\ way \union {Address(d)'} \subseteq Own(d)'
         /\ \A e \in Docs : Address(e)' \in way \union {Address(d)'} => e = d
<1>1. /\ Address(d)' = PathOf(d, s, slug'[Index])
      /\ \A e \in Docs \ {d} : (d = Index /\ e \in Projects) \/ Address(e)' = Address(e)
  BY MovedAddresses DEF AddressInv
<1>2. \A t \in Slugs : PathOf(d, t, slug'[Index]) = PathOf(d, t, slug[Index])
  BY DEF PathOf, Docs
<1>3. Own(d)' = Own(d)
  BY <1>2 DEF Own
<1>4. Address(d)' \in Own(d)
  BY <1>1, <1>2 DEF Own
<1>5. /\ Index \in Docs /\ slug[Index] \in Slugs /\ slug'[Index] \in Slugs
      /\ \A e \in Docs : slug'[e] \in Slugs
  BY AddressesAssumption DEF AddressInv, TypeOK, Docs
<1>6. ASSUME NEW e \in Docs \ {d}
      PROVE  Address(e)' # Address(d)'
  <2>1. SUFFICES ASSUME PathOf(e, slug'[e], slug'[Index]) = PathOf(d, slug'[d], slug'[Index])
                 PROVE  FALSE
    BY DEF Address, PathOf
  <2>2. slug'[e] = slug'[d] /\ (e \in Pages <=> d \in Pages)
    BY <1>5, <2>1, PathOfInjective
  <2> QED
    BY <2>2 DEF AddressInv, TypeOK
<1>7. ASSUME NEW e \in Docs \ {d}
      PROVE  Address(e)' \notin way
  <2>1. CASE d = Index /\ e \in Projects
    <3>1. SUFFICES ASSUME NEW t \in Slugs,
                          PathOf(e, slug'[e], slug'[Index]) = PathOf(d, t, slug[Index])
                   PROVE  FALSE
      BY DEF Address, PathOf, Own
    <3>2. e \in Pages <=> d \in Pages
      BY <1>5, <3>1, PathOfInjective
    <3> QED
      BY <2>1, <3>2, AddressesAssumption
  <2>2. CASE Address(e)' = Address(e)
    BY <2>2
  <2> QED
    BY <1>1, <2>1, <2>2
<1> QED
  BY <1>3, <1>4, <1>6, <1>7

(* A sound rename: the rule it makes is of the document's own addresses.   *)
Sound(r) == /\ r.shown /\ Visible(r.doc) /\ r.old = slug[r.doc]
            /\ r.doc \in Projects => r.parent = slug[Index]

LEMMA SoundRename ==
  ASSUME TypeOK, NEW r \in RenamePlans, Renamed(r.doc, r.slug), Sound(r)
  PROVE  /\ r.up /\ r.from = Address(r.doc) /\ r.to = Address(r.doc)'
         /\ r.doc \in Projects => slug'[Index] = slug[Index]
<1>1. r.shown /\ r.old = slug[r.doc] /\ (r.doc \in Projects => r.parent = slug[Index])
  BY DEF Sound
<1>2. /\ r.doc \in Docs /\ r.slug \in Slugs /\ r.up
      /\ r.from = PathOf(r.doc, r.old, r.parent) /\ r.to = PathOf(r.doc, r.slug, r.parent)
  BY <1>1 DEF RenamePlans
<1>3. /\ Address(r.doc)' = PathOf(r.doc, r.slug, slug'[Index])
      /\ r.doc \in Projects => slug'[Index] = slug[Index]
  BY <1>2, MovedAddresses
<1>4. r.from = Address(r.doc) /\ r.to = Address(r.doc)'
  BY <1>1, <1>2, <1>3 DEF Address, PathOf, Docs
<1> QED
  BY <1>2, <1>3, <1>4

(* The new address is at the end of every way to the old one.              *)
LEMMA WayGrows ==
  ASSUME NEW map \in Maps, NEW new \in Maps, NEW q \in Paths, NEW from \in Trail(map, q),
         NEW to \in Paths, map[from] = Nowhere, new[from] = to, new[to] = Nowhere,
         \A p \in Paths \ {from, to} : new[p] = map[p]
  PROVE  to \in Trail(new, q) /\ Trail(new, q) \subseteq Trail(map, q) \union {to}
<1> DEFINE way == Trail(map, q)
<1>1. q \in way /\ way \subseteq Paths /\ Closed(map, way)
  BY TrailClosed
<1>2. Closed(new, way \union {to})
  <2> SUFFICES ASSUME NEW p \in way \union {to} PROVE new[p] \in way \union {to, Nowhere}
    BY DEF Closed
  <2>1. CASE p \in {from, to}
    BY <2>1
  <2>2. CASE p \notin {from, to}
    BY <1>1, <2>2 DEF Closed
  <2> QED
    BY <2>1, <2>2
<1>3. Trail(new, q) \subseteq way \union {to}
  <2> HIDE DEF way
  <2> QED
    BY <1>1, <1>2, TrailLeast
<1>4. to \in Trail(new, q)
  <2> SUFFICES ASSUME to \notin Trail(new, q) PROVE FALSE
    OBVIOUS
  <2>1. Trail(new, q) \subseteq Paths /\ Closed(new, Trail(new, q))
    BY TrailClosed
  <2>2. from \notin Trail(new, q)
    BY <2>1, PathsAssumption DEF Closed
  <2>3. \A p \in Trail(new, q) : map[p] = new[p]
    BY <2>1, <2>2
  <2>4. Trail(map, q) = Trail(new, q)
    BY <2>3, TrailAgrees
  <2> QED
    BY <2>2, <2>4
<1> QED
  BY <1>3, <1>4

LEMMA RenamedWays ==
  ASSUME AddressInv, AddressInv', WayInv, NEW x \in Actors, SlugWrites(x)
  PROVE  WayInv'
<1>1. PICK r \in RenamePlans : r = session[x]
  BY Plans DEF AddressInv, SlugWrites
<1> DEFINE d == r.doc  map == ActiveMap  new == ActiveMap'
           lost == {r.from, r.to, PathOf(d, r.slug, slug'[Index])}
<1>2. d \in Docs /\ r.slug \in Slugs /\ r.from \in Paths /\ r.to \in Paths /\ r.from # r.to
  BY DEF RenamePlans
<1>3. Renamed(d, r.slug) /\ TypeOK
  BY <1>1 DEF SlugWrites, Renamed, AddressInv
<1>4. map \in Maps /\ new \in Maps
  BY ActiveMapNext
<1>5. r.up => /\ new[r.to] = Nowhere /\ new[r.from] = r.to
              /\ \A p \in Paths \ {r.from, r.to} : new[p] = map[p]
  BY <1>1, RenamedRule DEF RulesKept
<1>6. ~ r.up => new = map
  BY <1>1, SameRules DEF SlugWrites
<1>7. /\ Address(d)' = PathOf(d, r.slug, slug'[Index])
      /\ \A e \in Docs \ {d} : (d = Index /\ e \in Projects) \/ Address(e)' = Address(e)
      /\ d \in Projects => slug'[Index] = slug[Index]
  <2> HIDE DEF d
  <2> QED
    BY <1>2, <1>3, MovedAddresses
<1> SUFFICES ASSUME NEW q \in Paths, left'[q].owed
             PROVE  Leads(left[q].doc, Trail(ActiveMap, q))'
  BY DEF WayInv
<1>8. left'[q] = IF q = Address(d) /\ Sound(r) THEN [doc |-> d, owed |-> TRUE]
                 ELSE IF \/ q = r.to
                         \/ /\ left[q].doc = d \/ (d = Index /\ left[q].doc \in Projects)
                            /\ ~ Sound(r) \/ left[q].doc # d
                         \/ left[q].doc # d /\ lost \intersect Trail(map, q) # {}
                      THEN Nobody ELSE left[q]
  BY <1>1 DEF SlugWrites, Sound
<1>9. ASSUME NEW o, left'[q].doc = o,
             Address(o)' \in Trail(new, q), new[Address(o)'] = Nowhere,
             Trail(new, q) \subseteq Own(o)',
             \A e \in Docs : Address(e)' \in Trail(new, q) => e = o
      PROVE  Leads(left[q].doc, Trail(ActiveMap, q))'
  BY <1>9 DEF Leads, Own, Address
<1>10. ASSUME Sound(r)
       PROVE  /\ r.up /\ r.from = Address(d) /\ r.to = Address(d)'
              /\ d \in Projects => slug'[Index] = slug[Index]
  BY <1>3, <1>10, SoundRename
<1>11. ASSUME Sound(r), NEW way, way \subseteq Own(d),
              \A e \in Docs : Address(e) \in way => e = d
       PROVE  /\ way \union {r.to} \subseteq Own(d)'
              /\ \A e \in Docs : Address(e)' \in way \union {r.to} => e = d
  <2>1. r.to = Address(d)' /\ (d \in Projects => slug'[Index] = slug[Index])
    BY <1>10, <1>11
  <2> HIDE DEF d
  <2> QED
    BY <1>2, <1>3, <1>11, <2>1, OwnWay
<1>12. CASE q = Address(d) /\ Sound(r)
  <2>1. /\ new[r.from] = r.to /\ new[r.to] = Nowhere /\ r.to # Nowhere
        /\ q = r.from /\ r.to = Address(d)'
    BY <1>2, <1>5, <1>10, <1>12, PathsAssumption
  <2>2. Trail(new, q) = {q} \union {r.to}
    <3> HIDE DEF new
    <3> QED
      BY <1>2, <1>4, <2>1, TrailUnfolds
  <2>3. {q} \subseteq Own(d)
    BY <1>2, <1>12, <1>3 DEF Own, Address, TypeOK
  <2>4. ASSUME NEW e \in Docs, Address(e) \in {q}
        PROVE  e = d
    <3>1. /\ Index \in Docs /\ slug[Index] \in Slugs /\ slug[d] \in Slugs /\ slug[e] \in Slugs
          /\ PathOf(e, slug[e], slug[Index]) = PathOf(d, slug[d], slug[Index])
      BY <1>2, <1>3, <1>12, <2>4, AddressesAssumption DEF Address, TypeOK, Docs
    <3>2. slug[e] = slug[d] /\ (e \in Pages <=> d \in Pages)
      <4> HIDE DEF d
      <4> QED
        BY <1>2, <3>1, PathOfInjective
    <3> QED
      BY <1>2, <1>3, <3>2 DEF TypeOK
  <2>5. /\ {q} \union {r.to} \subseteq Own(d)'
        /\ \A e \in Docs : Address(e)' \in {q} \union {r.to} => e = d
    BY <1>11, <1>12, <2>3, <2>4
  <2>6. left'[q].doc = d
    BY <1>8, <1>12
  <2> HIDE DEF d, new
  <2> QED
    BY <1>9, <2>1, <2>2, <2>5, <2>6
<1>13. CASE left[q].doc = d /\ ~ (q = Address(d) /\ Sound(r))
  <2>1. left'[q] = left[q] /\ Sound(r)
    BY <1>8, <1>13 DEF Nobody
  <2>2. Leads(d, Trail(map, q))
    BY <1>13, <2>1 DEF WayInv
  <2>3. /\ r.from \in Trail(map, q) /\ map[r.from] = Nowhere /\ r.to = Address(d)'
        /\ new[r.to] = Nowhere /\ new[r.from] = r.to
        /\ \A p \in Paths \ {r.from, r.to} : new[p] = map[p]
    BY <1>5, <1>10, <2>1, <2>2 DEF Leads
  <2>4. r.to \in Trail(new, q) /\ Trail(new, q) \subseteq Trail(map, q) \union {r.to}
    <3> HIDE DEF map, new
    <3> QED
      BY <1>2, <1>4, <2>3, WayGrows
  <2>5. /\ Trail(map, q) \union {r.to} \subseteq Own(d)'
        /\ \A e \in Docs : Address(e)' \in Trail(map, q) \union {r.to} => e = d
    BY <1>11, <2>1, <2>2 DEF Leads
  <2>6. left'[q].doc = d
    BY <1>13, <2>1
  <2> HIDE DEF d, map, new
  <2> QED
    BY <1>9, <2>3, <2>4, <2>5, <2>6
<1>14. CASE left[q].doc # d /\ ~ (q = Address(d) /\ Sound(r))
  <2>1. PICK o : o = left[q].doc
    OBVIOUS
  <2>2. /\ left'[q] = left[q] /\ lost \intersect Trail(map, q) = {}
        /\ ~ (d = Index /\ o \in Projects)
    BY <1>8, <1>14, <2>1 DEF Nobody
  <2>3. Leads(o, Trail(map, q)) /\ o \in Docs /\ o # d
    BY <1>14, <2>1, <2>2 DEF WayInv, AddressInv, TypeOK
  <2>4. \A p \in Trail(map, q) : new[p] = map[p]
    <3>1. Trail(map, q) \subseteq Paths
      BY <1>4, TrailClosed
    <3> QED
      BY <1>5, <1>6, <2>2, <3>1
  <2>5. Trail(new, q) = Trail(map, q)
    <3> HIDE DEF map, new
    <3> QED
      BY <1>4, <2>4, TrailAgrees
  <2>6. Address(o)' = Address(o)
    BY <1>7, <2>2, <2>3
  <2>7. Address(o)' \in Trail(new, q) /\ new[Address(o)'] = Nowhere
    BY <2>3, <2>4, <2>5, <2>6 DEF Leads
  <2>8. \A t \in Slugs : PathOf(o, t, slug'[Index]) = PathOf(o, t, slug[Index])
    <3>1. CASE o \in Pages
      BY <3>1 DEF PathOf
    <3>2. CASE o \notin Pages
      <4>1. d # Index /\ slug'[Index] = slug[Index]
        BY <1>2, <1>3, <2>2, <2>3, <3>2, AddressesAssumption DEF Docs, Renamed, TypeOK
      <4> QED
        BY <4>1
    <3> QED
      BY <3>1, <3>2
  <2>9. Trail(new, q) \subseteq Own(o)'
    <3>1. Own(o)' = Own(o)
      BY <2>8 DEF Own
    <3> QED
      BY <2>3, <2>5, <3>1 DEF Leads
  <2>10. ASSUME NEW e \in Docs, Address(e)' \in Trail(new, q)
         PROVE  e = o
    <3>1. CASE e = d
      BY <1>7, <2>2, <2>5, <2>10, <3>1
    <3>2. CASE e # d /\ d = Index /\ e \in Projects
      <4>1. PICK t \in Slugs : Address(e)' = PathOf(o, t, slug[Index])
        BY <2>3, <2>5, <2>10 DEF Leads, Own
      <4>2. /\ Index \in Docs /\ slug'[e] \in Slugs
            /\ slug'[Index] \in Slugs /\ slug[Index] \in Slugs
            /\ PathOf(e, slug'[e], slug'[Index]) = PathOf(o, t, slug[Index])
        BY <4>1, AddressesAssumption DEF AddressInv, TypeOK, Address, Docs
      <4>3. e \in Pages <=> o \in Pages
        BY <2>3, <4>2, PathOfInjective
      <4> QED
        BY <2>2, <2>3, <3>2, <4>3, AddressesAssumption DEF Docs
    <3>3. CASE e # d /\ Address(e)' = Address(e)
      BY <2>3, <2>5, <2>10, <3>3 DEF Leads
    <3> QED
      BY <1>7, <3>1, <3>2, <3>3
  <2>11. left'[q].doc = o
    BY <2>1, <2>2
  <2> HIDE DEF d, map, new
  <2> QED
    BY <1>9, <2>7, <2>9, <2>10, <2>11
<1> QED
  BY <1>12, <1>13, <1>14

LEMMA WayNext ==
  ASSUME AddressInv, AddressInv', WayInv, [Next]_vars
  PROVE  WayInv'
<1>1. ASSUME NEW x \in Actors, CreateWrites(x) PROVE WayInv'
  BY <1>1, CreatedRule, ReleasedWays DEF CreateWrites
<1>2. ASSUME NEW x \in Actors, EnableWrites(x) PROVE WayInv'
  BY <1>2, EnabledRule, ReleasedWays DEF EnableWrites
<1>3. ASSUME NEW from \in Paths, Disable(from) \/ Drop(from) PROVE WayInv'
  BY <1>3, RemovedRule, ReleasedWays DEF Disable, Drop
<1>4. ASSUME UNCHANGED <<slug, rule, on, left>> PROVE WayInv'
  <2>1. slug' = slug /\ left' = left /\ RulesKept({})
    BY <1>4, SameRules
  <2>2. {} \in SUBSET Paths /\ \A q \in Paths : Trail(ActiveMap, q) \intersect {} = {}
    OBVIOUS
  <2> QED
    BY <2>1, <2>2, WaysStay
<1>5. CASE UNCHANGED vars
  BY <1>4, <1>5 DEF vars
<1>6. ASSUME NEW x \in Actors, NEW d \in Docs, NEW s \in Slugs, SlugReads(x, d, s)
      PROVE  WayInv'
  BY <1>4, <1>6 DEF SlugReads
<1>7. ASSUME NEW x \in Actors, NEW from \in Paths,
             EnableReads(x, from) \/ \E to \in Paths : CreateReads(x, from, to)
      PROVE  WayInv'
  BY <1>4, <1>7 DEF EnableReads, CreateReads
<1>8. ASSUME NEW x \in Actors, GiveUp(x) PROVE WayInv'
  BY <1>4, <1>8 DEF GiveUp
<1>9. ASSUME NEW d \in Docs, Toggle(d) PROVE WayInv'
  BY <1>4, <1>9 DEF Toggle
<1>10. CASE Next
  BY <1>1, <1>2, <1>3, <1>6, <1>7, <1>8, <1>9, <1>10, RenamedWays DEF Next
<1> QED
  BY <1>5, <1>10

LEMMA WayInit == Init => WayInv
  BY DEF Init, WayInv, Nobody

-----------------------------------------------------------------------------
(* A visitor on such a way. Every path on it leads to its end, and none    *)
(* leads back to itself.                                                   *)
Ends(map, q, a) == a \in Trail(map, q) /\ map[a] = Nowhere

LEMMA WayForward ==
  ASSUME NEW map \in Maps, NEW q \in Paths, NEW a \in Paths, Ends(map, q, a),
         NEW p \in Trail(map, q), p # a
  PROVE  /\ map[p] \in Paths /\ Ends(map, map[p], a) /\ p \notin Trail(map, map[p])
         /\ map[p] \in Trail(map, q) /\ Trail(map, map[p]) \subseteq Trail(map, p)
<1> DEFINE S == {r \in Trail(map, q) : a \in Trail(map, r)}
<1>1. /\ Trail(map, q) \subseteq Paths /\ Closed(map, Trail(map, q)) /\ q \in Trail(map, q)
      /\ a \in Trail(map, a)
  BY TrailClosed
<1>2. ASSUME NEW r \in S
      PROVE  map[r] \in S \union {Nowhere}
  <2>1. CASE map[r] # Nowhere
    <3>1. r # a /\ map[r] \in Trail(map, q)
      BY <1>1, <2>1 DEF Ends, Closed
    <3>2. a \in Trail(map, map[r])
      BY <1>1, <2>1, <3>1, TrailUnfolds
    <3> QED
      BY <3>1, <3>2
  <2> QED
    BY <2>1
<1>3. Trail(map, q) \subseteq S
  <2>1. Closed(map, S) /\ q \in S
    BY <1>1, <1>2 DEF Closed, Ends
  <2> HIDE DEF S
  <2> QED
    BY <2>1, TrailLeast
<1>4. a \in Trail(map, p) /\ p \in Paths
  BY <1>1, <1>3
<1>5. map[p] # Nowhere
  BY <1>4, TrailUnfolds
<1>6. map[p] \in Paths /\ map[p] \in Trail(map, q)
  BY <1>1, <1>4, <1>5 DEF Maps, Closed
<1>7. a \in Trail(map, map[p])
  BY <1>3, <1>6
<1>8. Trail(map, p) = {p} \union Trail(map, map[p])
  BY <1>4, <1>5, TrailUnfolds
<1>9. p \notin Trail(map, map[p])
  <2>1. SUFFICES ASSUME p \in Trail(map, map[p]) PROVE FALSE
    OBVIOUS
  <2>2. CASE map[p] = p
    <3>1. Closed(map, {p})
      BY <2>2 DEF Closed
    <3>2. Trail(map, p) \subseteq {p}
      BY <1>4, <3>1, TrailLeast
    <3> QED
      BY <1>4, <3>2
  <2>3. CASE map[p] # p
    <3>1. map[p] \in Trail(map, map[p])
      BY <1>6, TrailClosed
    <3>2. Loops(map, p)
      BY <1>8, <2>1, <2>3, <3>1 DEF Loops
    <3>3. map[a] \in Paths
      BY <1>4, <3>2, LoopReturns
    <3> QED
      BY <3>3, PathsAssumption DEF Ends
  <2> QED
    BY <2>2, <2>3
<1> QED
  BY <1>6, <1>7, <1>8, <1>9 DEF Ends

(* The loop of followRedirect, turn by turn.                               *)
Turn(map, w) ==
  CASE w.done -> w
    [] ~w.done /\ w.at \in w.seen -> [w EXCEPT !.at = Nowhere, !.done = TRUE]
    [] ~w.done /\ w.at \notin w.seen /\ map[w.at] = Nowhere -> [w EXCEPT !.done = TRUE]
    [] OTHER -> [at |-> map[w.at], seen |-> w.seen \union {w.at}, done |-> FALSE]

IsWalk(map, p, f) ==
  f = [hop \in 0..MaxHops |->
         IF hop = 0 THEN [at |-> map[p], seen |-> {p}, done |-> map[p] = Nowhere]
         ELSE Turn(map, f[hop - 1])]

LEMMA FollowDef ==
  ASSUME NEW map, NEW p
  PROVE  Follow(map, p) = (CHOOSE f : IsWalk(map, p, f))[MaxHops].at
  BY DEF Follow, IsWalk, Turn

(* On a way it neither comes back nor loses it.                            *)
LEMMA FollowGoesOn ==
  ASSUME NEW map \in Maps, NEW q \in Paths, NEW a \in Paths, Ends(map, q, a),
         NEW p \in Trail(map, q), p # a
  PROVE  Follow(map, p) \in Trail(map, map[p])
<1>1. /\ p \in Paths /\ map[p] \in Paths /\ map[p] # Nowhere /\ p \notin Trail(map, map[p])
      /\ map[p] \in Trail(map, map[p]) /\ Trail(map, map[p]) \subseteq Trail(map, q)
      /\ Trail(map, map[p]) \subseteq Paths
  <2>1. Trail(map, q) \subseteq Paths
    BY TrailClosed
  <2>2. map[p] \in Paths /\ p \notin Trail(map, map[p]) /\ map[p] \in Trail(map, q)
    BY WayForward
  <2> QED
    BY <2>1, <2>2, TrailClosed, TrailNests, PathsAssumption
<1> DEFINE S == {w \in [at : Trail(map, map[p]), seen : SUBSET Paths, done : BOOLEAN] :
                   w.seen \intersect Trail(map, w.at) = {}}
           g == [w \in S |-> Turn(map, w)]
           c == [at |-> map[p], seen |-> {p}, done |-> map[p] = Nowhere]
<1>2. c \in S
  BY <1>1
<1>3. ASSUME NEW w \in S
      PROVE  Turn(map, w) \in S
  <2>1. /\ w.at \in Trail(map, map[p]) /\ w.at \in Paths /\ w.at \in Trail(map, w.at)
        /\ w.at \notin w.seen /\ w.done \in BOOLEAN /\ w.seen \subseteq Paths
        /\ w = [at |-> w.at, seen |-> w.seen, done |-> w.done]
    BY <1>1, TrailClosed
  <2>2. CASE w.done
    BY <2>2 DEF Turn
  <2>3. CASE ~ w.done /\ map[w.at] = Nowhere
    <3>1. Turn(map, w) = [w EXCEPT !.done = TRUE]
      BY <2>1, <2>3 DEF Turn
    <3> QED
      BY <2>1, <3>1
  <2>4. CASE ~ w.done /\ map[w.at] # Nowhere
    <3>1. Turn(map, w) = [at |-> map[w.at], seen |-> w.seen \union {w.at}, done |-> FALSE]
      BY <2>1, <2>4 DEF Turn
    <3>2. w.at # a /\ w.at \in Trail(map, q)
      BY <1>1, <2>1, <2>4 DEF Ends
    <3>3. w.at \notin Trail(map, map[w.at]) /\ Trail(map, map[w.at]) \subseteq Trail(map, w.at)
      BY <3>2, WayForward
    <3>4. map[w.at] \in Trail(map, map[p])
      BY <1>1, <2>1, <2>4, TrailClosed DEF Closed
    <3> QED
      BY <2>1, <3>1, <3>3, <3>4
  <2> QED
    BY <2>1, <2>2, <2>3, <2>4
<1>4. MaxHops \in Nat
  BY AddressesAssumption
<1>5. \E f : Iterates(g, c, MaxHops, S, f)
  <2>1. g \in [S -> S]
    BY <1>3
  <2> HIDE DEF S, g, c
  <2> QED
    BY <1>2, <1>4, <2>1, Recursion
<1>6. \E f : IsWalk(map, p, f)
  <2>1. PICK f : Iterates(g, c, MaxHops, S, f)
    BY <1>5
  <2>2. ASSUME NEW hop \in 0..MaxHops
        PROVE  f[hop] = IF hop = 0 THEN c ELSE Turn(map, f[hop - 1])
    <3>1. CASE hop = 0
      BY <2>1, <3>1 DEF Iterates
    <3>2. CASE hop # 0
      <4>1. hop \in 1..MaxHops /\ hop - 1 \in 0..MaxHops /\ f[hop - 1] \in S
        BY <1>4, <2>1, <3>2 DEF Iterates
      <4> HIDE DEF S, c
      <4> QED
        BY <2>1, <3>2, <4>1 DEF Iterates
    <3> QED
      BY <3>1, <3>2
  <2>3. f = [hop \in 0..MaxHops |-> IF hop = 0 THEN c ELSE Turn(map, f[hop - 1])]
    <3> HIDE DEF c, S
    <3> QED
      BY <2>1, <2>2 DEF Iterates
  <2> QED
    BY <2>3, Zenon DEF IsWalk
<1>7. PICK f : IsWalk(map, p, f) /\ Follow(map, p) = f[MaxHops].at
  BY <1>6, FollowDef
<1>8. f[0] = c /\ \A hop \in Nat : hop < MaxHops => f[hop + 1] = Turn(map, f[hop])
  <2>1. \A hop \in 0..MaxHops : f[hop] = IF hop = 0 THEN c ELSE Turn(map, f[hop - 1])
    BY <1>7 DEF IsWalk
  <2> HIDE DEF c
  <2>2. ASSUME NEW hop \in Nat, hop < MaxHops
        PROVE  f[hop + 1] = Turn(map, f[hop])
    <3>1. hop + 1 \in 0..MaxHops /\ hop + 1 # 0 /\ (hop + 1) - 1 = hop
      BY <1>4, <2>2
    <3> QED
      BY <2>1, <3>1
  <2> QED
    BY <1>4, <2>1, <2>2
<1> DEFINE G == {hop \in Nat : hop <= MaxHops => f[hop] \in S}
<1> HIDE DEF S, c
<1>9. 0 \in G /\ \A hop \in Nat : hop < MaxHops /\ hop \in G => hop + 1 \in G
  BY <1>2, <1>3, <1>4, <1>8
<1>10. MaxHops \in G
  <2> HIDE DEF G
  <2> QED
    BY <1>4, <1>9, Induction
<1>11. f[MaxHops] \in S
  BY <1>4, <1>10
<1> QED
  BY <1>7, <1>11 DEF S

(* The visitor, one page after the other.                                  *)
Goes(q) == IF q = Nowhere THEN q ELSE Step(q)

IsVisit(p, f) ==
  f = [n \in 0..Steps |-> IF n = 0 THEN p ELSE Goes(f[n - 1])]

LEMMA LandsDef ==
  ASSUME NEW p
  PROVE  Lands(p) = (CHOOSE f : IsVisit(p, f))[Steps]
  BY DEF Lands, IsVisit, Goes, Steps

(* A visitor on a way who steps forward on it until its end arrives there. *)
LEMMA VisitArrives ==
  ASSUME NEW map \in Maps, NEW q \in Paths, NEW a \in Paths, Ends(map, q, a), Goes(a) = a,
         \A p \in Trail(map, q) \ {a} : Goes(p) \in Trail(map, map[p])
  PROVE  Lands(q) = a
<1> DEFINE way == Trail(map, q)
           ahead(p) == Cardinality(Trail(map, p))
           g == [p \in way |-> Goes(p)]
<1>1. way \subseteq Paths /\ q \in way /\ a \in way
  BY TrailClosed DEF Ends
<1>2. \A p \in Paths : IsFiniteSet(Trail(map, p)) /\ ahead(p) \in Nat /\ ahead(p) <= Steps
  BY TrailClosed, PathsFinite, FS_Subset, FS_CardinalityType DEF Steps
<1>3. ASSUME NEW p \in way, p # a
      PROVE  Goes(p) \in way /\ ahead(Goes(p)) + 1 <= ahead(p)
  <2>1. /\ Goes(p) \in Trail(map, map[p]) /\ map[p] \in Paths /\ map[p] \in way
        /\ p \in Paths /\ p \notin Trail(map, map[p]) /\ Trail(map, map[p]) \subseteq Trail(map, p)
    BY <1>1, <1>3, WayForward
  <2>2. Trail(map, map[p]) \subseteq way /\ Trail(map, map[p]) \subseteq Paths
    BY <1>1, <2>1, TrailNests
  <2>3. Goes(p) \in way /\ Goes(p) \in Paths /\ Trail(map, Goes(p)) \subseteq Trail(map, map[p])
    BY <2>1, <2>2, TrailNests
  <2>4. /\ p \in Trail(map, p) /\ p \notin Trail(map, Goes(p))
        /\ Trail(map, Goes(p)) \subseteq Trail(map, p)
    BY <2>1, <2>3, TrailClosed
  <2>5. ahead(Goes(p)) < ahead(p)
    BY <1>2, <2>1, <2>3, <2>4, FS_Subset
  <2> QED
    BY <1>2, <2>1, <2>3, <2>5
<1>4. g \in [way -> way] /\ \A p \in way : g[p] = Goes(p)
  BY <1>1, <1>3
<1>5. \E f : Iterates(g, q, Steps, way, f)
  <2> HIDE DEF way, g
  <2> QED
    BY <1>1, <1>4, StepsType, Recursion
<1>6. \E f : IsVisit(q, f)
  <2>1. PICK f : Iterates(g, q, Steps, way, f)
    BY <1>5
  <2>2. ASSUME NEW n \in 0..Steps
        PROVE  f[n] = IF n = 0 THEN q ELSE Goes(f[n - 1])
    <3>1. CASE n = 0
      BY <2>1, <3>1 DEF Iterates
    <3>2. CASE n # 0
      <4>1. n \in 1..Steps /\ n - 1 \in 0..Steps
        BY <3>2, StepsType
      <4> HIDE DEF way, g
      <4>2. f[n - 1] \in way /\ f[n] = g[f[n - 1]]
        BY <2>1, <4>1 DEF Iterates
      <4> QED
        BY <1>4, <3>2, <4>2
    <3> QED
      BY <3>1, <3>2
  <2> HIDE DEF way, g
  <2> QED
    BY <2>1, <2>2 DEF IsVisit, Iterates
<1>7. PICK f : IsVisit(q, f) /\ Lands(q) = f[Steps]
  BY <1>6, LandsDef
<1>8. f[0] = q /\ \A n \in Nat : n < Steps => f[n + 1] = Goes(f[n])
  <2>1. \A n \in 0..Steps : f[n] = IF n = 0 THEN q ELSE Goes(f[n - 1])
    BY <1>7 DEF IsVisit
  <2>2. ASSUME NEW n \in Nat, n < Steps
        PROVE  f[n + 1] = Goes(f[n])
    <3>1. n + 1 \in 0..Steps /\ n + 1 # 0 /\ (n + 1) - 1 = n
      BY <2>2, StepsType
    <3> QED
      BY <2>1, <3>1
  <2> QED
    BY <2>1, <2>2, StepsType
<1> DEFINE G == {n \in Nat : n <= Steps => f[n] \in way /\ (f[n] = a \/ ahead(f[n]) + n <= Steps)}
<1> HIDE DEF way, ahead
<1>9. 0 \in G
  BY <1>1, <1>2, <1>8
<1>10. ASSUME NEW n \in Nat, n < Steps, n \in G
       PROVE  n + 1 \in G
  <2>1. f[n + 1] = Goes(f[n]) /\ f[n] \in way /\ (f[n] = a \/ ahead(f[n]) + n <= Steps)
    BY <1>8, <1>10, StepsType
  <2>2. CASE f[n] = a
    BY <1>1, <2>1, <2>2
  <2>3. CASE f[n] # a
    <3>1. Goes(f[n]) \in way /\ ahead(Goes(f[n])) + 1 <= ahead(f[n]) /\ ahead(f[n]) + n <= Steps
      BY <1>3, <2>1, <2>3
    <3>2. ahead(Goes(f[n])) \in Nat /\ ahead(f[n]) \in Nat
      BY <1>1, <1>2, <2>1, <3>1
    <3>3. ahead(f[n + 1]) + (n + 1) <= Steps /\ f[n + 1] \in way
      BY <2>1, <3>1, <3>2, StepsType
    <3> QED
      BY <3>3
  <2> QED
    BY <2>2, <2>3
<1>11. Steps \in G
  <2> HIDE DEF G
  <2> QED
    BY <1>9, <1>10, StepsType, Induction
<1>12. f[Steps] \in way /\ (f[Steps] = a \/ ahead(f[Steps]) + Steps <= Steps)
  BY <1>11, StepsType
<1>13. \A p \in way : ahead(p) # 0
  <2> SUFFICES ASSUME NEW p \in way PROVE ahead(p) # 0
    OBVIOUS
  <2>1. p \in Trail(map, p) /\ IsFiniteSet(Trail(map, p))
    BY <1>1, <1>2, TrailClosed
  <2> QED
    BY <2>1, FS_EmptySet DEF ahead
<1>14. f[Steps] = a
  BY <1>1, <1>2, <1>12, <1>13, StepsType
<1> QED
  BY <1>7, <1>14

(* On a way a visitor sees a page only where the document is.              *)
LEMMA OwedLands ==
  ASSUME AddressInv, WayInv, NEW q \in Paths, left[q].owed, Visible(left[q].doc)
  PROVE  Lands(q) = Address(left[q].doc)
<1> DEFINE d == left[q].doc  map == ActiveMap  a == Address(d)
<1>1. d \in Docs /\ Leads(d, Trail(map, q)) /\ map \in Maps /\ a \in Paths
  BY ActiveMapType, AddressType DEF WayInv, AddressInv, TypeOK
<1>2. Ends(map, q, a) /\ Trail(map, q) \subseteq Paths
  BY <1>1, TrailClosed DEF Leads, Ends
<1>3. Shown(a)
  BY <1>1 DEF Shown
<1>4. ASSUME NEW p \in Trail(map, q), p # a
      PROVE  ~ Shown(p)
  BY <1>1, <1>4 DEF Shown, Leads
<1>5. Goes(a) = a
  BY <1>1, <1>3 DEF Goes, Step
<1>6. ASSUME NEW p \in Trail(map, q) \ {a}
      PROVE  Goes(p) \in Trail(map, map[p])
  <2>1. Goes(p) = Follow(map, p)
    BY <1>2, <1>4, PathsAssumption DEF Goes, Step
  <2> HIDE DEF map, a
  <2> QED
    BY <1>1, <1>2, <2>1, FollowGoesOn
<1> HIDE DEF map, a
<1>7. Lands(q) = a
  BY <1>1, <1>2, <1>5, <1>6, VisitArrives
<1> QED
  BY <1>7 DEF a

(* An address that a published page has left leads to where it is now,     *)
(* through any number of renames of any number of documents.               *)
THEOREM FormerAddressesLand == Spec => []FormerAddressLands
<1>1. Init => AddressInv /\ WayInv
  BY AddressInit, WayInit
<1>2. AddressInv /\ WayInv /\ [Next]_vars => (AddressInv /\ WayInv)'
  <2> SUFFICES ASSUME AddressInv, WayInv, [Next]_vars PROVE AddressInv' /\ WayInv'
    OBVIOUS
  <2>1. AddressInv'
    BY AddressNext
  <2> QED
    BY <2>1, WayNext
<1>3. AddressInv /\ WayInv => FormerAddressLands
  BY OwedLands DEF FormerAddressLands
<1> QED
  BY <1>1, <1>2, <1>3, PTL DEF Spec

-----------------------------------------------------------------------------
(***************************************************************************)
(* Content: a document of the CMS, for every set of locales, texts and     *)
(* sessions and every number of revisions.                                 *)
(***************************************************************************)
(* What a handler remembers: it read the open revision, and what it is     *)
(* about to do was allowed when it read.                                   *)
EditorInv ==
  \A s \in Sessions : handler[s].op # "none" =>
    /\ handler[s].rev \in 1..last /\ handler[s].early
    /\ handler[s].op = "publish" => handler[s].to # {}
    /\ handler[s].op \in {"archive", "purge"} => ~isSystem
    /\ handler[s].op = "purge" => ~handler[s].history

(* Numbers not given out yet belong to open revisions, and a document with *)
(* a past shows it in a pointer.                                           *)
FreshInv    == \A r \in Revisions : r > last => ~frozen[r]
ReleasedInv == released /\ place # "purged" => \E l \in Locales : pointer[l] # 0

(* No removal is begun on a system page, so it keeps its place.            *)
SystemInv == isSystem => place = "live" /\ \A l \in Locales : pointer[l] # 0

ContentInv ==
  /\ ContentTypeOK
  /\ EditorInv /\ FreshInv /\ ReleasedInv
  /\ OneDraft /\ LiveIsFrozen /\ SystemInv

-----------------------------------------------------------------------------
(***************************************************************************)
(* Sessions.                                                               *)
(***************************************************************************)
stored == <<isSystem, place, draft, last, frozen, content, status, pointer,
            released>>

LEMMA EmptyType == Empty \in Content /\ AtRest \in Session
  BY ContentAssumption DEF Empty, Content, AtRest, Session

(* Reading puts the open revision into a handler and changes nothing else. *)
LEMMA BeginStep ==
  ASSUME ContentTypeOK, EditorInv, OneDraft, NEW s \in Sessions,
         NEW op \in {"save", "seo", "publish", "archive", "restore", "purge"},
         NEW copy \in Content, NEW to \in SUBSET Locales,
         Start(s, op, draft, copy, to),
         op = "publish" => to # {}, op \in {"archive", "purge"} => ~isSystem,
         op = "purge" => ~released
  PROVE  handler' \in [Sessions -> Session] /\ EditorInv' /\ UNCHANGED stored
<1> DEFINE new == [op |-> op, rev |-> draft, copy |-> copy, to |-> to,
                   early |-> ~frozen[draft], history |-> released]
<1>1. draft \in 1..last /\ draft \in Revisions /\ ~frozen[draft]
  BY ContentAssumption DEF ContentTypeOK, Revisions, OneDraft
<1>2. new \in Session
  BY <1>1, ContentAssumption DEF Session, ContentTypeOK, Revisions
<1>3. handler \in [Sessions -> Session] /\ handler' = [handler EXCEPT ![s] = new]
  BY DEF Start, ContentTypeOK
<1>4. UNCHANGED stored
  BY DEF Start, stored, document, revisions, locales
<1>5. EditorInv'
  <2> SUFFICES ASSUME NEW q \in Sessions, handler'[q].op # "none"
               PROVE  /\ handler'[q].rev \in 1..last /\ handler'[q].early
                      /\ handler'[q].op = "publish" => handler'[q].to # {}
                      /\ handler'[q].op \in {"archive", "purge"} => ~isSystem
                      /\ handler'[q].op = "purge" => ~handler'[q].history
    BY <1>4 DEF EditorInv, stored
  <2>1. CASE q = s
    <3>1. handler'[q] = new
      BY <1>3, <2>1
    <3>2. /\ new.rev = draft /\ new.op = op /\ new.to = to
          /\ new.history = released
      OBVIOUS
    <3>3. new.early = (~frozen[draft])
      OBVIOUS
    <3>4. new.early
      BY <1>1, <3>3, Zenon
    <3> HIDE DEF new
    <3>5. handler'[q].history = released
      BY <3>1, <3>2
    <3> QED
      BY <3>1, <3>2, <3>4, <3>5, <1>1
  <2>2. CASE q # s
    BY <1>3, <2>2 DEF EditorInv
  <2> QED
    BY <2>1, <2>2
<1> QED
  BY <1>2, <1>3, <1>4, <1>5

(* Finishing clears the handler.                                           *)
LEMMA FinishStep ==
  ASSUME ContentTypeOK, EditorInv, NEW s \in Sessions, Finish(s),
         last' \in Revisions, last' >= last, UNCHANGED isSystem
  PROVE  handler' \in [Sessions -> Session] /\ EditorInv'
<1>1. handler \in [Sessions -> Session] /\ handler' = [handler EXCEPT ![s] = AtRest]
  BY DEF Finish, ContentTypeOK
<1>2. handler' \in [Sessions -> Session]
  BY <1>1, EmptyType
<1>3. last \in Nat /\ last' \in Nat
  BY ContentAssumption DEF ContentTypeOK, Revisions
<1>4. \A q \in Sessions : handler'[q].op # "none" => handler'[q] = handler[q]
  BY <1>1 DEF AtRest
<1> QED
  BY <1>2, <1>3, <1>4 DEF EditorInv

(* The merge of updateSeo keeps the revision it read.                      *)
LEMMA LoadStep ==
  ASSUME ContentTypeOK, EditorInv, NEW s \in Sessions, SeoLoads(s)
  PROVE  handler' \in [Sessions -> Session] /\ EditorInv' /\ UNCHANGED stored
<1> DEFINE seo == [l \in Locales |->
                     IF l \in handler[s].to THEN handler[s].copy.seo[l]
                     ELSE content[handler[s].rev].seo[l]]
           new == [handler[s] EXCEPT !.op = "merge", !.copy.seo = seo]
<1>1. handler \in [Sessions -> Session] /\ handler[s].op = "seo"
  BY DEF SeoLoads, ContentTypeOK
<1>2. handler[s].copy \in Content /\ content[handler[s].rev] \in Content
  BY <1>1, ContentAssumption DEF EditorInv, Session, ContentTypeOK, Revisions
<1>3. seo \in [Locales -> Texts]
  BY <1>2 DEF Content
<1>4. handler' = [handler EXCEPT ![s] = new]
  BY <1>1 DEF SeoLoads
<1>5. new \in Session /\ new.op = "merge"
      /\ new.rev = handler[s].rev /\ new.early = handler[s].early
  <2> DEFINE copy == [handler[s].copy EXCEPT !.seo = seo]
  <2>1. copy \in Content
    <3> HIDE DEF seo
    <3> QED
      BY <1>2, <1>3 DEF Content
  <2>2. new = [handler[s] EXCEPT !.op = "merge", !.copy = copy]
    OBVIOUS
  <2>3. handler[s] \in Session
    BY <1>1
  <2> HIDE DEF copy, new
  <2> QED
    BY <2>1, <2>2, <2>3 DEF Session
<1>6. UNCHANGED stored
  BY DEF SeoLoads, stored, document, revisions, locales
<1>7. \A q \in Sessions : q # s => handler'[q] = handler[q]
  BY <1>1, <1>4
<1>8. handler'[s] = new
  BY <1>1, <1>4
<1> HIDE DEF new
<1> QED
  BY <1>1, <1>4, <1>5, <1>6, <1>7, <1>8 DEF EditorInv, stored

(* What a step may do: write the tables, or only read into a handler.      *)
LEMMA ContentSteps ==
  ASSUME ContentTypeOK, EditorInv, OneDraft, ReleasedInv, [ContentNext]_contentVars
  PROVE  \/ /\ handler' \in [Sessions -> Session] /\ EditorInv'
            /\ UNCHANGED stored /\ edits' \in Nat
         \/ \E s \in Sessions :
              SaveWrites(s) \/ SeoWrites(s) \/ PublishCommits(s)
              \/ ArchiveWrites(s) \/ RestoreWrites(s) \/ PurgeWrites(s)
         \/ ArchiveProject
         \/ \E L \in (SUBSET Locales) \ {{}} :
              Unpublish(L) \/ \E r \in Revisions : Rollback(r, L)
<1> DEFINE Reading == /\ handler' \in [Sessions -> Session] /\ EditorInv'
                      /\ UNCHANGED stored /\ edits' \in Nat
<1> USE ContentAssumption
<1>1. edits \in Nat /\ draft \in 1..last /\ content[draft] \in Content
  BY DEF ContentTypeOK, Revisions
<1>2. ASSUME NEW s \in Sessions, NEW t \in Texts, SaveReads(s, t)
      PROVE  Reading
  <2>1. [Empty EXCEPT !.blocks = t] \in Content
    BY EmptyType DEF Content
  <2> QED
    BY <1>1, <1>2, <2>1, BeginStep DEF SaveReads, Edit
<1>3. ASSUME NEW s \in Sessions, NEW t \in Texts, NEW l \in Locales,
             SeoReads(s, l, t)
      PROVE  Reading
  <2>1. [Empty EXCEPT !.seo[l] = t] \in Content
    BY DEF Content, Empty
  <2> QED
    BY <1>1, <1>3, <2>1, BeginStep DEF SeoReads, Edit
<1>4. ASSUME NEW s \in Sessions, NEW L \in (SUBSET Locales) \ {{}},
             PublishReads(s, L)
      PROVE  Reading
  <2>1. L \in SUBSET Locales /\ L # {}
    OBVIOUS
  <2>2. Start(s, "publish", draft, content[draft], L) /\ edits' = edits
    BY <1>4 DEF PublishReads
  <2> QED
    BY <1>1, <2>1, <2>2, BeginStep
<1>5. ASSUME NEW s \in Sessions, ArchiveReads(s)
      PROVE  Reading
  BY <1>1, <1>5, BeginStep, EmptyType DEF ArchiveReads, Removable
<1>6. ASSUME NEW s \in Sessions, RestoreReads(s)
      PROVE  Reading
  BY <1>1, <1>6, BeginStep, EmptyType DEF RestoreReads
<1>7. ASSUME NEW s \in Sessions, PurgeReads(s)
      PROVE  Reading
  <2>1. ~released /\ ~isSystem
    BY <1>7 DEF PurgeReads, NeverPublished, Removable, ReleasedInv, ContentTypeOK
  <2> QED
    BY <1>1, <1>7, <2>1, BeginStep, EmptyType DEF PurgeReads
<1>8. ASSUME NEW s \in Sessions, SeoLoads(s)
      PROVE  Reading
  BY <1>1, <1>8, LoadStep DEF SeoLoads
<1>9. ASSUME NEW s \in Sessions, PublishFails(s)
      PROVE  Reading
  <2>1. UNCHANGED stored /\ edits' \in Nat
    BY <1>1, <1>9 DEF PublishFails, stored, document, revisions, locales
  <2>2. last \in Revisions /\ last >= last
    BY DEF ContentTypeOK, Revisions
  <2> QED
    BY <1>9, <2>1, <2>2, FinishStep DEF PublishFails, stored
<1>10. CASE UNCHANGED contentVars
  BY <1>1, <1>10
  DEF contentVars, stored, document, revisions, locales, ContentTypeOK, EditorInv
<1> QED
  BY <1>2, <1>3, <1>4, <1>5, <1>6, <1>7, <1>8, <1>9, <1>10 DEF ContentNext

-----------------------------------------------------------------------------
(***************************************************************************)
(* The writing steps, one lemma each.                                      *)
(***************************************************************************)
(* A step that leaves the tables alone keeps what is said of them.         *)
LEMMA ReadingStep ==
  ASSUME ContentInv, handler' \in [Sessions -> Session], EditorInv',
         UNCHANGED stored, edits' \in Nat
  PROVE  ContentInv'
  BY DEF ContentInv, stored, ContentTypeOK, OneDraft, FreshInv, LiveIsFrozen, ReleasedInv,
         SystemInv

(* A text written into the revision the handler read: no pointer moves.    *)
LEMMA TextStep ==
  ASSUME ContentInv, NEW s \in Sessions, SaveWrites(s) \/ SeoWrites(s)
  PROVE  ContentInv'
<1> USE DEF ContentAssumption, ContentInv
<1>1. /\ Finish(s) /\ handler[s] \in Session /\ handler[s].op # "none"
      /\ UNCHANGED <<isSystem, place, draft, last, frozen, status, pointer,
                     released, edits>>
  BY DEF SaveWrites, SeoWrites, document, locales, ContentTypeOK
<1>2. handler' \in [Sessions -> Session] /\ EditorInv'
  <2>1. last' \in Revisions /\ last' >= last
    BY <1>1 DEF ContentTypeOK, Revisions
  <2> QED
    BY <1>1, <2>1, FinishStep
<1>3. content' \in [Revisions -> Content]
  <2> DEFINE r == handler[s].rev
             x == handler[s].copy
  <2>1. r \in Revisions /\ x.blocks \in Texts /\ x.seo \in [Locales -> Texts]
    <3>1. x \in Content
      BY <1>1 DEF Session
    <3>2. r \in 1..last /\ last \in Revisions
      BY <1>1 DEF EditorInv, ContentTypeOK
    <3> QED
      BY <3>1, <3>2, ContentAssumption DEF Content, Revisions
  <2>2. content \in [Revisions -> [blocks : Texts, seo : [Locales -> Texts]]]
    BY DEF ContentTypeOK, Content
  <2>3. \/ content' = content
        \/ content' = [content EXCEPT ![r].blocks = x.blocks]
        \/ content' = [content EXCEPT ![r].seo = x.seo]
    BY DEF SaveWrites, SeoWrites
  <2> HIDE DEF r, x
  <2>4. [content EXCEPT ![r].blocks = x.blocks]
          \in [Revisions -> [blocks : Texts, seo : [Locales -> Texts]]]
    BY <2>1, <2>2
  <2>5. [content EXCEPT ![r].seo = x.seo]
          \in [Revisions -> [blocks : Texts, seo : [Locales -> Texts]]]
    BY <2>1, <2>2
  <2> QED
    BY <2>2, <2>3, <2>4, <2>5 DEF Content
<1>4. ContentTypeOK'
  BY <1>1, <1>2, <1>3 DEF ContentTypeOK
<1> QED
  BY <1>1, <1>2, <1>4 DEF OneDraft, FreshInv, LiveIsFrozen, ReleasedInv,
                          SystemInv

(* The commit of a publication: the index lets it through only when the    *)
(* revision it read is still the draft.                                    *)
LEMMA PublishStep ==
  ASSUME ContentInv, NEW s \in Sessions, PublishCommits(s)
  PROVE  ContentInv'
<1> DEFINE r == handler[s].rev
           L == handler[s].to
<1> USE DEF ContentAssumption, ContentInv
<1>1. /\ handler[s] \in Session /\ handler[s].op = "publish"
      /\ place # "purged" /\ ~OpensSecondDraft(s) /\ Finish(s)
      /\ last < MaxRevisions /\ last' = last + 1 /\ draft' = last + 1
      /\ frozen' = [frozen EXCEPT ![r] = TRUE]
      /\ status' = [l \in Locales |->
                      IF l \in L THEN "published" ELSE status[l]]
      /\ pointer' = [l \in Locales |-> IF l \in L THEN r ELSE pointer[l]]
      /\ released' = TRUE
      /\ UNCHANGED <<isSystem, place, edits>>
  BY DEF PublishCommits, NewDraft, ContentTypeOK
<1>2. /\ last \in Nat /\ last >= 1 /\ MaxRevisions \in Nat
      /\ r \in 1..last /\ r \in Revisions /\ last + 1 \in Revisions
      /\ L \in SUBSET Locales /\ L # {}
  BY <1>1, ContentAssumption DEF ContentTypeOK, Revisions, EditorInv, Session
<1>3. r = draft
  BY <1>1, <1>2 DEF OpensSecondDraft, OneDraft, ContentTypeOK
<1>4. handler' \in [Sessions -> Session] /\ EditorInv'
  <2>1. last' \in Revisions /\ last' >= last
    BY <1>1, <1>2
  <2> QED
    BY <1>1, <2>1, FinishStep
<1>5. content' \in [Revisions -> Content]
  <2>1. handler[s].copy \in Content
    BY <1>1 DEF Session
  <2>2. content' = [content EXCEPT ![last + 1] = handler[s].copy]
    BY DEF PublishCommits
  <2> QED
    BY <1>2, <2>1, <2>2 DEF ContentTypeOK
<1> HIDE DEF r, L
<1>6. ContentTypeOK'
  <2>1. frozen' \in [Revisions -> BOOLEAN]
    BY <1>1, <1>2 DEF ContentTypeOK
  <2>2. status' \in [Locales -> {"draft", "published", "archived"}]
    BY <1>1 DEF ContentTypeOK
  <2>3. pointer' \in [Locales -> 0..last']
    BY <1>1, <1>2 DEF ContentTypeOK
  <2> QED
    BY <1>1, <1>2, <1>4, <1>5, <2>1, <2>2, <2>3 DEF ContentTypeOK
<1>7. OneDraft'
  <2> SUFFICES ASSUME NEW q \in 1..(last + 1)
               PROVE  ~frozen'[q] <=> q = last + 1
    BY <1>1 DEF OneDraft
  <2>1. CASE q = last + 1
    <3>1. q \in Revisions /\ q > last /\ q # r
      BY <1>2, <2>1
    <3>2. ~frozen[q] /\ frozen'[q] = frozen[q]
      BY <1>1, <3>1 DEF FreshInv, ContentTypeOK
    <3> QED
      BY <2>1, <3>2
  <2>2. CASE q # last + 1
    <3>1. q \in 1..last /\ q \in Revisions
      BY <1>2, <2>2 DEF Revisions
    <3>2. CASE q = r
      BY <1>1, <1>2, <2>2, <3>2 DEF ContentTypeOK
    <3>3. CASE q # r
      <4>1. frozen[q]
        BY <1>3, <3>1, <3>3 DEF OneDraft
      <4> QED
        BY <1>1, <2>2, <3>1, <3>3, <4>1 DEF ContentTypeOK
    <3> QED
      BY <3>2, <3>3
  <2> QED
    BY <2>1, <2>2
<1>8. FreshInv'
  BY <1>1, <1>2 DEF FreshInv, ContentTypeOK, Revisions
<1>9. LiveIsFrozen'
  <2> SUFFICES ASSUME NEW l \in Locales, pointer'[l] # 0
               PROVE  frozen'[pointer'[l]]
    BY DEF LiveIsFrozen
  <2>1. CASE l \in L
    BY <1>1, <1>2, <2>1 DEF ContentTypeOK
  <2>2. CASE l \notin L
    <3>1. pointer'[l] = pointer[l] /\ pointer[l] \in Revisions
      BY <1>1, <1>2, <2>2 DEF ContentTypeOK, Revisions
    <3> QED
      BY <1>1, <3>1 DEF LiveIsFrozen, ContentTypeOK
  <2> QED
    BY <2>1, <2>2
<1>10. ReleasedInv' /\ SystemInv'
  BY <1>1, <1>2 DEF ReleasedInv, SystemInv
<1> QED
  BY <1>4, <1>6, <1>7, <1>8, <1>9, <1>10

(* The removals: archiving and purging are never begun on a system page.   *)
LEMMA RemovalStep ==
  ASSUME ContentInv, NEW s \in Sessions,
         ArchiveWrites(s) \/ RestoreWrites(s) \/ PurgeWrites(s)
  PROVE  ContentInv'
<1> USE DEF ContentAssumption, ContentInv
<1>1. /\ Finish(s) /\ handler[s].op # "none"
      /\ UNCHANGED <<isSystem, draft, last, frozen, content, released, edits>>
  BY DEF ArchiveWrites, RestoreWrites, PurgeWrites, revisions
<1>2. handler' \in [Sessions -> Session] /\ EditorInv'
  <2>1. last' \in Revisions /\ last' >= last
    BY <1>1 DEF ContentTypeOK, Revisions
  <2> QED
    BY <1>1, <2>1, FinishStep
<1>3. ASSUME ArchiveWrites(s)
      PROVE  /\ place' \in {"archived", "purged"} /\ ~isSystem
             /\ place' = "purged" <=> place = "purged" /\ pointer' = pointer
             /\ status' \in [Locales -> {"draft", "published", "archived"}]
  BY <1>3 DEF ArchiveWrites, EditorInv, OffSite, ContentTypeOK
<1>4. ASSUME RestoreWrites(s)
      PROVE  /\ place' \in {"live", "purged"} /\ UNCHANGED <<status, pointer>>
             /\ place' = "purged" <=> place = "purged"
  BY <1>4 DEF RestoreWrites, locales
<1>5. ASSUME PurgeWrites(s)
      PROVE  /\ place' = "purged" /\ ~isSystem /\ status' = status
             /\ pointer' = [l \in Locales |-> 0]
  BY <1>5 DEF PurgeWrites, EditorInv
<1>6. ContentTypeOK'
  <2>1. place' \in {"live", "archived", "purged"}
    BY <1>3, <1>4, <1>5
  <2>2. status' \in [Locales -> {"draft", "published", "archived"}]
    BY <1>3, <1>4, <1>5 DEF ContentTypeOK
  <2>3. pointer' \in [Locales -> 0..last]
    <3>1. pointer' = pointer \/ pointer' = [l \in Locales |-> 0]
      BY DEF ArchiveWrites, RestoreWrites, PurgeWrites, locales
    <3> QED
      BY <3>1 DEF ContentTypeOK, Revisions
  <2> QED
    BY <1>1, <1>2, <2>1, <2>2, <2>3 DEF ContentTypeOK
<1>7. pointer' = pointer \/ (place' = "purged" /\ \A l \in Locales : pointer'[l] = 0)
  BY <1>5 DEF ArchiveWrites, RestoreWrites, locales
<1>8. OneDraft' /\ FreshInv' /\ LiveIsFrozen'
  BY <1>1, <1>7 DEF OneDraft, FreshInv, LiveIsFrozen
<1>9. ReleasedInv'
  <2>1. place' # "purged" => place # "purged"
    BY DEF ArchiveWrites, RestoreWrites, PurgeWrites
  <2> QED
    BY <1>1, <1>7, <2>1 DEF ReleasedInv
<1>10. SystemInv'
  BY <1>1, <1>3, <1>4, <1>5 DEF SystemInv
<1> QED
  BY <1>2, <1>6, <1>8, <1>9, <1>10

(* The single-statement writes: off the site, and back to an old revision. *)
LEMMA PointerStep ==
  ASSUME ContentInv, NEW L \in (SUBSET Locales) \ {{}},
         Unpublish(L) \/ \E r \in Revisions : Rollback(r, L)
  PROVE  ContentInv'
<1> USE DEF ContentAssumption, ContentInv
<1>1. /\ UNCHANGED <<isSystem, place, draft, last, frozen, content, handler,
                     edits>>
      /\ status' \in [Locales -> {"draft", "published", "archived"}]
  BY DEF Unpublish, Rollback, document, revisions, OffSite, ContentTypeOK
<1>2. EditorInv'
  BY <1>1 DEF EditorInv
<1>3. CASE Unpublish(L)
  <2>1. ~isSystem /\ UNCHANGED <<pointer, released>>
    BY <1>3 DEF Unpublish, Removable
  <2> QED
    BY <1>1, <1>2, <2>1 DEF ContentTypeOK, OneDraft, FreshInv, LiveIsFrozen,
                            ReleasedInv, SystemInv
<1>4. ASSUME NEW r \in Revisions, Rollback(r, L)
      PROVE  ContentInv'
  <2>1. /\ r <= last /\ frozen[r] /\ released' = TRUE /\ r # 0
        /\ pointer' = [l \in Locales |-> IF l \in L THEN r ELSE pointer[l]]
        /\ status' = [l \in Locales |->
                        IF l \in L THEN "published" ELSE status[l]]
    BY <1>4 DEF Rollback, Restorable, Revisions
  <2>2. pointer' \in [Locales -> 0..last]
    BY <2>1 DEF ContentTypeOK, Revisions
  <2>3. ContentTypeOK'
    BY <1>1, <2>1, <2>2 DEF ContentTypeOK
  <2>4. OneDraft' /\ FreshInv' /\ LiveIsFrozen'
    BY <1>1, <2>1 DEF OneDraft, FreshInv, LiveIsFrozen
  <2>5. ReleasedInv' /\ SystemInv'
    BY <1>1, <2>1 DEF ReleasedInv, SystemInv
  <2> QED
    BY <1>2, <2>3, <2>4, <2>5
<1> QED
  BY <1>3, <1>4

LEMMA ArchiveProjectStep ==
  ASSUME ContentInv, ArchiveProject
  PROVE  ContentInv'
<1> USE DEF ContentInv
<1>1. /\ UNCHANGED <<isSystem, place, draft, last, frozen, content, pointer,
                     handler, released, edits>>
      /\ status' \in [Locales -> {"draft", "published", "archived"}]
  BY DEF ArchiveProject, document, revisions, OffSite
<1>2. ContentTypeOK' /\ EditorInv'
  BY <1>1 DEF ContentTypeOK, EditorInv
<1> QED
  BY <1>1, <1>2 DEF OneDraft, FreshInv, LiveIsFrozen, ReleasedInv, SystemInv

-----------------------------------------------------------------------------
(* The invariant is inductive.                                             *)
LEMMA ContentPreserved == ContentInv /\ [ContentNext]_contentVars => ContentInv'
<1> SUFFICES ASSUME ContentInv, [ContentNext]_contentVars
             PROVE  ContentInv'
  OBVIOUS
<1>1. ContentTypeOK /\ EditorInv /\ OneDraft /\ ReleasedInv
  BY DEF ContentInv
<1> QED
  BY <1>1, ContentSteps, ReadingStep, TextStep, PublishStep, RemovalStep, PointerStep,
     ArchiveProjectStep

LEMMA ContentInitially == ContentInit => ContentInv
<1> SUFFICES ASSUME ContentInit
             PROVE  ContentInv
  OBVIOUS
<1> USE ContentAssumption
<1>0. \/ /\ draft = 1 /\ last = 1
         /\ frozen = [r \in Revisions |-> FALSE]
         /\ status = [l \in Locales |-> "draft"]
         /\ pointer = [l \in Locales |-> 0]
      \/ /\ draft = 2 /\ last = 2
         /\ frozen = [r \in Revisions |-> r = 1]
         /\ status = [l \in Locales |-> "published"]
         /\ pointer = [l \in Locales |-> 1]
  BY DEF ContentInit
<1>1. ContentTypeOK
  <2>1. content \in [Revisions -> Content] /\ handler \in [Sessions -> Session]
    BY EmptyType DEF ContentInit
  <2>2. /\ last \in Revisions /\ draft \in 1..last
        /\ pointer \in [Locales -> 0..last]
        /\ status \in [Locales -> {"draft", "published", "archived"}]
    BY <1>0 DEF Revisions
  <2>3. frozen \in [Revisions -> BOOLEAN]
    BY <1>0, Zenon
  <2> QED
    BY <2>1, <2>2, <2>3 DEF ContentInit, ContentTypeOK
<1>2. EditorInv
  BY DEF ContentInit, EditorInv, AtRest
<1>3. OneDraft /\ FreshInv /\ LiveIsFrozen
  <2>1. \/ /\ draft = 1 /\ last = 1
           /\ \A r \in Revisions : ~frozen[r]
           /\ \A l \in Locales : pointer[l] = 0
        \/ /\ draft = 2 /\ last = 2
           /\ \A r \in Revisions : frozen[r] <=> r = 1
           /\ \A l \in Locales : pointer[l] = 1
    BY <1>0, Zenon
  <2> QED
    BY <2>1 DEF OneDraft, FreshInv, LiveIsFrozen, Revisions
<1>4. ReleasedInv /\ SystemInv
  BY DEF ContentInit, ReleasedInv, SystemInv
<1> QED
  BY <1>1, <1>2, <1>3, <1>4 DEF ContentInv

(* The strengthened invariant of a document is inductive.                  *)
THEOREM ContentInductive == ContentSpec => []ContentInv
  BY ContentInitially, ContentPreserved, PTL DEF ContentSpec

(* Every column, handler and ghost of a document keeps its type.           *)
THEOREM ContentTypes == ContentSpec => []ContentTypeOK
<1>1. ContentInv => ContentTypeOK
  BY DEF ContentInv
<1> QED
  BY <1>1, ContentInductive, PTL

(* However publications race, there is one open draft and the document     *)
(* points at it.                                                           *)
THEOREM AlwaysOneDraft == ContentSpec => []OneDraft
<1>1. ContentInv => OneDraft
  BY DEF ContentInv
<1> QED
  BY <1>1, ContentInductive, PTL

(* What a locale publishes is never the draft somebody is editing.         *)
THEOREM PublishedIsFrozen == ContentSpec => []LiveIsFrozen
<1>1. ContentInv => LiveIsFrozen
  BY DEF ContentInv
<1> QED
  BY <1>1, ContentInductive, PTL

(* No purge is decided on a document that was ever published.              *)
THEOREM HistorySpared == ContentSpec => []PurgeSparesHistory
<1>1. ContentInv => PurgeSparesHistory
  BY DEF ContentInv, EditorInv, PurgeSparesHistory
<1> QED
  BY <1>1, ContentInductive, PTL

(* A system page leaves the site in no other way than by archiveProject:   *)
(* unpublishDocument spares it, no archiving or purge of it is ever begun, *)
(* and no publication, rollback or restoration takes a locale down.        *)
THEOREM SystemPagesStay == ContentSpec => SystemPageFallsOnlyToArchiveProject
<1> DEFINE Fall == isSystem /\ (\E l \in Locales : OnSite(l) /\ ~OnSite(l)')
                     => ArchiveProject
<1>1. ContentInv /\ [ContentNext]_contentVars => Fall
  <2> SUFFICES ASSUME ContentInv, [ContentNext]_contentVars, isSystem,
                      NEW l \in Locales, OnSite(l), ~OnSite(l)'
               PROVE  ArchiveProject
    OBVIOUS
  <2> USE DEF ContentInv
  <2>1. ASSUME NEW s \in Sessions, SaveWrites(s) \/ SeoWrites(s) PROVE FALSE
    BY <2>1 DEF SaveWrites, SeoWrites, document, locales, OnSite
  <2>2. ASSUME NEW s \in Sessions, PublishCommits(s) PROVE FALSE
    <3>1. handler[s].rev # 0
      BY <2>2 DEF PublishCommits, EditorInv, ContentTypeOK, Revisions
    <3> QED
      BY <2>2, <3>1 DEF PublishCommits, OnSite
  <2>3. ASSUME NEW s \in Sessions, ArchiveWrites(s) \/ PurgeWrites(s) PROVE FALSE
    BY <2>3 DEF ArchiveWrites, PurgeWrites, EditorInv
  <2>4. ASSUME NEW s \in Sessions, RestoreWrites(s) PROVE FALSE
    BY <2>4 DEF RestoreWrites, locales, OnSite
  <2>5. ASSUME NEW L \in (SUBSET Locales) \ {{}}, Unpublish(L) PROVE FALSE
    BY <2>5 DEF Unpublish, Removable
  <2>6. ASSUME NEW L \in (SUBSET Locales) \ {{}}, NEW r \in Revisions, Rollback(r, L)
        PROVE  FALSE
    BY <2>6 DEF Rollback, document, OnSite, Revisions
  <2>7. ~UNCHANGED stored
    BY DEF stored, OnSite
  <2>8. ContentTypeOK /\ EditorInv /\ OneDraft /\ ReleasedInv
    OBVIOUS
  <2> QED
    BY <2>1, <2>2, <2>3, <2>4, <2>5, <2>6, <2>7, <2>8, ContentSteps
<1> QED
  BY <1>1, ContentInductive, PTL DEF ContentSpec, SystemPageFallsOnlyToArchiveProject

(* A frozen revision is written only by a save that read the draft pointer *)
(* before the revision was frozen.                                         *)
THEOREM FrozenOnlyEarly == ContentSpec => FrozenWrittenOnlyByEarlyReaders
<1> DEFINE Early == \A r \in Revisions : frozen[r] /\ content'[r] # content[r] =>
             \E s \in Sessions : /\ handler[s].op \in {"save", "merge"}
                                 /\ handler[s].rev = r /\ handler[s].early
                                 /\ handler'[s] = AtRest
<1>1. ContentInv /\ [ContentNext]_contentVars => Early
  <2> SUFFICES ASSUME ContentInv, [ContentNext]_contentVars, NEW r \in Revisions, frozen[r],
                      content'[r] # content[r]
               PROVE  \E s \in Sessions :
                        /\ handler[s].op \in {"save", "merge"}
                        /\ handler[s].rev = r /\ handler[s].early
                        /\ handler'[s] = AtRest
    OBVIOUS
  <2> USE DEF ContentAssumption, ContentInv
  <2>1. ASSUME NEW s \in Sessions, SaveWrites(s) \/ SeoWrites(s)
        PROVE  /\ handler[s].op \in {"save", "merge"}
               /\ handler[s].rev = r /\ handler[s].early /\ handler'[s] = AtRest
    <3>1. handler[s].op \in {"save", "merge"} /\ handler'[s] = AtRest
      BY <2>1 DEF SaveWrites, SeoWrites, Finish, ContentTypeOK
    <3>2. handler[s].rev = r
      BY <2>1 DEF SaveWrites, SeoWrites, ContentTypeOK
    <3> QED
      BY <3>1, <3>2 DEF EditorInv
  <2>2. ASSUME NEW s \in Sessions, PublishCommits(s)
        PROVE  FALSE
    <3>1. last + 1 \in Revisions /\ last \in Nat /\ r = last + 1
      BY <2>2 DEF PublishCommits, ContentTypeOK, Revisions
    <3> QED
      BY <3>1 DEF FreshInv
  <2>3. ASSUME NEW s \in Sessions,
               ArchiveWrites(s) \/ RestoreWrites(s) \/ PurgeWrites(s)
        PROVE  FALSE
    BY <2>3 DEF ArchiveWrites, RestoreWrites, PurgeWrites, revisions
  <2>4. ASSUME NEW L \in (SUBSET Locales) \ {{}},
               Unpublish(L) \/ \E q \in Revisions : Rollback(q, L)
        PROVE  FALSE
    BY <2>4 DEF Unpublish, Rollback, revisions
  <2>7. ~ArchiveProject
    BY DEF ArchiveProject, revisions
  <2>5. content' # content /\ ~UNCHANGED stored
    BY DEF stored
  <2>6. ContentTypeOK /\ EditorInv /\ OneDraft /\ ReleasedInv
    OBVIOUS
  <2> QED
    BY <2>1, <2>2, <2>3, <2>4, <2>7, <2>5, <2>6, ContentSteps
<1> QED
  BY <1>1, ContentInductive, PTL DEF ContentSpec, FrozenWrittenOnlyByEarlyReaders
=============================================================================
