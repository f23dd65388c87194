---------------------------- MODULE CreditProofs ----------------------------
(***************************************************************************)
(* What the miner credits: the trails between a failure and its            *)
(* validation, the verdict, and what a credited repair has behind it.      *)
(***************************************************************************)
EXTENDS BootstrapProofs, WellFoundedInduction

-----------------------------------------------------------------------------
(***************************************************************************)
(* Trails.                                                                 *)
(***************************************************************************)

\* A nonempty set of numbers up to n has a least and a greatest one.
LEMMA Extremes ==
  ASSUME NEW n \in Nat, NEW K \in SUBSET (0..n), K # {}
  PROVE  /\ \E m \in K : \A k \in K : m <= k
         /\ \E m \in K : \A k \in K : k <= m
<1> DEFINE S == 0..n
           below == {0..k : k \in K}
           above == {k..n : k \in K}
<1>1. IsWellFoundedOn(StrictSubsetOrdering(S), FiniteSubsetsOf(S))
  BY FS_StrictSubsetOrderingWellFounded
<1>2. IsFiniteSet(S)
  BY FS_Interval
<1>3. below \subseteq FiniteSubsetsOf(S) /\ above \subseteq FiniteSubsetsOf(S)
  <2>1. \A T \in SUBSET S : T \in FiniteSubsetsOf(S)
    BY <1>2, FS_Subset DEF FiniteSubsetsOf
  <2>2. \A k \in K : 0..k \in SUBSET S /\ k..n \in SUBSET S
    OBVIOUS
  <2> QED BY <2>1, <2>2
<1>0. below # {} /\ above # {}
  OBVIOUS
<1> HIDE DEF below, above
<1>4. PICK s \in below : \A t \in below : ~(<<t, s>> \in StrictSubsetOrdering(S))
  BY <1>0, <1>1, <1>3, WFMin
<1>5. PICK u \in above : \A t \in above : ~(<<t, u>> \in StrictSubsetOrdering(S))
  BY <1>0, <1>1, <1>3, WFMin
<1>6. PICK m \in K : s = 0..m
  BY <1>4 DEF below
<1>7. PICK l \in K : u = l..n
  BY <1>5 DEF above
<1>8. ASSUME NEW k \in K, k < m PROVE FALSE
  <2>1. 0..k \subseteq 0..m /\ m \in 0..m /\ m \notin 0..k /\ 0..k \in SUBSET S /\ 0..m \in SUBSET S
    BY <1>8
  <2>2. <<0..k, s>> \in StrictSubsetOrdering(S)
    BY <1>6, <2>1 DEF StrictSubsetOrdering
  <2> QED BY <1>4, <2>2 DEF below
<1>9. ASSUME NEW k \in K, l < k PROVE FALSE
  <2>1. k..n \subseteq l..n /\ l \in l..n /\ l \notin k..n /\ k..n \in SUBSET S /\ l..n \in SUBSET S
    BY <1>9
  <2>2. <<k..n, u>> \in StrictSubsetOrdering(S)
    BY <1>7, <2>1 DEF StrictSubsetOrdering
  <2> QED BY <1>5, <2>2 DEF above
<1> QED BY <1>8, <1>9

\* Each revision of a trail has the one before it among its parents.
Chained(t, before, parents) ==
  \A i \in 1..Len(t) :
    (IF i = 1 THEN before ELSE t[i - 1]) \in ToSet(parents[t[i]])

\* The trails of each length are the chained sequences, a finite number.
LEMMA TrailsAre ==
  ASSUME NEW before, NEW parents, IsFiniteSet(DOMAIN parents)
  PROVE  /\ DOMAIN Trails(before, parents) = 0..Cardinality(DOMAIN parents)
         /\ \A n \in 0..Cardinality(DOMAIN parents) :
              /\ IsFiniteSet(Trails(before, parents)[n])
              /\ Trails(before, parents)[n] =
                   {t \in Seq(DOMAIN parents) : Len(t) = n /\ Chained(t, before, parents)}
<1> DEFINE D == DOMAIN parents
           N == Cardinality(D)
           Longer(X) ==
             {Append(x[1], x[2]) :
                x \in {y \in X \X D : End(y[1], before) \in ToSet(parents[y[2]])}}
           Def(f) == f = [n \in 0..N |-> IF n = 0 THEN {<<>>} ELSE Longer(f[n - 1])]
           Of == CHOOSE f : Def(f)
           Chains(n) == {t \in Seq(D) : Len(t) = n /\ Chained(t, before, parents)}
           G == [n \in 0..N |-> Chains(n)]
<1>0. N \in Nat
  BY FS_CardinalityType
<1>1. Trails(before, parents) = Of
  BY DEF Trails
<1>2. Chains(0) = {<<>>}
  <2>1. <<>> \in Seq(D) /\ Len(<<>>) = 0 /\ \A t \in Seq(D) : Len(t) = 0 => t = <<>>
    BY EmptySeq
  <2>2. Chained(<<>>, before, parents)
    BY DEF Chained
  <2> QED BY <2>1, <2>2
<1>3. ASSUME NEW n \in 1..N PROVE Chains(n) = Longer(Chains(n - 1))
  <2>1. ASSUME NEW t \in Chains(n - 1), NEW r \in D, End(t, before) \in ToSet(parents[r])
        PROVE  Append(t, r) \in Chains(n)
    <3>1. t \in Seq(D) /\ Len(t) = n - 1
      OBVIOUS
    <3>2. /\ Append(t, r) \in Seq(D) /\ Len(Append(t, r)) = n
          /\ \A i \in 1..(n - 1) : Append(t, r)[i] = t[i]
          /\ Append(t, r)[n] = r
      BY <3>1, AppendProperties
    <3>3. End(t, before) = IF n = 1 THEN before ELSE t[n - 1]
      BY <3>1, EmptySeq DEF End, Last
    <3> DEFINE s == Append(t, r)
    <3> HIDE DEF s
    <3>4. ASSUME NEW i \in 1..n
          PROVE  (IF i = 1 THEN before ELSE s[i - 1]) \in ToSet(parents[s[i]])
      <4>1. CASE i = n
        BY <2>1, <3>2, <3>3, <4>1 DEF s
      <4>2. CASE i # n
        <5>1. i \in 1..(n - 1) /\ s[i] = t[i] /\ (i # 1 => s[i - 1] = t[i - 1])
          BY <3>2, <4>2 DEF s
        <5> QED BY <3>1, <5>1 DEF Chained
      <4> QED BY <4>1, <4>2
    <3> QED BY <3>2, <3>4 DEF Chained, s
  <2>2. ASSUME NEW t \in Chains(n)
        PROVE  t \in Longer(Chains(n - 1))
    <3> DEFINE s == Front(t)
               r == t[n]
    <3>1. t \in Seq(D) /\ Len(t) = n /\ t # <<>>
      BY EmptySeq
    <3>2. s \in Seq(D) /\ Len(s) = n - 1 /\ \A i \in 1..(n - 1) : s[i] = t[i]
      BY <3>1, FrontProperties
    <3>3. r \in D
      BY <3>1, ElementOfSeq
    <3>4. End(s, before) = IF n = 1 THEN before ELSE t[n - 1]
      BY <3>2, EmptySeq DEF End, Last
    <3>5. t = Append(s, r)
      <4>1. /\ Append(s, r) \in Seq(D) /\ Len(Append(s, r)) = n
            /\ \A i \in 1..(n - 1) : Append(s, r)[i] = s[i]
            /\ Append(s, r)[n] = r
        BY <3>2, <3>3, AppendProperties
      <4> HIDE DEF s
      <4>2. \A i \in 1..Len(t) : t[i] = Append(s, r)[i]
        BY <3>1, <3>2, <4>1
      <4> QED BY <3>1, <4>1, <4>2, SeqEqual
    <3> HIDE DEF s
    <3>6. Chained(s, before, parents)
      <4>1. ASSUME NEW i \in 1..(n - 1)
            PROVE  (IF i = 1 THEN before ELSE s[i - 1]) \in ToSet(parents[s[i]])
        <5>1. s[i] = t[i] /\ (i # 1 => s[i - 1] = t[i - 1]) /\ i \in 1..Len(t)
          BY <3>1, <3>2
        <5> QED BY <5>1 DEF Chained
      <4> QED BY <3>2, <4>1 DEF Chained
    <3>7. End(s, before) \in ToSet(parents[r])
      <4>1. n \in 1..Len(t)
        BY <3>1
      <4> QED BY <3>4, <4>1 DEF Chained
    <3>8. <<s, r>> \in {y \in Chains(n - 1) \X D : End(y[1], before) \in ToSet(parents[y[2]])}
      BY <3>2, <3>3, <3>6, <3>7
    <3> QED BY <3>5, <3>8
  <2>3. Longer(Chains(n - 1)) \subseteq Chains(n)
    <3> HIDE DEF Chains
    <3> QED BY <2>1
  <2> QED BY <2>2, <2>3
<1>4. Def(G)
  <2> HIDE DEF Chains, Longer
  <2>1. \A n \in 0..N : Chains(n) = IF n = 0 THEN {<<>>} ELSE Longer(G[n - 1])
    BY <1>0, <1>2, <1>3
  <2> QED BY <2>1
<1>5. Def(Of)
  <2> HIDE DEF Def
  <2> QED BY <1>4
<1> HIDE DEF Of
<1> DEFINE bad == {n \in 0..N : Of[n] # Chains(n)}
<1>6. bad = {}
  <2> SUFFICES ASSUME bad # {} PROVE FALSE
    OBVIOUS
  <2>1. PICK n \in bad : \A k \in bad : n <= k
    BY <1>0, Extremes
  <2>2. CASE n = 0
    BY <1>2, <1>5, <2>2
  <2>3. CASE n # 0
    <3>1. n - 1 \in 0..N /\ n \in 1..N
      BY <1>0, <2>3
    <3>2. Of[n - 1] = Chains(n - 1)
      BY <2>1, <3>1
    <3>3. Of[n] = Longer(Of[n - 1])
      BY <1>5, <2>3
    <3> HIDE DEF Longer, Chains
    <3> QED BY <1>3, <3>1, <3>2, <3>3
  <2> QED BY <2>2, <2>3
<1>7. DOMAIN Of = 0..N
  BY <1>5
<1> DEFINE many == {n \in 0..N : ~IsFiniteSet(Of[n])}
<1>8. many = {}
  <2> SUFFICES ASSUME many # {} PROVE FALSE
    OBVIOUS
  <2>1. PICK n \in many : \A k \in many : n <= k
    BY <1>0, Extremes
  <2>2. CASE n = 0
    <3>1. Of[n] = {<<>>}
      BY <1>0, <1>5, <2>2
    <3>2. IsFiniteSet({<<>>})
      BY FS_Singleton
    <3> QED BY <2>1, <3>1, <3>2
  <2>3. CASE n # 0
    <3> DEFINE X == Of[n - 1]
               Y == {y \in X \X D : End(y[1], before) \in ToSet(parents[y[2]])}
               f == [y \in Y |-> Append(y[1], y[2])]
    <3>1. n - 1 \in 0..N /\ IsFiniteSet(X)
      BY <1>0, <2>1, <2>3
    <3>2. Of[n] = Longer(X)
      BY <1>5, <2>3
    <3>3. Longer(X) = {f[y] : y \in Y}
      OBVIOUS
    <3> HIDE DEF X
    <3>4. IsFiniteSet(Y)
      BY <3>1, FS_Product, FS_Subset
    <3> HIDE DEF f, Y, Longer
    <3>5. IsFiniteSet({f[y] : y \in Y})
      BY <3>4, ImageFinite
    <3> QED BY <2>1, <3>2, <3>3, <3>5
  <2> QED BY <2>2, <2>3
<1> QED BY <1>1, <1>6, <1>7, <1>8

-----------------------------------------------------------------------------
(***************************************************************************)
(* Ways: the trails that lead from one commit of a harvest to another.     *)
(***************************************************************************)

\* Where a trail is after i commits.
Stop(t, before, i) == IF i = 0 THEN before ELSE t[i]

Linked(t, before) ==
  \A i \in 1..Len(t) : Stop(t, before, i - 1) \in ToSet(Shape[t[i]].parents)

Ways(before, after, h) ==
  {t \in Seq(h.commits) : t # <<>> /\ Linked(t, before) /\ t[Len(t)] = after}

\* No trail comes to a commit twice, as no commit is its own ancestor.
LEMMA StopsApart ==
  ASSUME NEW t \in Seq(Revisions), NEW before, Linked(t, before),
         NEW i \in 0..Len(t), NEW k \in 0..Len(t), i < k
  PROVE  Stop(t, before, i) # Stop(t, before, k)
<1> SUFFICES ASSUME Stop(t, before, i) = t[k] PROVE FALSE
  BY LenProperties DEF Stop
<1> DEFINE S == {t[m] : m \in (i + 1)..k}
<1>1. Len(t) \in Nat /\ (i + 1)..k \subseteq 1..Len(t) /\ k \in (i + 1)..k
  BY LenProperties
<1>2. S \in SUBSET Revisions /\ t[k] \in S
  BY <1>1, ElementOfSeq
<1>3. PICK r \in S : ToSet(Shape[r].parents) \cap S = {}
  BY <1>2, ShapeAssumption
<1>4. PICK m \in (i + 1)..k : r = t[m]
  BY <1>3
<1>5. Stop(t, before, m - 1) \in ToSet(Shape[r].parents)
  BY <1>1, <1>4 DEF Linked
<1>6. CASE m = i + 1
  <2>1. Stop(t, before, m - 1) = t[k]
    BY <1>6
  <2> QED BY <1>2, <1>3, <1>5, <2>1
<1>7. CASE m # i + 1
  <2>1. m - 1 \in (i + 1)..k /\ m - 1 # 0
    BY <1>7
  <2>2. Stop(t, before, m - 1) \in S
    BY <2>1 DEF Stop
  <2> QED BY <1>3, <1>5, <2>2
<1> QED BY <1>6, <1>7

\* So no trail is longer than there are commits.
LEMMA TrailsShort ==
  ASSUME NEW C \in SUBSET Revisions, NEW t \in Seq(C), NEW before, Linked(t, before)
  PROVE  /\ IsFiniteSet(C \cup {Base}) /\ Cardinality(C \cup {Base}) \in Nat
         /\ Len(t) <= Cardinality(C \cup {Base})
<1>1. IsFiniteSet(C)
  BY ShapeAssumption, FS_Subset
<1>2. IsFiniteSet(C \cup {Base}) /\ Cardinality(C \cup {Base}) \in Nat
  BY <1>1, FS_AddElement, FS_CardinalityType
<1>3. t \in [1..Len(t) -> C] /\ Len(t) \in Nat /\ t \in Seq(Revisions)
  <2>1. Len(t) \in Nat /\ DOMAIN t = 1..Len(t) /\ t \in [1..Len(t) -> C]
    BY LenProperties
  <2>2. t \in [1..Len(t) -> Revisions]
    BY <2>1
  <2> QED BY <2>1, <2>2, SeqDef
<1>4. \A i, k \in 1..Len(t) : i < k => t[i] # t[k]
  <2> SUFFICES ASSUME NEW i \in 1..Len(t), NEW k \in 1..Len(t), i < k PROVE t[i] # t[k]
    OBVIOUS
  <2>1. i \in 0..Len(t) /\ k \in 0..Len(t) /\ i # 0 /\ k # 0
    BY <1>3
  <2>2. Stop(t, before, i) # Stop(t, before, k)
    BY <1>3, <2>1, StopsApart
  <2> QED BY <2>1, <2>2 DEF Stop
<1>5. \A i, k \in 1..Len(t) : t[i] = t[k] => i = k
  BY <1>3, <1>4
<1>6. t \in Injection(1..Len(t), C \cup {Base})
  BY <1>3, <1>5 DEF Injection, IsInjective
<1>7. Cardinality(1..Len(t)) <= Cardinality(C \cup {Base})
  BY <1>2, <1>6, FS_Injection
<1> QED BY <1>2, <1>3, <1>7, FS_Interval

\* _path finds the way when there is one way only.
LEMMA PathIs ==
  ASSUME NEW h, h.commits \subseteq Revisions, NEW before \in Revisions, NEW after
  PROVE  LET path == Path(before, after, Parents(h))
         IN /\ Proper(path) => Ways(before, after, h) = {path}
            /\ \A t : Ways(before, after, h) = {t} => Proper(path) /\ path = t
<1> DEFINE C == h.commits
           P == Parents(h)
           N == Cardinality(DOMAIN P)
           trails == Trails(before, P)
           all == UNION {trails[n] : n \in DOMAIN trails}
           joining == {t \in all : End(t, before) = after}
           path == Path(before, after, P)
           W == Ways(before, after, h)
<1>1. /\ DOMAIN P = C \cup {Base} /\ P[Base] = <<>>
      /\ \A r \in C : P[r] = Shape[r].parents
  BY ShapeAssumption DEF Parents
<1>2. IsFiniteSet(DOMAIN P) /\ N \in Nat
  <2>1. IsFiniteSet(C)
    BY ShapeAssumption, FS_Subset
  <2>2. IsFiniteSet(C \cup {Base})
    BY <2>1, FS_AddElement
  <2> HIDE DEF P
  <2> QED BY <1>1, <2>2, FS_CardinalityType
<1>3. /\ DOMAIN trails = 0..N
      /\ \A n \in 0..N : /\ IsFiniteSet(trails[n])
                         /\ trails[n] = {t \in Seq(DOMAIN P) :
                                           Len(t) = n /\ Chained(t, before, P)}
  BY <1>2, TrailsAre
<1>4. IsFiniteSet(all)
  <2> HIDE DEF trails
  <2>1. IsFiniteSet(0..N)
    BY <1>2, FS_Interval
  <2> HIDE DEF N
  <2>2. IsFiniteSet({trails[n] : n \in 0..N})
    BY <2>1, ImageFinite
  <2> QED BY <1>3, <2>2, FS_UNION
<1>5. \A t \in Seq(DOMAIN P) : Chained(t, before, P) => t \in Seq(C) /\ Linked(t, before)
  <2> SUFFICES ASSUME NEW t \in Seq(DOMAIN P), Chained(t, before, P)
               PROVE  t \in Seq(C) /\ Linked(t, before)
    OBVIOUS
  <2>1. Len(t) \in Nat /\ t \in [1..Len(t) -> DOMAIN P]
    BY LenProperties
  <2>2. \A i \in 1..Len(t) : t[i] # Base
    BY <1>1 DEF Chained, ToSet
  <2>3. t \in [1..Len(t) -> C]
    BY <1>1, <2>1, <2>2
  <2>4. \A i \in 1..Len(t) :
          Stop(t, before, i - 1) = (IF i = 1 THEN before ELSE t[i - 1])
    BY <2>1 DEF Stop
  <2>5. Linked(t, before)
    BY <1>1, <2>3, <2>4 DEF Chained, Linked
  <2> QED BY <2>1, <2>3, <2>5, SeqDef
<1>6. \A t \in Seq(C) : Linked(t, before) =>
        t \in Seq(DOMAIN P) /\ Chained(t, before, P) /\ Len(t) \in 0..N
  <2> SUFFICES ASSUME NEW t \in Seq(C), Linked(t, before)
               PROVE  t \in Seq(DOMAIN P) /\ Chained(t, before, P) /\ Len(t) \in 0..N
    OBVIOUS
  <2>1. Len(t) \in Nat /\ t \in [1..Len(t) -> C]
    BY LenProperties
  <2>2. \A i \in 1..Len(t) :
          Stop(t, before, i - 1) = (IF i = 1 THEN before ELSE t[i - 1])
    BY <2>1 DEF Stop
  <2>3. Chained(t, before, P)
    BY <1>1, <2>1, <2>2 DEF Chained, Linked
  <2>4. t \in [1..Len(t) -> DOMAIN P]
    BY <1>1, <2>1
  <2>5. Len(t) <= N
    BY <1>1, TrailsShort
  <2> QED BY <1>2, <2>1, <2>3, <2>4, <2>5, SeqDef
<1>7. all = {t \in Seq(C) : Linked(t, before)}
  <2>1. all = {t \in Seq(DOMAIN P) : Len(t) \in 0..N /\ Chained(t, before, P)}
    <3> HIDE DEF trails
    <3> QED BY <1>3
  <2> HIDE DEF all
  <2> QED BY <1>5, <1>6, <2>1
<1>8. \A t \in Seq(C) : /\ t # <<>> => End(t, before) = t[Len(t)]
                        /\ t = <<>> => End(t, before) = before
  BY DEF End, Last
<1>9. W = joining \ {<<>>}
  <2> HIDE DEF all
  <2> QED BY <1>7, <1>8 DEF Ways
<1>10. IsFiniteSet(joining)
  <2> HIDE DEF all
  <2> QED BY <1>4, FS_Subset
<1>11. path = IF Cardinality(joining) = 1 THEN CHOOSE t \in joining : TRUE ELSE None
  BY DEF Path
<1>12. <<>> \in joining => W = {}
  <2> SUFFICES ASSUME <<>> \in joining, NEW t \in W PROVE FALSE
    OBVIOUS
  <2>1. after = before /\ t \in Seq(C) /\ t # <<>> /\ Linked(t, before) /\ t[Len(t)] = after
    <3> HIDE DEF all
    <3> QED BY <1>8, EmptySeq DEF Ways
  <2>2. Len(t) \in Nat /\ Len(t) # 0 /\ t \in Seq(Revisions)
    <3>1. Len(t) \in Nat /\ t \in [1..Len(t) -> C]
      BY <2>1, LenProperties
    <3>2. t \in [1..Len(t) -> Revisions]
      BY <3>1
    <3> QED BY <2>1, <3>1, <3>2, SeqDef, EmptySeq
  <2>3. 0 \in 0..Len(t) /\ Len(t) \in 0..Len(t) /\ 0 < Len(t)
    BY <2>2
  <2>4. Stop(t, before, 0) # Stop(t, before, Len(t))
    BY <2>1, <2>2, <2>3, StopsApart
  <2> QED BY <2>1, <2>2, <2>4 DEF Stop
<1> HIDE DEF joining, path, W, all
<1>13. Proper(path) => W = {path}
  <2> SUFFICES ASSUME path # None, path # <<>> PROVE W = {path}
    BY DEF Proper
  <2>1. PICK x : joining = {x}
    BY <1>10, <1>11, FS_Singleton
  <2>2. path = x
    BY <1>10, <1>11, <2>1, FS_Singleton
  <2> QED BY <1>9, <2>1, <2>2
<1>14. ASSUME NEW t, W = {t} PROVE Proper(path) /\ path = t
  <2>1. joining = {t} /\ t # <<>>
    BY <1>9, <1>12, <1>14
  <2>2. path = t
    BY <1>10, <1>11, <2>1, FS_Singleton
  <2>3. t \in Seq(Revisions)
    <3>1. t \in Seq(C)
      BY <1>7, <2>1 DEF joining
    <3>2. Len(t) \in Nat /\ t \in [1..Len(t) -> C]
      BY <3>1, LenProperties
    <3>3. t \in [1..Len(t) -> Revisions]
      BY <3>2
    <3> QED BY <3>2, <3>3, SeqDef
  <2> QED BY <2>1, <2>2, <2>3, NoneAssumption DEF Proper
<1> QED BY <1>13, <1>14 DEF path, W
-----------------------------------------------------------------------------
(***************************************************************************)
(* What lies between a failure and its validation.                         *)
(***************************************************************************)

\* A trail in two parts.
LEMMA Cut ==
  ASSUME NEW C, NEW t \in Seq(C), NEW before, Linked(t, before), NEW i \in 0..Len(t)
  PROVE  LET s == SubSeq(t, 1, i)
             u == SubSeq(t, i + 1, Len(t))
         IN /\ s \in Seq(C) /\ Len(s) = i /\ Linked(s, before)
            /\ \A k \in 1..i : s[k] = t[k]
            /\ Stop(s, before, i) = Stop(t, before, i)
            /\ u \in Seq(C) /\ Len(u) = Len(t) - i /\ Linked(u, Stop(t, before, i))
            /\ \A k \in 1..(Len(t) - i) : u[k] = t[i + k]
<1> DEFINE s == SubSeq(t, 1, i)
           u == SubSeq(t, i + 1, Len(t))
           n == Len(t)
<1>1. n \in Nat /\ i \in Nat /\ i <= n /\ \A k \in 1..n : t[k] \in C
  BY LenProperties, ElementOfSeq
<1>2. s \in Seq(C) /\ Len(s) = i /\ \A k \in 1..i : s[k] = t[k]
  <2>1. 1 \in Int /\ i \in Int /\ \A k \in 1..i : t[k] \in C
    BY <1>1
  <2>2. /\ s \in Seq(C) /\ Len(s) = IF 1 <= i THEN i - 1 + 1 ELSE 0
        /\ \A k \in 1..(i - 1 + 1) : s[k] = t[1 + k - 1]
    BY <2>1, SubSeqProperties
  <2> HIDE DEF s
  <2>3. Len(s) = i /\ i - 1 + 1 = i /\ \A k \in 1..i : 1 + k - 1 = k
    BY <1>1, <2>2
  <2> QED BY <2>2, <2>3
<1>3. u \in Seq(C) /\ Len(u) = n - i /\ \A k \in 1..(n - i) : u[k] = t[i + k]
  <2> PICK m \in Int : m = i + 1
    BY <1>1
  <2>1. n \in Int /\ \A k \in m..n : t[k] \in C
    BY <1>1
  <2>2. /\ u \in Seq(C) /\ Len(u) = IF m <= n THEN n - m + 1 ELSE 0
        /\ \A k \in 1..(n - m + 1) : u[k] = t[m + k - 1]
    BY <2>1, SubSeqProperties
  <2> HIDE DEF u, n
  <2>3. Len(u) = n - i /\ n - m + 1 = n - i /\ \A k \in 1..(n - i) : m + k - 1 = i + k
    BY <1>1, <2>2
  <2> QED BY <2>2, <2>3
<1> HIDE DEF s, u
<1>4. Linked(s, before) /\ Stop(s, before, i) = Stop(t, before, i)
  <2>1. \A k \in 1..i : /\ k \in 1..n /\ s[k] = t[k]
                        /\ Stop(s, before, k - 1) = Stop(t, before, k - 1)
    BY <1>1, <1>2 DEF Stop
  <2> QED BY <1>1, <1>2, <2>1 DEF Linked, Stop
<1>5. Linked(u, Stop(t, before, i))
  <2> SUFFICES ASSUME NEW k \in 1..(n - i)
               PROVE  Stop(u, Stop(t, before, i), k - 1) \in ToSet(Shape[u[k]].parents)
    BY <1>3 DEF Linked
  <2>1. i + k \in 1..n /\ u[k] = t[i + k]
    BY <1>1, <1>3
  <2>2. Stop(t, before, i + k - 1) \in ToSet(Shape[u[k]].parents)
    BY <2>1 DEF Linked
  <2>3. Stop(u, Stop(t, before, i), k - 1) = Stop(t, before, i + k - 1)
    <3>1. CASE k = 1
      <4>1. i + k - 1 = i /\ k - 1 = 0
        BY <1>1, <3>1
      <4> QED BY <4>1 DEF Stop
    <3>2. CASE k # 1
      <4>1. k - 1 \in 1..(n - i) /\ k - 1 # 0 /\ i + k - 1 # 0 /\ i + (k - 1) = i + k - 1
        BY <1>1, <3>2
      <4>2. u[k - 1] = t[i + (k - 1)]
        BY <1>3, <4>1
      <4> QED BY <4>1, <4>2 DEF Stop
    <3> QED BY <3>1, <3>2
  <2> QED BY <2>2, <2>3
<1> QED BY <1>2, <1>3, <1>4, <1>5 DEF s, u

\* The second half of a cut path, by itself.
LEMMA CutTail ==
  ASSUME NEW C, NEW t \in Seq(C), NEW before, Linked(t, before), NEW i \in 0..Len(t)
  PROVE  /\ SubSeq(t, i + 1, Len(t)) \in Seq(C)
         /\ Len(SubSeq(t, i + 1, Len(t))) = Len(t) - i
         /\ Linked(SubSeq(t, i + 1, Len(t)), Stop(t, before, i))
         /\ \A k \in 1..(Len(t) - i) : SubSeq(t, i + 1, Len(t))[k] = t[i + k]
BY Cut

\* Two trails one after the other.
LEMMA Joined ==
  ASSUME NEW C, NEW s \in Seq(C), NEW u \in Seq(C), NEW before, Linked(s, before),
         Linked(u, Stop(s, before, Len(s)))
  PROVE  /\ s \o u \in Seq(C) /\ Len(s \o u) = Len(s) + Len(u)
         /\ Linked(s \o u, before)
         /\ \A k \in 1..Len(s) : (s \o u)[k] = s[k]
         /\ \A k \in 1..Len(u) : (s \o u)[Len(s) + k] = u[k]
<1> DEFINE t == s \o u
           m == Len(s)
           n == Len(u)
<1>1. m \in Nat /\ n \in Nat
  BY LenProperties
<1>2. /\ t \in Seq(C) /\ Len(t) = m + n
      /\ \A k \in 1..(m + n) : t[k] = IF k <= m THEN s[k] ELSE u[k - m]
  BY ConcatProperties
<1> HIDE DEF t
<1>3. \A k \in 1..m : t[k] = s[k]
  BY <1>1, <1>2
<1>4. \A k \in 1..n : t[m + k] = u[k]
  <2> SUFFICES ASSUME NEW k \in 1..n PROVE t[m + k] = u[k]
    OBVIOUS
  <2>1. m + k \in 1..(m + n) /\ ~(m + k <= m) /\ m + k - m = k
    BY <1>1
  <2>2. PICK i \in 1..(m + n) : i = m + k
    BY <2>1
  <2>3. t[i] = u[i - m] /\ i - m = k
    BY <1>2, <2>1, <2>2
  <2> QED BY <2>2, <2>3
<1>5. ASSUME NEW k \in 1..(m + n)
      PROVE  Stop(t, before, k - 1) \in ToSet(Shape[t[k]].parents)
  <2>1. CASE k <= m
    <3>1. k \in 1..m /\ (k # 1 => k - 1 \in 1..m)
      BY <1>1, <2>1
    <3>2. t[k] = s[k] /\ Stop(t, before, k - 1) = Stop(s, before, k - 1)
      BY <1>1, <1>3, <3>1 DEF Stop
    <3> QED BY <3>1, <3>2 DEF Linked
  <2>2. CASE k > m
    <3>1. PICK i \in 1..n : k = m + i
      <4>1. k - m \in 1..n /\ k = m + (k - m)
        BY <1>1, <2>2
      <4> QED BY <4>1
    <3>2. t[k] = u[i]
      BY <1>4, <3>1
    <3>3. Stop(t, before, k - 1) = Stop(u, Stop(s, before, m), i - 1)
      <4>1. CASE i = 1
        <5>1. k - 1 = m /\ i - 1 = 0
          BY <1>1, <3>1, <4>1
        <5>2. Stop(t, before, m) = Stop(s, before, m)
          BY <1>1, <1>3 DEF Stop
        <5> QED BY <5>1, <5>2 DEF Stop
      <4>2. CASE i # 1
        <5>1. i - 1 \in 1..n /\ i - 1 # 0 /\ k - 1 # 0 /\ k - 1 = m + (i - 1)
          BY <1>1, <3>1, <4>2
        <5>2. t[m + (i - 1)] = u[i - 1]
          BY <1>4, <5>1
        <5> QED BY <5>1, <5>2 DEF Stop
      <4> QED BY <4>1, <4>2
    <3>4. Stop(u, Stop(s, before, m), i - 1) \in ToSet(Shape[u[i]].parents)
      BY <3>1 DEF Linked
    <3> QED BY <3>2, <3>3, <3>4
  <2> QED BY <1>1, <2>1, <2>2
<1>6. Linked(t, before)
  BY <1>2, <1>5 DEF Linked
<1> QED BY <1>2, <1>3, <1>4, <1>6 DEF t

\* One commit is a trail.
LEMMA OneLinked ==
  ASSUME NEW C, NEW c \in C, NEW p, p \in ToSet(Shape[c].parents)
  PROVE  /\ <<c>> \in Seq(C) /\ Len(<<c>>) = 1 /\ <<c>>[1] = c
         /\ Linked(<<c>>, p)
<1>1. <<c>> \in Seq(C) /\ Len(<<c>>) = 1 /\ <<c>>[1] = c
  OBVIOUS
<1> QED BY <1>1 DEF Linked, Stop

\* Where a trail ends there ends one that begins a commit earlier.
LEMMA Prefixed ==
  ASSUME NEW C, NEW c \in C, NEW p, p \in ToSet(Shape[c].parents), NEW u \in Seq(C),
         Linked(u, c), NEW after, (IF u = <<>> THEN c ELSE u[Len(u)]) = after
  PROVE  \E v \in Seq(C) : v # <<>> /\ Linked(v, p) /\ v[Len(v)] = after
<1>1. PICK w \in Seq(C) : w = <<c>> /\ Len(w) = 1 /\ w[1] = c /\ Linked(w, p)
  BY OneLinked
<1> DEFINE v == w \o u
<1>2. Linked(u, Stop(w, p, Len(w)))
  BY <1>1 DEF Stop
<1>3. /\ v \in Seq(C) /\ Len(v) = Len(w) + Len(u) /\ Linked(v, p)
      /\ \A k \in 1..Len(w) : v[k] = w[k]
      /\ \A k \in 1..Len(u) : v[Len(w) + k] = u[k]
  <2>1. Linked(w, p)
    BY <1>1
  <2> QED BY <1>2, <2>1, Joined
<1> HIDE DEF v
<1>4. Len(v) = 1 + Len(u) /\ v[1] = c /\ \A k \in 1..Len(u) : v[1 + k] = u[k]
  BY <1>1, <1>3
<1>5. Len(u) \in Nat /\ (u = <<>> <=> Len(u) = 0)
  BY LenProperties, EmptySeq
<1>6. v # <<>>
  BY <1>4, <1>5, EmptySeq
<1>7. v[Len(v)] = after
  <2>1. CASE u = <<>>
    BY <1>4, <1>5, <2>1
  <2>2. CASE u # <<>>
    <3>1. Len(u) \in 1..Len(u)
      BY <1>5, <2>2
    <3> QED BY <1>4, <2>2, <3>1
  <2> QED BY <2>1, <2>2
<1> QED BY <1>3, <1>6, <1>7

\* When one way only leads from a commit to another, its commits are those
\* between the two, each has one parent there, and one way only leads to each.
LEMMA BetweenIs ==
  ASSUME NEW h, h.commits \subseteq Revisions, NEW before \in Revisions, NEW after,
         NEW t, Ways(before, after, h) = {t}
  PROVE  /\ Between(before, after, h) = ToSet(t)
         /\ after \in ToSet(t) /\ before \notin ToSet(t)
         /\ \A r \in ToSet(t) :
              Cardinality(ToSet(Shape[r].parents) \cap (ToSet(t) \cup {before})) = 1
         /\ \A i \in 1..Len(t) : Ways(before, t[i], h) = {SubSeq(t, 1, i)}
<1> DEFINE C == h.commits
           n == Len(t)
           known == C \cup {before, after}
           HasChildren(S) ==
             \A c \in C : ToSet(Shape[c].parents) \cap S # {} => c \in S
           HasParents(S) ==
             \A c \in S \cap C : ToSet(Shape[c].parents) \cap known \subseteq S
<1>1. t \in Seq(C) /\ t # <<>> /\ Linked(t, before) /\ t[n] = after
  BY DEF Ways
<1>2. /\ n \in Nat \ {0} /\ t \in [1..n -> C] /\ DOMAIN t = 1..n
      /\ t \in Seq(Revisions)
  <2>1. n \in Nat \ {0} /\ t \in [1..n -> C] /\ DOMAIN t = 1..n
    BY <1>1, EmptySeq, LenProperties
  <2>2. t \in [1..n -> Revisions]
    BY <2>1
  <2> QED BY <2>1, <2>2, SeqDef
<1>3. ToSet(t) = {t[i] : i \in 1..n} /\ after \in ToSet(t) /\ after \in C
  BY <1>1, <1>2 DEF ToSet
<1>4. before \notin ToSet(t)
  <2> SUFFICES ASSUME NEW k \in 1..n, t[k] = before PROVE FALSE
    BY <1>3
  <2>1. 0 \in 0..n /\ k \in 0..n /\ 0 < k
    BY <1>2
  <2>2. Stop(t, before, 0) # Stop(t, before, k)
    BY <1>1, <1>2, <2>1, StopsApart
  <2> QED BY <2>1, <2>2 DEF Stop
\* What leads from before by way of some commit to after is t.
<1>5. ASSUME NEW s \in Seq(C), NEW u \in Seq(C), Linked(s, before),
             Linked(u, Stop(s, before, Len(s))),
             (IF u = <<>> THEN Stop(s, before, Len(s)) ELSE u[Len(u)]) = after,
             s # <<>> \/ u # <<>>
      PROVE  /\ s \o u = t /\ n = Len(s) + Len(u)
             /\ \A k \in 1..Len(s) : s[k] = t[k]
             /\ \A k \in 1..Len(u) : u[k] = t[Len(s) + k]
  <2>1. /\ s \o u \in Seq(C) /\ Len(s \o u) = Len(s) + Len(u)
        /\ Linked(s \o u, before)
        /\ \A k \in 1..Len(s) : (s \o u)[k] = s[k]
        /\ \A k \in 1..Len(u) : (s \o u)[Len(s) + k] = u[k]
    BY <1>5, Joined
  <2>2. /\ Len(s) \in Nat /\ Len(u) \in Nat /\ (Len(s) = 0 <=> s = <<>>)
        /\ (Len(u) = 0 <=> u = <<>>)
    BY LenProperties, EmptySeq
  <2> DEFINE v == s \o u
  <2> HIDE DEF v
  <2>3. v # <<>>
    <3>1. Len(v) # 0
      BY <1>5, <2>1, <2>2 DEF v
    <3> QED BY <3>1, EmptySeq
  <2>4. v[Len(v)] = after
    <3>1. CASE u = <<>>
      <4>1. Len(v) = Len(s) /\ Len(s) \in 1..Len(s) /\ Len(s) # 0
        BY <1>5, <2>1, <2>2, <3>1 DEF v
      <4> QED BY <1>5, <2>1, <3>1, <4>1 DEF v, Stop
    <3>2. CASE u # <<>>
      <4>1. Len(u) \in 1..Len(u)
        BY <2>2, <3>2
      <4> QED BY <1>5, <2>1, <3>2, <4>1 DEF v
    <3> QED BY <3>1, <3>2
  <2>5. v \in Ways(before, after, h)
    BY <2>1, <2>3, <2>4 DEF Ways, v
  <2>6. v = t
    BY <2>5
  <2> QED BY <2>1, <2>6 DEF v
<1>6. ASSUME NEW i \in 1..n PROVE Ways(before, t[i], h) = {SubSeq(t, 1, i)}
  <2> DEFINE s == SubSeq(t, 1, i)
             u == SubSeq(t, i + 1, Len(t))
  <2>1. i \in 0..Len(t) /\ i # 0 /\ i \in Nat /\ n \in Nat /\ i <= n
    BY <1>2
  <2>2. /\ s \in Seq(C) /\ Len(s) = i /\ Linked(s, before)
        /\ \A k \in 1..i : s[k] = t[k]
        /\ Stop(s, before, i) = Stop(t, before, i)
        /\ u \in Seq(C) /\ Len(u) = n - i /\ Linked(u, Stop(t, before, i))
        /\ \A k \in 1..(n - i) : u[k] = t[i + k]
    BY <1>1, <2>1, Cut
  <2> HIDE DEF s, u
  <2>3. s # <<>> /\ s[Len(s)] = t[i]
    BY <2>1, <2>2, EmptySeq
  <2>4. s \in Ways(before, t[i], h)
    BY <2>2, <2>3 DEF Ways
  <2>5. IF u = <<>> THEN t[i] = after ELSE u[Len(u)] = after
    <3>1. CASE u = <<>>
      <4>1. n - i = 0
        BY <2>2, <3>1, EmptySeq
      <4>2. i = n
        <5> HIDE DEF n
        <5> QED BY <2>1, <4>1
      <4> QED BY <1>1, <3>1, <4>2
    <3>2. CASE u # <<>>
      <4>1. n - i \in 1..(n - i) /\ i + (n - i) = n
        <5>1. n - i # 0
          BY <2>2, <3>2, EmptySeq
        <5> HIDE DEF n
        <5> QED BY <2>1, <5>1
      <4> QED BY <1>1, <2>2, <3>2, <4>1
    <3> QED BY <3>1, <3>2
  <2>6. ASSUME NEW v \in Ways(before, t[i], h) PROVE v = s
    <3>1. v \in Seq(C) /\ v # <<>> /\ Linked(v, before) /\ v[Len(v)] = t[i]
      BY DEF Ways
    <3>2. Len(v) \in Nat /\ Len(v) # 0
      BY <3>1, LenProperties, EmptySeq
    <3>3. Stop(v, before, Len(v)) = Stop(t, before, i)
      BY <2>1, <3>1, <3>2 DEF Stop
    <3>4. Stop(v, before, Len(v)) = t[i]
      BY <3>1, <3>2 DEF Stop
    <3>5. n = Len(v) + Len(u) /\ \A k \in 1..Len(v) : v[k] = t[k]
      BY <1>5, <2>2, <2>5, <3>1, <3>3, <3>4
    <3>6. Len(v) = i
      BY <1>2, <2>2, <3>2, <3>5
    <3> QED BY <2>2, <3>1, <3>5, <3>6, SeqEqual
  <2> QED BY <2>4, <2>6 DEF s
\* Whatever has the first and the children of what it has, and whatever has
\* the last and the parents, has all of t.
<1>7. ASSUME NEW S \in SUBSET known, NEW i \in 1..n
      PROVE  /\ before \in S /\ HasChildren(S) => t[i] \in S
             /\ after \in S /\ HasParents(S) => t[i] \in S
  <2> DEFINE bad == {k \in 1..n : t[k] \notin S}
  <2>1. n \in Nat /\ bad \in SUBSET (0..n)
    BY <1>2
  <2>2. ASSUME before \in S, HasChildren(S), bad # {} PROVE FALSE
    <3>1. PICK m \in bad : \A k \in bad : m <= k
      BY <2>1, <2>2, Extremes
    <3>2. Stop(t, before, m - 1) \in S
      <4>1. CASE m = 1
        BY <2>2, <4>1 DEF Stop
      <4>2. CASE m # 1
        <5>1. m - 1 \in 1..n /\ m - 1 # 0 /\ ~(m <= m - 1)
          BY <1>2, <4>2
        <5> QED BY <3>1, <5>1 DEF Stop
      <4> QED BY <4>1, <4>2
    <3>3. Stop(t, before, m - 1) \in ToSet(Shape[t[m]].parents) /\ t[m] \in C
      BY <1>1, <1>2 DEF Linked
    <3> QED BY <2>2, <3>2, <3>3
  <2>3. ASSUME after \in S, HasParents(S), bad # {} PROVE FALSE
    <3>1. PICK m \in bad : \A k \in bad : k <= m
      BY <2>1, <2>3, Extremes
    <3>2. m # n /\ m \in 1..n
      BY <1>1, <2>3
    <3>3. m + 1 \in 1..n /\ m # 0 /\ ~(m + 1 <= m) /\ m + 1 - 1 = m
      BY <1>2, <3>2
    <3>4. t[m + 1] \in S \cap C /\ t[m] \in known
      BY <1>2, <3>1, <3>2, <3>3
    <3>5. Stop(t, before, m + 1 - 1) \in ToSet(Shape[t[m + 1]].parents)
      BY <1>1, <3>3 DEF Linked
    <3>6. t[m] \in ToSet(Shape[t[m + 1]].parents)
      BY <3>3, <3>5 DEF Stop
    <3> QED BY <2>3, <3>4, <3>6
  <2> QED BY <2>2, <2>3
\* One commit is a trail.
<1>8. ASSUME NEW c \in C, NEW p \in ToSet(Shape[c].parents)
      PROVE  /\ <<c>> \in Seq(C) /\ Len(<<c>>) = 1 /\ <<c>>[1] = c
             /\ Linked(<<c>>, p)
  BY OneLinked
<1>9. ASSUME NEW r \in Between(before, after, h) PROVE r \in ToSet(t)
  <2> DEFINE Last1(u, x) == IF u = <<>> THEN x ELSE u[Len(u)]
             S1 == {x \in known :
                      \E s \in Seq(C) : Linked(s, before) /\ Stop(s, before, Len(s)) = x}
             S2 == {x \in known : \E u \in Seq(C) : Linked(u, x) /\ Last1(u, x) = after}
  <2>1. \A x : <<>> \in Seq(C) /\ Len(<<>>) = 0 /\ Linked(<<>>, x)
    BY EmptySeq DEF Linked
  <2>2. before \in S1 /\ after \in S2
    BY <2>1 DEF Stop
  <2>3. HasChildren(S1)
    <3> SUFFICES ASSUME NEW c \in C, NEW p \in ToSet(Shape[c].parents), p \in S1
                 PROVE  c \in S1
      OBVIOUS
    <3>1. PICK s \in Seq(C) : Linked(s, before) /\ Stop(s, before, Len(s)) = p
      OBVIOUS
    <3> DEFINE v == s \o <<c>>
    <3>2. /\ <<c>> \in Seq(C) /\ Len(<<c>>) = 1 /\ <<c>>[1] = c /\ Linked(<<c>>, p)
      BY <1>8
    <3>3. /\ v \in Seq(C) /\ Len(v) = Len(s) + 1 /\ Linked(v, before)
          /\ \A k \in 1..1 : v[Len(s) + k] = <<c>>[k]
      BY <3>1, <3>2, Joined
    <3> HIDE DEF v
    <3>4. Len(v) # 0 /\ v[Len(v)] = c
      BY <3>2, <3>3, LenProperties
    <3>5. Stop(v, before, Len(v)) = c
      BY <3>4 DEF Stop
    <3> QED BY <3>3, <3>5
  <2>4. HasParents(S2)
    <3> SUFFICES ASSUME NEW c \in S2 \cap C, NEW p \in ToSet(Shape[c].parents), p \in known
                 PROVE  p \in S2
      OBVIOUS
    <3>1. PICK u \in Seq(C) : Linked(u, c) /\ Last1(u, c) = after
      OBVIOUS
    <3>2. c \in C /\ p \in ToSet(Shape[c].parents)
      OBVIOUS
    <3>3. PICK v \in Seq(C) : v # <<>> /\ Linked(v, p) /\ v[Len(v)] = after
      <4> HIDE DEF S2, C
      <4> QED BY <3>1, <3>2, Prefixed, SMTT(30)
    <3> QED BY <3>3
  <2>5. S1 \in SUBSET known /\ S2 \in SUBSET known
    OBVIOUS
  <2>6. r \in S1 /\ r \in S2 /\ r # before
    <3> HIDE DEF S1, S2
    <3> QED BY <2>2, <2>3, <2>4, <2>5 DEF Between
  <2>7. PICK s \in Seq(C) : Linked(s, before) /\ Stop(s, before, Len(s)) = r
    BY <2>6
  <2>8. PICK u \in Seq(C) : Linked(u, r) /\ Last1(u, r) = after
    BY <2>6
  <2>9. Len(s) \in Nat /\ Len(s) # 0 /\ s # <<>> /\ s[Len(s)] = r /\ Len(u) \in Nat
    BY <2>6, <2>7, LenProperties, EmptySeq DEF Stop
  <2>10. n = Len(s) + Len(u) /\ \A k \in 1..Len(s) : s[k] = t[k]
    BY <1>5, <2>7, <2>8, <2>9
  <2>11. Len(s) \in 1..n /\ Len(s) \in 1..Len(s)
    BY <2>9, <2>10
  <2> QED BY <1>3, <2>9, <2>10, <2>11
<1>10. Between(before, after, h) = ToSet(t)
  <2>1. ASSUME NEW i \in 1..n PROVE t[i] \in Between(before, after, h)
    <3>1. t[i] \in C \ {before}
      BY <1>2, <1>3, <1>4
    <3> QED BY <1>7, <3>1 DEF Between
  <2> QED BY <1>3, <1>9, <2>1
<1>11. ASSUME NEW i \in 1..n
       PROVE  Cardinality(ToSet(Shape[t[i]].parents) \cap (ToSet(t) \cup {before})) = 1
  <2> DEFINE X == ToSet(Shape[t[i]].parents) \cap (ToSet(t) \cup {before})
             q == Stop(t, before, i - 1)
  <2>1. i \in Nat /\ i # 0 /\ n \in Nat /\ i - 1 \in 0..n /\ i <= n
    BY <1>2
  <2>2. q \in X
    <3>1. q \in ToSet(Shape[t[i]].parents)
      BY <1>1 DEF Linked
    <3>2. q \in ToSet(t) \cup {before}
      <4>1. i - 1 # 0 => i - 1 \in 1..n
        BY <2>1
      <4> QED BY <1>3, <4>1 DEF Stop
    <3> QED BY <3>1, <3>2
  <2>3. ASSUME NEW p \in X PROVE p = q
    <3>1. PICK j \in 0..n : p = Stop(t, before, j)
      <4>1. CASE p = before
        <5>1. 0 \in 0..n /\ Stop(t, before, 0) = p
          BY <2>1, <4>1 DEF Stop
        <5> QED BY <5>1
      <4>2. CASE p \in ToSet(t)
        <5>1. PICK k \in 1..n : p = t[k]
          BY <1>3, <4>2
        <5>2. k \in 0..n /\ k # 0
          BY <2>1
        <5> QED BY <5>1, <5>2 DEF Stop
      <4> QED BY <4>1, <4>2
    <3> DEFINE s == SubSeq(t, 1, j)
               u == SubSeq(t, i - 1 + 1, Len(t))
    <3>2. s \in Seq(C) /\ Len(s) = j /\ Linked(s, before) /\ Stop(s, before, j) = p
      <4>1. j \in 0..Len(t)
        OBVIOUS
      <4> DEFINE v == SubSeq(t, j + 1, Len(t))
      <4>2. /\ s \in Seq(C) /\ Len(s) = j /\ Linked(s, before)
            /\ \A k \in 1..j : s[k] = t[k]
            /\ Stop(s, before, j) = Stop(t, before, j)
            /\ v \in Seq(C) /\ Len(v) = Len(t) - j /\ Linked(v, Stop(t, before, j))
            /\ \A k \in 1..(Len(t) - j) : v[k] = t[j + k]
        BY <1>1, <4>1, Cut
      <4> QED BY <3>1, <4>2
    <3>3. /\ u \in Seq(C) /\ Len(u) = n - (i - 1) /\ Linked(u, q)
          /\ \A k \in 1..(n - (i - 1)) : u[k] = t[i - 1 + k]
      <4>1. PICK k \in 0..Len(t) : k = i - 1
        BY <2>1
      <4> DEFINE v == SubSeq(t, k + 1, Len(t))
      <4>3. t \in Seq(C) /\ k \in 0..Len(t) /\ Linked(t, before)
        BY <1>1
      <4>2. /\ v \in Seq(C) /\ Len(v) = Len(t) - k /\ Linked(v, Stop(t, before, k))
            /\ \A m \in 1..(Len(t) - k) : v[m] = t[k + m]
        BY <4>3, CutTail
      <4> QED BY <4>1, <4>2
    <3> HIDE DEF s, u
    <3>4. 1 \in 1..(n - (i - 1)) /\ i - 1 + 1 = i /\ n - (i - 1) # 0
      <4> HIDE DEF n
      <4> QED BY <2>1
    <3>5. u[1] = t[i] /\ u # <<>>
      BY <3>3, <3>4, EmptySeq
    <3>6. Linked(u, p)
      <4> SUFFICES ASSUME NEW k \in 1..Len(u)
                   PROVE  Stop(u, p, k - 1) \in ToSet(Shape[u[k]].parents)
        BY DEF Linked
      <4>1. CASE k = 1
        BY <3>5, <4>1 DEF Stop
      <4>2. CASE k # 1
        <5>1. k - 1 # 0
          BY <4>2
        <5>2. Stop(u, p, k - 1) = Stop(u, q, k - 1)
          BY <5>1 DEF Stop
        <5> QED BY <3>3, <5>2 DEF Linked
      <4> QED BY <4>1, <4>2
    <3>7. u[Len(u)] = after
      <4>1. n - (i - 1) \in 1..(n - (i - 1)) /\ i - 1 + (n - (i - 1)) = n
        <5> HIDE DEF n
        <5> QED BY <2>1
      <4> QED BY <1>1, <3>3, <4>1
    <3>8. n = j + (n - (i - 1))
      BY <1>5, <3>2, <3>3, <3>5, <3>6, <3>7
    <3>9. j = i - 1
      <4> HIDE DEF n
      <4> QED BY <2>1, <3>8
    <3> QED BY <3>1, <3>9
  <2> HIDE DEF X, q
  <2>4. X = {q}
    BY <2>2, <2>3
  <2> QED BY <2>4, FS_Singleton DEF X
<1>12. \A r \in ToSet(t) :
         Cardinality(ToSet(Shape[r].parents) \cap (ToSet(t) \cup {before})) = 1
  BY <1>3, <1>11
<1> QED BY <1>3, <1>4, <1>6, <1>10, <1>12

-----------------------------------------------------------------------------
(***************************************************************************)
(* The verdict.                                                            *)
(***************************************************************************)

\* What learning counts as a repair that worked.
Repaired == {"clean_verified", "target_failure_resolved"}

\* A credited episode was judged a clean repair and no flake.
LEMMA CreditedPassed ==
  ASSUME NEW e, Credited(e)
  PROVE  e.verdict.outcome \in Repaired
<1> DEFINE record == [id |-> <<e.id, EventKinds[3]>>, payload |-> e]
           event == [record |-> record.id, contract |-> "historical",
                     class |-> EventKinds[3], scope |-> "repository",
                     failure |-> e.id[1],
                     authority |-> IF EventKinds[3] = EventKinds[1]
                                     THEN "historical_noncanonical" ELSE None,
                     remediation |-> None,
                     outcome |-> IF EventKinds[3] = EventKinds[3]
                                   THEN e.verdict.outcome ELSE None,
                     flake |-> e.verdict.flake]
<1>1. Learned(record) = Learning!Rows(event)[1]
  BY DEF Learned
<1>2. event.contract = "historical" /\ event.outcome = e.verdict.outcome
  OBVIOUS
<1> HIDE DEF event
<1>3. Learning!Rows(event) = Learning!HistoricalRows(event)
  BY <1>2, Zenon DEF Learning!Rows
<1>4. Learning!HistoricalRows(event)[1].disposition = Learning!Disposition(event)
  BY DEF Learning!HistoricalRows, Learning!Plain
<1>5. Learning!Disposition(event) = "confirmed_true_positive"
  BY <1>1, <1>3, <1>4 DEF Credited
<1>6. Learning!Validated(event) = "passed"
  BY <1>5, LearnedAssumption DEF Learning!Disposition
<1>7. /\ e.verdict.outcome \in DOMAIN Learning!HistoricalOutcome
      /\ Learning!HistoricalOutcome[e.verdict.outcome] = "passed"
  BY <1>2, <1>6, LearnedAssumption DEF Learning!Validated, Learning!ValidationOutcomes
<1> QED BY <1>7 DEF Learning!HistoricalOutcome, Repaired

\* Among the attempts of its revision a failure that is no flake has no pass,
\* once it has ended itself.
LEMMA NoFlake ==
  ASSUME NEW h, NEW before, ~Flaky(before, h),
         NEW a \in h.attempts, Alike(a, before), a.conclusion = "failure",
         NEW b \in h.attempts, Alike(b, before), b.conclusion = "success"
  PROVE  FALSE
BY DEF Flaky

\* The last step of a name tells how the name concluded, in either job.
LEMMA StepsCompared ==
  ASSUME NEW f, NEW j, f.steps \in Seq(ToSet(f.steps)), j.steps \in Seq(ToSet(j.steps)),
         ~RanStepBecameSkipped(f, j), NEW name,
         NEW m \in DOMAIN f.steps, f.steps[m].name = name, f.steps[m].conclusion \in Ran,
         \A k \in DOMAIN f.steps : f.steps[k].name = name => k <= m,
         NEW l \in DOMAIN j.steps, j.steps[l].name = name,
         j.steps[l].conclusion = "skipped",
         \A k \in DOMAIN j.steps : j.steps[k].name = name => k <= l
  PROVE  FALSE
<1> DEFINE Own(job) == {i \in DOMAIN job.steps : job.steps[i].name = name}
           End1(job) == CHOOSE i \in Own(job) : \A k \in Own(job) : k <= i
           Concluded(job) ==
             IF Own(job) = {} THEN None ELSE job.steps[End1(job)].conclusion
<1>1. DOMAIN f.steps \subseteq Nat /\ DOMAIN j.steps \subseteq Nat
  BY LenProperties
<1>2. End1(f) = m /\ End1(j) = l
  <2>1. m \in Own(f) /\ \A k \in Own(f) : k <= m
    OBVIOUS
  <2>2. End1(f) \in Own(f) /\ \A k \in Own(f) : k <= End1(f)
    <3> HIDE DEF Own
    <3> QED BY <2>1
  <2>3. l \in Own(j) /\ \A k \in Own(j) : k <= l
    OBVIOUS
  <2>4. End1(j) \in Own(j) /\ \A k \in Own(j) : k <= End1(j)
    <3> HIDE DEF Own
    <3> QED BY <2>3
  <2> HIDE DEF End1
  <2>5. End1(f) <= m /\ m <= End1(f) /\ End1(f) \in Nat
    BY <1>1, <2>1, <2>2
  <2>6. End1(j) <= l /\ l <= End1(j) /\ End1(j) \in Nat
    BY <1>1, <2>3, <2>4
  <2> QED BY <1>1, <2>5, <2>6
<1>3. Concluded(f) = f.steps[m].conclusion /\ Concluded(j) = "skipped"
  <2>1. Own(f) # {} /\ Own(j) # {}
    OBVIOUS
  <2> HIDE DEF Own, End1
  <2> QED BY <1>2, <2>1
<1>4. name \in ToSet(StepNames(j))
  BY DEF ToSet, StepNames
<1> QED BY <1>3, <1>4 DEF RanStepBecameSkipped

\* What the assessment of a transition has behind it that counts as a repair.
LEMMA AssessedClean ==
  ASSUME NEW before, NEW after, NEW f, NEW j, NEW path, NEW h,
         Assess(before, after, f, j, path, h).outcome \in Repaired
  PROVE  LET changes == ToSet(path) \cap Changes(h)
             complete == ToSet(path) \subseteq changes
         IN /\ before.run[1] # after.run[1]
            /\ complete /\ \A r \in changes : Shape[r].files # {}
            /\ Objections(f, j, changes) = {}
            /\ j # None /\ j.conclusion = "success"
            /\ \A k \in JobsOf(after, h) : k.conclusion # "failure"
            /\ Assess(before, after, f, j, path, h).grade = "B" =>
                 Confounders(before, after, changes, complete, h) \cap Material = {}
<1> DEFINE changes == ToSet(path) \cap Changes(h)
           complete == ToSet(path) \subseteq changes
           objections == Objections(f, j, changes)
           noted == Confounders(before, after, changes, complete, h)
           sameRevision == before.run[1] = after.run[1]
           conclusion == IF j = None THEN None ELSE j.conclusion
           outcome == Outcome(Identity(f), j, JobsOf(after, h))
           v == Assess(before, after, f, j, path, h)
           hollow == \/ ~complete
                     \/ /\ ~sameRevision
                        /\ changes = {} \/ \E r \in changes : Shape[r].files = {}
           found == {Identity(k) : k \in {i \in JobsOf(after, h) : i.conclusion = "failure"}}
<1> HIDE DEF changes, complete, objections, noted, conclusion, outcome, found
<1>1. /\ ~(sameRevision /\ conclusion = "success")
      /\ objections = {} /\ ~hollow
      /\ conclusion \notin {None, "cancelled", "timed_out", "skipped"}
      /\ v.outcome = outcome
      /\ v.grade = IF sameRevision THEN "C" ELSE IF noted \cap Material # {} THEN "C" ELSE "B"
  <2> USE DEF Repaired
  <2>1. ~(sameRevision /\ conclusion = "success")
    BY DEF Assess, changes, complete, objections, noted, conclusion, outcome
  <2>2. objections = {}
    BY <2>1 DEF Assess, changes, complete, objections, noted, conclusion, outcome
  <2>3. ~hollow
    BY <2>1, <2>2 DEF Assess, changes, complete, objections, noted, conclusion, outcome
  <2>4. conclusion \notin {None, "cancelled", "timed_out", "skipped"}
    BY <2>1, <2>2, <2>3
       DEF Assess, changes, complete, objections, noted, conclusion, outcome
  <2> QED BY <2>1, <2>2, <2>3, <2>4
             DEF Assess, changes, complete, objections, noted, conclusion, outcome
<1>2. /\ found = {} /\ j.conclusion = "success"
      /\ outcome = "clean_verified"
  <2>1. outcome = IF Identity(f) \in found THEN "repeated_failure"
                  ELSE IF found # {} THEN "new_failure"
                  ELSE IF j.conclusion = "success" THEN "clean_verified"
                  ELSE "outcome_unknown"
    BY DEF Outcome, outcome, found
  <2> QED BY <1>1, <2>1 DEF Repaired
<1>3. j # None /\ conclusion = "success"
  BY <1>1, <1>2 DEF conclusion
<1>4. ~sameRevision
  BY <1>1, <1>3
<1>5. \A k \in JobsOf(after, h) : k.conclusion # "failure"
  BY <1>2 DEF found
<1>6. v.grade = "B" => noted \cap Material = {}
  BY <1>1, <1>4
<1> QED BY <1>1, <1>2, <1>3, <1>4, <1>5, <1>6 DEF changes, complete, objections, noted

\* A verdict that counts as a repair was not withheld.
LEMMA NotWithheld ==
  ASSUME NEW before, NEW after, NEW f, NEW j, NEW path, NEW h, NEW flake,
         WithholdCredit(Assess(before, after, f, j, path, h), flake).outcome \in Repaired
  PROVE  /\ ~flake
         /\ WithholdCredit(Assess(before, after, f, j, path, h), flake)
              = Assess(before, after, f, j, path, h)
         /\ Assess(before, after, f, j, path, h).outcome \in Repaired
<1> DEFINE changes == ToSet(path) \cap Changes(h)
           complete == ToSet(path) \subseteq changes
           objections == Objections(f, j, changes)
           completeness == Completeness(f, j, objections)
           noted == Confounders(before, after, changes, complete, h)
           conclusion == IF j = None THEN None ELSE j.conclusion
           outcome == Outcome(Identity(f), j, JobsOf(after, h))
           v == Assess(before, after, f, j, path, h)
<1> HIDE DEF changes, complete, objections, completeness, noted, conclusion, outcome
<1>1. DOMAIN v = {"grade", "confounders", "outcome", "completeness", "flake", "equivalent"}
      /\ v.outcome \in {"outcome_unknown", "unresolved", outcome}
  BY DEF Assess, changes, complete, objections, completeness, noted, conclusion, outcome
<1>2. outcome \in {"repeated_failure", "new_failure", "clean_verified", "outcome_unknown"}
  BY DEF Outcome, outcome
<1> HIDE DEF v
<1>3. CASE flake /\ v.outcome = "clean_verified"
  <2>1. WithholdCredit(v, flake).outcome = "outcome_unknown"
    BY <1>1, <1>3 DEF WithholdCredit
  <2> QED BY <2>1 DEF v, Repaired
<1>4. CASE ~(flake /\ v.outcome = "clean_verified")
  <2>1. WithholdCredit(v, flake) = v
    BY <1>4 DEF WithholdCredit
  <2>2. v.outcome \in Repaired
    BY <2>1 DEF v
  <2> QED BY <1>1, <1>2, <1>4, <2>1, <2>2 DEF v, Repaired
<1> QED BY <1>3, <1>4

-----------------------------------------------------------------------------
(***************************************************************************)
(* Credit.                                                                 *)
(***************************************************************************)

\* A harvest that episodes can be judged by.
Judgeable(h) ==
  /\ Known(h)
  /\ h.commits \subseteq Revisions /\ h.signals \subseteq Signals
  /\ \A r \in h.commits : ~Shape[r].secret
  /\ \A j \in h.jobs : j.steps \in Seq(ToSet(j.steps))
  /\ \A j \in Failures(h), a \in h.attempts :
       Ref(a) = Ref(j) /\ a.conclusion # None => a.conclusion = "failure"

\* The later attempts on the revision of an attempt.
Same(before, h) == {a \in h.attempts : Alike(a, before) /\ a.number > before.number}

\* The attempts on later revisions, by how far they are.
Way(a, before, h) == Path(before.run[1], a.run[1], Parents(h))

Later(before, h) ==
  {a \in h.attempts : /\ a.run[2] = before.run[2] /\ a.run[1] # before.run[1]
                      /\ Proper(Way(a, before, h))}

Nearest(before, h) ==
  IF Same(before, h) # {}
    THEN {a \in Same(before, h) : \A b \in Same(before, h) : a.number <= b.number}
    ELSE {a \in Later(before, h) : \A b \in Later(before, h) :
            Len(Way(a, before, h)) <= Len(Way(b, before, h))}

First(before, h, order) ==
  {a \in Nearest(before, h) :
     \A b \in Nearest(before, h) \ {a} : order[Ref(a)] <= order[Ref(b)]}

\* _next_run takes of the nearest the one whose hash is first.
LEMMA NextRunIs ==
  ASSUME NEW h, Known(h), NEW order, NEW before \in h.attempts
  PROVE  /\ NextRun(before, h, order)
              = IF First(before, h, order) = {} THEN None
                ELSE CHOOSE a \in First(before, h, order) : TRUE
         /\ NextRun(before, h, order) # None =>
              NextRun(before, h, order) \in Nearest(before, h)
<1> DEFINE comparable == {a \in h.attempts : a.run[2] = before.run[2] /\ a # before}
           same == {a \in comparable : Alike(a, before) /\ a.number > before.number}
           Distance(a) == Len(Path(before.run[1], a.run[1], Parents(h)))
           later == {a \in comparable :
                       /\ a.run[1] # before.run[1]
                       /\ Proper(Path(before.run[1], a.run[1], Parents(h)))}
           nearest == IF same # {}
                        THEN {a \in same : \A b \in same : a.number <= b.number}
                        ELSE {a \in later : \A b \in later : Distance(a) <= Distance(b)}
           first == {a \in nearest : \A b \in nearest \ {a} : order[Ref(a)] <= order[Ref(b)]}
<1>1. NextRun(before, h, order) = IF first = {} THEN None ELSE CHOOSE a \in first : TRUE
  BY DEF NextRun
<1>2. same = Same(before, h)
  <2>1. before.number \in Nat
    BY DEF Known
  <2> QED BY <2>1 DEF Same, Alike
<1>3. later = Later(before, h)
  BY DEF Later, Way
<1> HIDE DEF same, later
<1>4. nearest = Nearest(before, h)
  BY <1>2, <1>3 DEF Nearest, Way
<1> HIDE DEF nearest
<1>5. first = First(before, h, order)
  BY <1>4 DEF First
<1> HIDE DEF first
<1>6. First(before, h, order) \subseteq Nearest(before, h)
  BY DEF First
<1> QED BY <1>1, <1>5, <1>6

\* The next run of an attempt is the next attempt on its revision, unless
\* there is none and it is on another revision.
Follows(next, before, h) ==
  /\ next \in h.attempts /\ next.run[2] = before.run[2]
  /\ \/ next \in Same(before, h) /\ \A a \in Same(before, h) : next.number <= a.number
     \/ next.run[1] # before.run[1] /\ Same(before, h) = {}

LEMMA NextRunFollows ==
  ASSUME NEW h, Known(h), NEW order, NEW before \in h.attempts,
         NextRun(before, h, order) # None
  PROVE  Follows(NextRun(before, h, order), before, h)
<1>1. PICK next : next = NextRun(before, h, order)
  OBVIOUS
<1>2. next \in Nearest(before, h)
  BY <1>1, NextRunIs
<1>3. CASE Same(before, h) # {}
  BY <1>1, <1>2, <1>3 DEF Nearest, Follows, Same, Alike
<1>4. CASE Same(before, h) = {}
  <2>1. next \in Later(before, h)
    BY <1>2, <1>4 DEF Nearest
  <2> QED BY <1>1, <1>4, <2>1 DEF Follows, Later
<1> QED BY <1>3, <1>4

\* Attempts of the same workflow and revision that one attempt follows have
\* the same number.
LEMMA FollowsApart ==
  ASSUME NEW h, Known(h), NEW a \in h.attempts, NEW b \in h.attempts, NEW next,
         Follows(next, a, h), Follows(next, b, h), Alike(a, b)
  PROVE  a.number = b.number
<1>1. a.number \in Nat /\ b.number \in Nat /\ next.number \in Nat
  BY DEF Known, Follows
<1>2. ASSUME NEW c \in {a, b}, NEW d \in {a, b}, c.number < d.number
      PROVE  FALSE
  <2>1. Alike(c, d) /\ c \in h.attempts /\ d \in h.attempts
    BY DEF Alike
  <2>2. Follows(next, c, h) /\ Follows(next, d, h)
    OBVIOUS
  <2>3. d \in Same(c, h)
    BY <1>1, <1>2, <2>1 DEF Same, Alike
  <2>4. Alike(next, c) /\ next.number <= d.number
    BY <2>2, <2>3 DEF Follows, Same
  <2>5. next.number > d.number
    BY <2>1, <2>2, <2>4 DEF Follows, Same, Alike
  <2> QED BY <1>1, <2>4, <2>5
<1> QED BY <1>1, <1>2

\* When the next run is of another revision none was nearer.
LEMMA NextRunNearest ==
  ASSUME NEW h, Known(h), NEW order, NEW before \in h.attempts, NEW next,
         next = NextRun(before, h, order), next # None, next.run[1] # before.run[1]
  PROVE  /\ Proper(Way(next, before, h))
         /\ \A a \in Later(before, h) :
              Len(Way(next, before, h)) <= Len(Way(a, before, h))
<1>1. next \in Nearest(before, h)
  BY NextRunIs
<1>2. next \notin Same(before, h)
  BY DEF Same, Alike
<1> QED BY <1>1, <1>2 DEF Nearest, Later

\* What a credited episode has behind it.
LEMMA EpisodeEarned ==
  ASSUME NEW h, Judgeable(h), NEW order, NEW e \in Episodes(h, order), Credited(e)
  PROVE  /\ Earned(e, h)
         /\ e.verdict.grade = "B" =>
              ToSet(Shape[e.id[3]].parents) = {e.id[2]} /\ h.signals = {}
<1>1. PICK x \in Judged(h, order) : e = EpisodeOf(x, h, order)
  BY EpisodesAre DEF Kept
<1>2. PICK f, a, next : /\ f = x[1] /\ a = x[2] /\ next = NextRun(a, h, order)
                        /\ f \in Failures(h) /\ a \in h.attempts /\ Ref(f) = Ref(a)
                        /\ next # None /\ e = Episode(f, a, next, h, order)
  BY <1>1 DEF Judged, EpisodeOf
<1>3. PICK before, after, path, j :
        /\ before = a.run[1] /\ after = next.run[1]
        /\ path = Path(before, after, Parents(h)) /\ j = Named(f.name, JobsOf(next, h), order)
  <2>1. \E b, c : b = a.run[1] /\ c = next.run[1]
    OBVIOUS
  <2>2. PICK b, c : b = a.run[1] /\ c = next.run[1]
    BY <2>1
  <2>3. \E p, k : p = Path(b, c, Parents(h)) /\ k = Named(f.name, JobsOf(next, h), order)
    OBVIOUS
  <2> QED BY <2>2, <2>3
<1> DEFINE v == Assess(a, next, f, j, path, h)
           flake == Flaky(a, h)
           changes == ToSet(path) \cap Changes(h)
           complete == ToSet(path) \subseteq changes
<1>4. /\ e.id = <<Identity(f), before, after, Ref(next)>> /\ e.failure = Ref(a)
      /\ e.verdict = WithholdCredit(v, flake)
      /\ e.id[1] = Identity(f) /\ e.id[2] = before /\ e.id[3] = after
      /\ e.id[4] = Ref(next) /\ e.failure[1] = a.run /\ e.failure[2] = a.number
  <2>1. /\ e.id = EpisodeId(f, a, next) /\ e.failure = Ref(a)
        /\ e.verdict = WithholdCredit(v, flake)
    BY <1>2, <1>3 DEF Episode
  <2> HIDE DEF v, flake
  <2> QED BY <1>3, <2>1 DEF EpisodeId, Ref
<1>5. ~flake /\ e.verdict = v /\ v.outcome \in Repaired
  <2>1. WithholdCredit(v, flake).outcome \in Repaired
    BY <1>4, CreditedPassed
  <2> HIDE DEF flake
  <2> QED BY <1>4, <2>1, NotWithheld
<1>6. /\ before # after
      /\ complete /\ \A r \in changes : Shape[r].files # {}
      /\ Objections(f, j, changes) = {}
      /\ j # None /\ j.conclusion = "success"
      /\ \A k \in JobsOf(next, h) : k.conclusion # "failure"
      /\ v.grade = "B" => Confounders(a, next, changes, complete, h) \cap Material = {}
  <2>1. Assess(a, next, f, j, path, h).outcome \in Repaired
    BY <1>5
  <2>2. /\ a.run[1] # next.run[1]
        /\ complete /\ \A r \in changes : Shape[r].files # {}
        /\ Objections(f, j, changes) = {}
        /\ j # None /\ j.conclusion = "success"
        /\ \A k \in JobsOf(next, h) : k.conclusion # "failure"
        /\ Assess(a, next, f, j, path, h).grade = "B" =>
             Confounders(a, next, changes, complete, h) \cap Material = {}
    BY ONLY <2>1, AssessedClean
  <2> QED BY <1>3, <2>2
<1> HIDE DEF v, flake
<1>7. changes = ToSet(path)
  BY <1>6
<1>8. /\ Follows(next, a, h) /\ next.run[1] # a.run[1] /\ next \in h.attempts
      /\ next.run[2] = a.run[2]
      /\ \A b \in h.attempts : Alike(b, a) => ~(b.number > a.number)
  <2>1. Known(h)
    BY DEF Judgeable
  <2>2. Follows(next, a, h)
    BY <1>2, <2>1, NextRunFollows
  <2> QED BY <1>3, <1>6, <2>2 DEF Follows, Same, Alike
<1>9. /\ Proper(path)
      /\ \A b \in h.attempts :
           /\ b.run[2] = a.run[2] /\ b.run[1] # a.run[1]
           /\ Proper(Path(before, b.run[1], Parents(h)))
           => Len(path) <= Len(Path(before, b.run[1], Parents(h)))
  <2>1. /\ Proper(Way(next, a, h))
        /\ \A b \in Later(a, h) : Len(Way(next, a, h)) <= Len(Way(b, a, h))
    BY <1>2, <1>8, NextRunNearest DEF Judgeable
  <2> QED BY <1>3, <2>1 DEF Way, Later
<1>10. h.commits \subseteq Revisions /\ before \in Revisions
  BY <1>2, <1>3 DEF Judgeable, Known, Attempts, Runs, Ref
<1>11. Ways(before, after, h) = {path}
  BY <1>3, <1>9, <1>10, PathIs
<1>12. /\ path \in Seq(h.commits) /\ path # <<>> /\ path[Len(path)] = after
       /\ Linked(path, before) /\ Len(path) \in Nat /\ Len(path) # 0
  <2>1. /\ path \in Seq(h.commits) /\ path # <<>> /\ path[Len(path)] = after
        /\ Linked(path, before)
    BY <1>11 DEF Ways
  <2> QED BY <2>1, LenProperties, EmptySeq
<1> DEFINE between == Between(before, after, h)
<1>13. /\ between = ToSet(path) /\ after \in between /\ before \notin between
       /\ \A r \in between :
            Cardinality(ToSet(Shape[r].parents) \cap (between \cup {before})) = 1
       /\ \A i \in 1..Len(path) : Ways(before, path[i], h) = {SubSeq(path, 1, i)}
  <2>1. /\ Between(before, after, h) = ToSet(path)
        /\ after \in ToSet(path) /\ before \notin ToSet(path)
        /\ \A r \in ToSet(path) :
             Cardinality(ToSet(Shape[r].parents) \cap (ToSet(path) \cup {before})) = 1
        /\ \A i \in 1..Len(path) : Ways(before, path[i], h) = {SubSeq(path, 1, i)}
    BY <1>10, <1>11, BetweenIs
  <2> QED BY <2>1
<1>14. between \subseteq h.commits
  BY DEF Between
<1> HIDE DEF between
<1>15. ASSUME NEW r \in between
       PROVE  /\ ~Shape[r].secret /\ Shape[r].files # {}
              /\ \A file \in Shape[r].files :
                   /\ ~file.skips
                   /\ file.areas \cap {"workflow", "environment"} = {}
                   /\ file.removed => "test" \notin file.areas
  <2>1. r \in changes /\ ~Shape[r].secret
    BY <1>7, <1>13, <1>14 DEF Judgeable
  <2>2. ~Touches(r, "workflow") /\ ~Touches(r, "environment") /\ Weakening(r) = {}
    <3> HIDE DEF changes
    <3> QED BY <1>6, <2>1 DEF Objections, If
  <2> QED BY <1>6, <2>1, <2>2 DEF Touches, Weakening, If
<1>16. /\ j \in JobsOf(next, h) /\ j.name = f.name
       /\ f \in h.jobs /\ f.conclusion = "failure" /\ j \in h.jobs /\ Ref(j) = Ref(next)
  <2>1. j \in JobsOf(next, h) /\ j.name = f.name
    BY <1>3, <1>6 DEF Named
  <2> QED BY <1>2, <2>1 DEF JobsOf, Failures
<1>17. /\ ~RanStepBecameSkipped(f, j)
       /\ f.steps # <<>> /\ j.steps # <<>> => StepNames(f) = StepNames(j)
  <2> HIDE DEF changes
  <2> QED BY <1>6 DEF Objections, If
<1>18. ASSUME f.steps # <<>>, j.steps # <<>>
       PROVE  /\ DOMAIN f.steps = DOMAIN j.steps
              /\ \A i \in DOMAIN f.steps : f.steps[i].name = j.steps[i].name
  <2>1. StepNames(f) = StepNames(j)
    BY <1>17, <1>18
  <2>2. DOMAIN StepNames(f) = DOMAIN f.steps /\ DOMAIN StepNames(j) = DOMAIN j.steps
    BY DEF StepNames
  <2>3. /\ \A i \in DOMAIN f.steps : StepNames(f)[i] = f.steps[i].name
        /\ \A i \in DOMAIN j.steps : StepNames(j)[i] = j.steps[i].name
    BY DEF StepNames
  <2> QED BY <2>1, <2>2, <2>3
<1>19. f.steps \in Seq(ToSet(f.steps)) /\ j.steps \in Seq(ToSet(j.steps))
  BY <1>16 DEF Judgeable
<1>20. ASSUME NEW b \in h.attempts, Alike(b, a)
       PROVE  /\ b.number <= a.number
              /\ (\E c \in h.attempts : Ref(c) = e.failure /\ c.conclusion # None) =>
                   b.conclusion # "success"
  <2>1. b.number \in Nat /\ a.number \in Nat
    BY <1>2 DEF Judgeable, Known
  <2>2. b.number <= a.number
    BY <1>8, <1>20, <2>1
  <2>3. ASSUME NEW c \in h.attempts, Ref(c) = e.failure, c.conclusion # None,
               b.conclusion = "success"
        PROVE  FALSE
    <3>1. c.conclusion = "failure" /\ Alike(c, a)
      BY <1>2, <1>4, <2>3 DEF Judgeable, Ref, Alike
    <3> QED BY <1>5, <1>20, <2>3, <3>1, NoFlake DEF flake
  <2> QED BY <2>2, <2>3
<1>21. ASSUME NEW b \in h.attempts, b.run[2] = a.run[2], b.run[1] \in between \ {after}
       PROVE  FALSE
  <2>1. DOMAIN path = 1..Len(path)
    BY <1>12, LenProperties
  <2>2. PICK i \in 1..Len(path) : b.run[1] = path[i]
    BY <1>13, <1>21, <2>1 DEF ToSet
  <2>3. i # Len(path)
    BY <1>12, <1>21, <2>2
  <2>4. i \in 0..Len(path) /\ i \in Nat
    BY <1>12
  <2>5. Len(SubSeq(path, 1, i)) = i
    <3>1. path \in Seq(h.commits) /\ i \in 0..Len(path) /\ Linked(path, before)
      BY <1>12, <2>4
    <3> QED BY <3>1, Cut
  <2>6. Ways(before, b.run[1], h) = {SubSeq(path, 1, i)}
    BY <1>13, <2>2
  <2>7. /\ Proper(Path(before, b.run[1], Parents(h)))
        /\ Path(before, b.run[1], Parents(h)) = SubSeq(path, 1, i)
    BY <1>10, <2>6, PathIs
  <2>8. b.run[1] # a.run[1]
    BY <1>3, <1>13, <1>21
  <2>9. Len(path) <= Len(SubSeq(path, 1, i))
    <3>1. Len(path) <= Len(Path(before, b.run[1], Parents(h)))
      BY <1>9, <1>21, <2>7, <2>8
    <3> QED BY <2>7, <3>1
  <2>10. Len(path) <= i
    BY <2>5, <2>9, Zenon
  <2> QED BY <1>12, <2>3, <2>4, <2>10
<1>22. Earned(e, h)
  <2> DEFINE failing == {k \in h.jobs : Ref(k) = e.failure /\ k.conclusion = "failure"}
             validating == {k \in h.jobs : Ref(k) = e.id[4]}
             Ended(job, name, conclusions) ==
               \E i \in DOMAIN job.steps :
                 /\ job.steps[i].name = name /\ job.steps[i].conclusion \in conclusions
                 /\ \A k \in DOMAIN job.steps : job.steps[k].name = name => k <= i
             concluded == \E b \in h.attempts : Ref(b) = e.failure /\ b.conclusion # None
  <2>1. validating = JobsOf(next, h)
    BY <1>4 DEF JobsOf
  <2>2. f \in failing /\ j \in validating
    BY <1>2, <1>4, <1>16, <2>1
  <2>3. ASSUME NEW i \in DOMAIN f.steps, Ended(f, f.steps[i].name, Ran),
               Ended(j, f.steps[i].name, {"skipped"})
        PROVE  FALSE
    <3>1. PICK name : name = f.steps[i].name
      OBVIOUS
    <3>2. PICK m \in DOMAIN f.steps :
            /\ f.steps[m].name = name /\ f.steps[m].conclusion \in Ran
            /\ \A k \in DOMAIN f.steps : f.steps[k].name = name => k <= m
      BY <2>3, <3>1
    <3>3. PICK l \in DOMAIN j.steps :
            /\ j.steps[l].name = name /\ j.steps[l].conclusion = "skipped"
            /\ \A k \in DOMAIN j.steps : j.steps[k].name = name => k <= l
      BY <2>3, <3>1
    <3>4. ~RanStepBecameSkipped(f, j)
      BY <1>17
    <3> QED BY <1>19, <3>2, <3>3, <3>4, StepsCompared
  <2>4. /\ Identity(f) = e.id[1] /\ j.name = f.name /\ j.conclusion = "success"
        /\ f.steps # <<>> /\ j.steps # <<>> =>
             /\ DOMAIN f.steps = DOMAIN j.steps
             /\ \A i \in DOMAIN f.steps : f.steps[i].name = j.steps[i].name
    BY <1>4, <1>6, <1>16, <1>18
  <2>5. \A k \in validating : k.conclusion # "failure"
    BY <1>6, <2>1
  <2>6. \A b \in h.attempts :
          /\ b.run[1] = e.id[2] /\ b.run[2] = e.failure[1][2] =>
               /\ b.number <= e.failure[2]
               /\ concluded => b.conclusion # "success"
          /\ ~(b.run[2] = e.failure[1][2] /\ b.run[1] \in between \ {after})
    BY <1>3, <1>4, <1>20, <1>21 DEF Alike
  <2>7. /\ between = Between(e.id[2], e.id[3], h) /\ e.id[3] \in between
        /\ \A r \in between :
             Cardinality(ToSet(Shape[r].parents) \cap (between \cup {e.id[2]})) = 1
    BY <1>4, <1>13 DEF between
  <2>8. \A i \in DOMAIN f.steps :
          ~(Ended(f, f.steps[i].name, Ran) /\ Ended(j, f.steps[i].name, {"skipped"}))
    BY <2>3
  <2>9. \E k \in failing, l \in validating :
          /\ Identity(k) = e.id[1] /\ l.name = k.name /\ l.conclusion = "success"
          /\ \A i \in DOMAIN k.steps :
               ~(Ended(k, k.steps[i].name, Ran) /\ Ended(l, k.steps[i].name, {"skipped"}))
          /\ k.steps # <<>> /\ l.steps # <<>> =>
               /\ DOMAIN k.steps = DOMAIN l.steps
               /\ \A i \in DOMAIN k.steps : k.steps[i].name = l.steps[i].name
    <3> HIDE DEF failing, validating, Ended
    <3> QED BY <2>2, <2>4, <2>8
  <2> QED BY <1>4, <1>15, <2>5, <2>6, <2>7, <2>9 DEF Earned
<1>23. ASSUME e.verdict.grade = "B"
       PROVE  ToSet(Shape[after].parents) = {before} /\ h.signals = {}
  <2> HIDE DEF changes, complete
  <2>1. Confounders(a, next, changes, complete, h) \cap Material = {}
    BY <1>5, <1>6, <1>23
  <2>2. /\ ~(Cardinality(changes) > 1)
        /\ ~(\E r \in changes : IsMerge(r))
        /\ "base_ref_changed" \notin h.signals
        /\ "head_ref_force_pushed" \notin h.signals /\ "squash" \notin h.signals
    BY <2>1 DEF Confounders, If, Material
  <2>3. h.signals = {}
    BY <2>2 DEF Judgeable, Signals
  <2>4. PICK last \in 1..Len(path) : path[last] = after
    BY <1>12
  <2>5. after \in changes /\ IsFiniteSet(changes) /\ path[1] \in changes /\ after \in Revisions
    <3>1. DOMAIN path = 1..Len(path) /\ 1 \in 1..Len(path)
      BY <1>12, LenProperties
    <3>2. changes = {path[i] : i \in 1..Len(path)}
      BY <1>7, <3>1 DEF ToSet
    <3>3. IsFiniteSet(1..Len(path))
      BY <1>12, FS_Interval
    <3>4. IsFiniteSet({path[i] : i \in 1..Len(path)})
      BY <3>3, ImageFinite
    <3> QED BY <1>10, <1>13, <1>14, <1>7, <3>1, <3>2, <3>4
  <2>6. changes = {after}
    <3>1. Cardinality(changes) \in Nat /\ Cardinality(changes) <= 1
      BY <2>2, <2>5, FS_CardinalityType
    <3>2. Cardinality(changes) = 1
      BY <2>5, <3>1, FS_EmptySet
    <3> QED BY <2>5, <3>2, FS_Singleton
  <2>7. path[1] = after /\ before \in ToSet(Shape[after].parents)
    <3>1. path[1] = after
      BY <2>5, <2>6
    <3>2. 1 \in 1..Len(path) /\ Stop(path, before, 1 - 1) = before
      BY <1>12 DEF Stop
    <3> QED BY <1>12, <3>1, <3>2 DEF Linked
  <2>8. PICK parents : parents = Shape[after].parents
    OBVIOUS
  <2>9. parents \in Seq(Revisions \cup {Base}) /\ Len(parents) \in Nat /\ ~(Len(parents) > 1)
    BY <2>2, <2>5, <2>8, ShapeAssumption, LenProperties DEF IsMerge
  <2>10. DOMAIN parents = 1..Len(parents)
    BY <2>9, LenProperties
  <2>11. PICK i \in 1..Len(parents) : parents[i] = before
    BY <2>7, <2>8, <2>10 DEF ToSet
  <2>12. \A k \in 1..Len(parents) : k = i
    BY <2>9
  <2>13. ToSet(parents) = {before}
    BY <2>10, <2>11, <2>12 DEF ToSet
  <2> QED BY <2>3, <2>8, <2>13
<1> QED BY <1>4, <1>22, <1>23

\* Without a tie the order of hashes does not choose the next run.
LEMMA NextRunUntied ==
  ASSUME NEW h, Judgeable(h), ~Tied(h), NEW before \in h.attempts,
         \E f \in Failures(h) : Ref(f) = Ref(before), NEW one, NEW other
  PROVE  NextRun(before, h, one) = NextRun(before, h, other)
<1>1. PICK f \in Failures(h) : f.run = before.run /\ f.number = before.number
  BY DEF Ref
<1>2. ASSUME NEW a \in Nearest(before, h), NEW b \in Nearest(before, h) PROVE a = b
  <2>1. CASE Same(before, h) # {}
    <3>1. /\ a \in Same(before, h) /\ b \in Same(before, h)
          /\ a.number <= b.number /\ b.number <= a.number
      BY <1>2, <2>1 DEF Nearest
    <3>2. /\ a \in h.attempts /\ b \in h.attempts
          /\ Alike(a, f) /\ Alike(b, f) /\ a.number > f.number
      BY <1>1, <3>1 DEF Same, Alike
    <3>3. a.number = b.number
      BY <3>1, <3>2 DEF Judgeable, Known
    <3> QED BY <3>2, <3>3 DEF Tied, Alike
  <2>2. CASE Same(before, h) = {}
    <3>1. /\ a \in Later(before, h) /\ b \in Later(before, h)
          /\ Len(Way(a, before, h)) <= Len(Way(b, before, h))
          /\ Len(Way(b, before, h)) <= Len(Way(a, before, h))
      BY <1>2, <2>2 DEF Nearest
    <3>2. PICK s, t : /\ s = Path(f.run[1], a.run[1], Parents(h))
                      /\ t = Path(f.run[1], b.run[1], Parents(h))
      <4>1. \E s : s = Path(f.run[1], a.run[1], Parents(h))
        OBVIOUS
      <4>2. \E t : t = Path(f.run[1], b.run[1], Parents(h))
        OBVIOUS
      <4> QED BY <4>1, <4>2
    <3>3. /\ a \in h.attempts /\ b \in h.attempts
          /\ a.run[2] = f.run[2] /\ b.run[2] = f.run[2] /\ Proper(s) /\ Proper(t)
          /\ Len(s) <= Len(t) /\ Len(t) <= Len(s)
      BY <1>1, <3>1, <3>2 DEF Later, Way
    <3>4. h.commits \subseteq Revisions /\ f.run[1] \in Revisions
      BY <1>1 DEF Judgeable, Known, Attempts, Runs, Ref
    <3>5. s \in Seq(h.commits) /\ t \in Seq(h.commits)
      <4>1. Ways(f.run[1], a.run[1], h) = {s}
        BY <3>2, <3>3, <3>4, PathIs
      <4>2. Ways(f.run[1], b.run[1], h) = {t}
        BY <3>2, <3>3, <3>4, PathIs
      <4> QED BY <4>1, <4>2 DEF Ways
    <3>6. Len(s) = Len(t)
      BY <3>3, <3>5, LenProperties
    <3> QED BY <3>2, <3>3, <3>6 DEF Tied
  <2> QED BY <2>1, <2>2
<1>3. \A order : First(before, h, order) = Nearest(before, h)
  BY <1>2 DEF First
<1>4. Known(h)
  BY DEF Judgeable
<1>5. \A order : NextRun(before, h, order)
                   = IF First(before, h, order) = {} THEN None
                     ELSE CHOOSE a \in First(before, h, order) : TRUE
  BY <1>4, NextRunIs
<1>6. First(before, h, one) = First(before, h, other)
  BY <1>3, Zenon
<1> QED BY <1>5, <1>6, Zenon

\* Nor the job that is compared, when a name is that of one job.
LEMMA NamedOnce ==
  ASSUME NEW h, ~SameName(h), NEW a, NEW name, NEW one, NEW other
  PROVE  Named(name, JobsOf(a, h), one) = Named(name, JobsOf(a, h), other)
<1> DEFINE named == {j \in JobsOf(a, h) : j.name = name}
           Put(order) == {j \in named :
                            \A k \in named \ {j} : order[JobRef(j)] <= order[JobRef(k)]}
<1>1. \A j, k \in named : j = k
  BY DEF SameName, JobsOf
<1>2. \A order : Named(name, JobsOf(a, h), order)
                   = IF Put(order) = {} THEN None ELSE CHOOSE j \in Put(order) : TRUE
  BY DEF Named
<1> HIDE DEF named
<1>3. \A order : Put(order) = named
  BY <1>1
<1> QED BY <1>2, <1>3

\* Nor the failure whose episode is kept, when no two are twins: each is.
LEMMA AllKept ==
  ASSUME NEW h, Judgeable(h), ~Twins(h), NEW order, Telling(order)
  PROVE  Kept(h, order) = Judged(h, order)
<1> SUFFICES ASSUME NEW x \in Judged(h, order), NEW y \in Judged(h, order),
                    IdOf(y, h, order) = IdOf(x, h, order)
             PROVE  order[FailureRef(y[1])] <= order[FailureRef(x[1])]
  BY DEF Kept
<1>1. Known(h)
  BY DEF Judgeable
<1>2. PICK f, a, g, b : /\ f = x[1] /\ a = x[2] /\ g = y[1] /\ b = y[2]
                        /\ f \in Failures(h) /\ f \in h.jobs /\ a \in h.attempts
                        /\ g \in Failures(h) /\ g \in h.jobs /\ b \in h.attempts
                        /\ Ref(f) = Ref(a) /\ Ref(g) = Ref(b)
                        /\ NextRun(a, h, order) # None /\ NextRun(b, h, order) # None
  BY EpisodesAre
<1>3. PICK n, m : n = NextRun(a, h, order) /\ m = NextRun(b, h, order)
  <2>1. \E n : n = NextRun(a, h, order)
    OBVIOUS
  <2>2. \E m : m = NextRun(b, h, order)
    OBVIOUS
  <2> QED BY <2>1, <2>2
<1>4. Follows(n, a, h) /\ Follows(m, b, h)
  BY <1>1, <1>2, <1>3, NextRunFollows
<1>5. Identity(f) = Identity(g) /\ a.run[1] = b.run[1] /\ Ref(n) = Ref(m)
  BY <1>2, <1>3 DEF IdOf, EpisodeId
<1>6. n = m
  BY <1>1, <1>4, <1>5 DEF Known, Follows
<1>7. Alike(a, b)
  BY <1>4, <1>5, <1>6 DEF Follows, Alike
<1>8. a.number = b.number
  BY <1>1, <1>2, <1>4, <1>6, <1>7, FollowsApart
<1>9. Alike(f, g) /\ f.number = g.number
  BY <1>2, <1>7, <1>8 DEF Alike, Ref
<1>10. f = g
  BY <1>2, <1>5, <1>9 DEF Twins
<1>11. order[FailureRef(f)] \in Nat
  BY <1>1, <1>2, FailuresTold
<1> QED BY <1>2, <1>10, <1>11

\* So where nothing is there twice the episodes do not depend on the hashes.
LEMMA EpisodesUntied ==
  ASSUME NEW h, Judgeable(h), ~Tied(h), ~SameName(h), ~Twins(h),
         NEW one, NEW other, Telling(one), Telling(other)
  PROVE  Episodes(h, one) = Episodes(h, other)
<1>1. \A x \in Failures(h) \X h.attempts :
        Ref(x[1]) = Ref(x[2]) => NextRun(x[2], h, one) = NextRun(x[2], h, other)
  BY NextRunUntied
<1>2. Judged(h, one) = Judged(h, other)
  BY <1>1 DEF Judged
<1>3. \A x \in Judged(h, one) : NextRun(x[2], h, one) = NextRun(x[2], h, other)
  BY <1>1 DEF Judged
<1>4. ASSUME NEW x \in Judged(h, one) PROVE EpisodeOf(x, h, one) = EpisodeOf(x, h, other)
  <2>1. PICK next : next = NextRun(x[2], h, one) /\ next = NextRun(x[2], h, other)
    BY <1>3
  <2>2. Named(x[1].name, JobsOf(next, h), one) = Named(x[1].name, JobsOf(next, h), other)
    BY NamedOnce
  <2>3. Episode(x[1], x[2], next, h, one) = Episode(x[1], x[2], next, h, other)
    BY <2>2 DEF Episode
  <2> QED BY <2>1, <2>3 DEF EpisodeOf
<1>5. /\ Episodes(h, one) = {EpisodeOf(x, h, one) : x \in Judged(h, one)}
      /\ Episodes(h, other) = {EpisodeOf(x, h, other) : x \in Judged(h, other)}
  BY AllKept, EpisodesAre
<1> QED BY <1>2, <1>4, <1>5

-----------------------------------------------------------------------------
(***************************************************************************)
(* What the bootstrap judges by.                                           *)
(***************************************************************************)

\* An attempt is read with the conclusion it has.
LEMMA AttemptsReadTrue ==
  ASSUME NEW run, NEW gone
  PROVE  \A a \in AttemptsOf(run, gone) : AttemptTrue(a)
BY DEF AttemptsOf, AttemptTrue

\* The jobs of an attempt are listed with what became of them, and a failed
\* one fails the attempt.
LEMMA JobsListedTrue ==
  ASSUME WorldTyped, NEW run \in Runs
  PROVE  \A j \in ListedJobs(run) : JobTrue(j)
<1> DEFINE own == world.attempts[run]
           Job(n, id, conclusion, steps) ==
             [run |-> run, number |-> n, id |-> id, name |-> JobName[id],
              conclusion |-> conclusion, steps |-> steps]
<1> SUFFICES ASSUME NEW j \in ListedJobs(run) PROVE JobTrue(j)
  OBVIOUS
<1>1. own \in Seq(Results \cup {Running})
  BY DEF WorldTyped
<1>2. PICK n \in DOMAIN own :
        j \in IF own[n] = Running THEN {Job(n, id, None, <<>>) : id \in Jobs}
              ELSE {Job(n, id, own[n][id].conclusion, own[n][id].steps) :
                      id \in DOMAIN own[n]}
  BY DEF ListedJobs
<1>3. own[n] \in Results \cup {Running}
  BY <1>1, ElementOfSeq, LenProperties
<1>4. CASE own[n] = Running
  <2>1. j.conclusion = None /\ j.steps = <<>>
    BY <1>2, <1>4
  <2>2. None # "failure"
    BY NoneAssumption DEF Conclusions
  <2> QED BY <2>1, <2>2, EmptySeq DEF JobTrue
<1>5. CASE own[n] # Running
  <2>1. PICK id \in DOMAIN own[n] :
          j = Job(n, id, own[n][id].conclusion, own[n][id].steps)
    BY <1>2, <1>5
  <2>2. /\ j.run = run /\ j.number = n /\ j.conclusion = own[n][id].conclusion
        /\ j.steps = own[n][id].steps
    BY <2>1
  <2>3. j.steps \in Seq(ToSet(j.steps))
    BY <1>3, <1>5, <2>1, <2>2, WorldAssumption
  <2>4. ASSUME j.conclusion = "failure" PROVE Conclusion(own[n]) = "failure"
    <3>1. "failure" \in {own[n][k].conclusion : k \in DOMAIN own[n]}
      BY <2>1, <2>2, <2>4
    <3> QED BY <1>5, <3>1 DEF Conclusion
  <2> QED BY <1>5, <2>2, <2>3, <2>4 DEF JobTrue
<1> QED BY <1>4, <1>5

\* What is at hand of an attempt and of a job stays true as they go on.
LEMMA TruthKept ==
  ASSUME HistoryInv, JudgedInv, EndedStays, boot' = boot, hash' = hash,
         world'.signals \subseteq Signals
  PROVE  JudgedInv'
<1> USE DEF HistoryInv, HarvestInv
<1>1. ASSUME boot.step # "idle", NEW a \in boot.h.attempts PROVE AttemptTrue(a)'
  <2>1. AttemptKnown(a) /\ AttemptTrue(a)
    BY <1>1 DEF JudgedInv
  <2>2. a.run \in Runs /\ a.number \in DOMAIN world.attempts[a.run]
    BY <2>1 DEF AttemptKnown
  <2>3. a.conclusion # None => world'.attempts[a.run][a.number]
                                 = world.attempts[a.run][a.number]
    BY <2>1, <2>2 DEF EndedStays, AttemptKnown
  <2>4. PICK result : result = world.attempts[a.run][a.number]
    OBVIOUS
  <2>5. a.conclusion # None =>
          a.conclusion = Conclusion(result) /\ world'.attempts[a.run][a.number] = result
    BY <2>1, <2>3, <2>4 DEF AttemptTrue
  <2> QED BY <2>5 DEF AttemptTrue, Conclusion
<1>2. ASSUME boot.step # "idle", NEW j \in boot.h.jobs PROVE JobTrue(j)'
  <2>1. JobTrue(j) /\ j.run \in Runs /\ j.number \in DOMAIN world.attempts[j.run]
    BY <1>2 DEF JudgedInv, JobKnown
  <2>2. j.conclusion = "failure" =>
          /\ j.number \in DOMAIN world'.attempts[j.run]
          /\ world'.attempts[j.run][j.number] = world.attempts[j.run][j.number]
    BY <2>1 DEF EndedStays, JobTrue
  <2> QED BY <2>1, <2>2 DEF JobTrue, Conclusion
<1>3. boot.step = "store" =>
        /\ boot.episodes = Episodes(boot.h, Hashes[hash])
        /\ \A r \in boot.h.commits : ~Shape[r].secret
  BY DEF JudgedInv
<1> QED BY <1>1, <1>2, <1>3 DEF JudgedInv

\* A step of the bootstrap keeps what stays at hand and has to see to the rest.
LEMMA TruthAdded ==
  ASSUME JudgedInv, boot.step # "idle", UNCHANGED world,
         boot'.h.signals \subseteq Signals, boot'.h.commits \subseteq Revisions,
         \A a \in boot'.h.attempts : a \in boot.h.attempts \/ AttemptTrue(a),
         \A j \in boot'.h.jobs : j \in boot.h.jobs \/ JobTrue(j),
         boot'.step # "store"
  PROVE  JudgedInv'
<1>1. ASSUME NEW a \in boot'.h.attempts PROVE AttemptTrue(a)'
  <2>1. AttemptTrue(a)
    BY DEF JudgedInv
  <2> QED BY <2>1 DEF AttemptTrue, Conclusion
<1>2. ASSUME NEW j \in boot'.h.jobs PROVE JobTrue(j)'
  <2>1. JobTrue(j)
    BY DEF JudgedInv
  <2> QED BY <2>1 DEF JobTrue, Conclusion
<1> QED BY <1>1, <1>2 DEF JudgedInv

\* What the episodes are judged by is what became of the pull request, in
\* every state (provider.py:332-378).
THEOREM JudgedInvariant == Spec => []JudgedInv
<1>1. Init => JudgedInv
  BY WorldAssumption DEF Init, Idle, JudgedInv
<1>2. HistoryInv /\ JudgedInv /\ [Next]_vars => JudgedInv'
  <2> SUFFICES ASSUME HistoryInv, JudgedInv, [Next]_vars PROVE JudgedInv'
    OBVIOUS
  <2>0. /\ WorldTyped /\ BootShaped
        /\ boot.step # "idle" => HarvestInv /\ EpisodesInv
        /\ world.signals \subseteq Signals
    BY DEF HistoryInv, JudgedInv
  <2> DEFINE h == boot.h
  <2>1. ASSUME ForcePush \/ \E r \in Revisions : Push(r) PROVE JudgedInv'
    <3>1. EndedStays /\ boot' = boot /\ hash' = hash
      BY <2>0, <2>1, Pushed DEF ForcePush, Push, Change
    <3>2. world'.signals \subseteq Signals
      BY <2>0, <2>1 DEF ForcePush, Push, WorldTyped, Signals
    <3> QED BY <3>1, <3>2, TruthKept
  <2>2. ASSUME NEW run \in Runs, Trigger(run) PROVE JudgedInv'
    <3>1. EndedStays /\ boot' = boot /\ hash' = hash
      BY <2>0, <2>2, Triggered DEF Trigger, Change
    <3>2. world'.signals \subseteq Signals
      BY <2>0, <2>2 DEF Trigger, WorldTyped
    <3> QED BY <3>1, <3>2, TruthKept
  <2>3. ASSUME NEW run \in Runs, NEW result \in Results, Complete(run, result)
        PROVE  JudgedInv'
    <3>1. EndedStays /\ boot' = boot /\ hash' = hash
      BY <2>0, <2>3, Completed DEF Complete, Change
    <3>2. world'.signals \subseteq Signals
      BY <2>0, <2>3 DEF Complete, WorldTyped
    <3> QED BY <3>1, <3>2, TruthKept
  <2>4. ASSUME NEW lineage \in Lineages, Start(lineage) PROVE JudgedInv'
    <3>1. /\ boot'.step = "timeline" /\ world' = world
          /\ boot'.h.signals = {} /\ boot'.h.commits = {}
          /\ boot'.h.attempts = {} /\ boot'.h.jobs = {}
      BY <2>4 DEF Start
    <3> QED BY <2>0, <3>1 DEF JudgedInv
  <2>5. CASE FetchTimeline
    <3>1. /\ boot.step = "timeline" /\ UNCHANGED world
          /\ boot' = [boot EXCEPT !.step = "commits", !.h.signals = world.signals]
      BY <2>5 DEF FetchTimeline, Fetching, At
    <3>2. /\ boot'.step = "commits" /\ boot'.h.signals = world.signals
          /\ boot'.h.commits = h.commits /\ boot'.h.attempts = h.attempts
          /\ boot'.h.jobs = h.jobs
      BY <2>0, <3>1 DEF BootShaped
    <3> QED BY <2>0, <3>1, <3>2, TruthAdded DEF JudgedInv
  <2>6. CASE FetchCommits
    <3>1. /\ boot.step = "commits" /\ UNCHANGED world
          /\ boot' = [boot EXCEPT !.step = "runs", !.todo = world.commits,
                                  !.h.commits = ToSet(world.commits)]
      BY <2>6 DEF FetchCommits, Fetching, At
    <3>2. /\ boot'.step = "runs" /\ boot'.h.signals = h.signals
          /\ boot'.h.commits = ToSet(world.commits) /\ boot'.h.attempts = h.attempts
          /\ boot'.h.jobs = h.jobs
      BY <2>0, <3>1 DEF BootShaped
    <3>3. ToSet(world.commits) \subseteq Revisions
      BY <2>0, LenProperties, ElementOfSeq DEF WorldTyped, ToSet
    <3> QED BY <3>1, <3>2, <3>3, TruthAdded DEF JudgedInv
  <2>7. CASE FetchRuns
    <3> DEFINE listed == RunsOf(Head(boot.todo))
               Earlier(run) == 1..(Len(world.attempts[run]) - 1)
    <3>1. boot.step = "runs" /\ UNCHANGED world
      BY <2>7 DEF FetchRuns, Fetching, At
    <3>2. PICK gone \in [listed -> SUBSET UNION {Earlier(run) : run \in listed}] :
            boot' = [boot EXCEPT !.step = "jobs",
              !.h.attempts = @ \cup UNION {AttemptsOf(run, gone[run]) : run \in listed}]
      BY <2>7 DEF FetchRuns
    <3> DEFINE new == UNION {AttemptsOf(run, gone[run]) : run \in listed}
    <3>3. /\ boot'.step = "jobs" /\ boot'.h.signals = h.signals
          /\ boot'.h.commits = h.commits /\ boot'.h.attempts = h.attempts \cup new
          /\ boot'.h.jobs = h.jobs
      BY <2>0, <3>1, <3>2 DEF BootShaped
    <3>4. \A a \in new : AttemptTrue(a)
      BY AttemptsReadTrue
    <3> QED BY <3>1, <3>3, <3>4, TruthAdded DEF JudgedInv
  <2>8. CASE FetchJobs
    <3> DEFINE runs == RunsToAsk
               new == UNION {Collected(ListedJobs(run)) : run \in runs}
    <3>1. boot.step = "jobs" /\ UNCHANGED world
      BY <2>8 DEF FetchJobs, Fetching, At
    <3>2. /\ boot' = [boot EXCEPT !.step = "runs", !.todo = Tail(@), !.h.jobs = @ \cup new]
          /\ \A run \in runs : Collected(ListedJobs(run)) = ListedJobs(run)
      BY <2>8 DEF FetchJobs, Collected
    <3>3. /\ boot'.step = "runs" /\ boot'.h.signals = h.signals
          /\ boot'.h.commits = h.commits /\ boot'.h.attempts = h.attempts
          /\ boot'.h.jobs = h.jobs \cup new
      <4> HIDE DEF new
      <4> QED BY <2>0, <3>1, <3>2 DEF BootShaped
    <3>4. \A run \in runs : run \in Runs
      BY <2>0, <3>1 DEF RunsToAsk, HarvestInv, AttemptKnown
    <3>5. \A j \in new : JobTrue(j)
      BY <2>0, <3>2, <3>4, JobsListedTrue
    <3> QED BY <3>1, <3>3, <3>5, TruthAdded DEF JudgedInv
  <2>9. CASE FailHarvest \/ Crash
    BY <2>0, <2>9 DEF FailHarvest, Crash, Quit, Idle, JudgedInv
  <2>10. CASE Reconstruct
    <3> DEFINE s == Screened(boot.h)
    <3>1. /\ boot.step = "screen" /\ UNCHANGED <<world, hash>>
          /\ boot' = [boot EXCEPT !.step = "store", !.h = s, !.episodes = Episodes(s, Hashes[hash])]
      BY <2>10 DEF Reconstruct, At
    <3>2. /\ s.attempts = h.attempts /\ s.jobs = h.jobs /\ s.signals = h.signals
          /\ s.commits = {r \in h.commits : ~Shape[r].secret}
      BY <2>0, <3>1 DEF Screened, BootShaped
    <3> HIDE DEF s
    <3>3. boot'.step = "store" /\ boot'.h = s /\ boot'.episodes = Episodes(s, Hashes[hash])
      BY <2>0, <3>1 DEF BootShaped
    <3>4. ASSUME NEW a \in s.attempts PROVE AttemptTrue(a)'
      <4>1. AttemptTrue(a)
        BY <3>1, <3>2 DEF JudgedInv
      <4> QED BY <3>1, <4>1 DEF AttemptTrue, Conclusion
    <3>5. \A j \in s.jobs : JobTrue(j)'
      BY <3>1, <3>2 DEF JudgedInv, JobTrue, Conclusion
    <3> QED BY <2>0, <3>1, <3>2, <3>3, <3>4, <3>5 DEF JudgedInv
  <2>11. CASE WriteCheckpoint \/ StoreEpisodes \/ Project \/ Ingest \/ Finish
    <3>1. boot.step # "idle" /\ UNCHANGED world
      BY <2>11 DEF WriteCheckpoint, StoreEpisodes, Project, Ingest, Finish, At
    <3>2. (boot'.h = h /\ boot'.step # "store") \/ boot' = Idle
      BY <2>0, <2>11 DEF WriteCheckpoint, StoreEpisodes, Project, Ingest, Finish, Goto,
                         At, Quit, BootShaped
    <3>3. CASE boot'.h = h /\ boot'.step # "store"
      BY <3>1, <3>3, TruthAdded DEF JudgedInv
    <3>4. CASE boot' = Idle
      BY <2>0, <3>1, <3>4 DEF Idle, JudgedInv
    <3> QED BY <3>2, <3>3, <3>4
  <2>12. CASE UNCHANGED vars
    <3>1. EndedStays /\ boot' = boot /\ hash' = hash /\ world'.signals \subseteq Signals
      BY <2>0, <2>12 DEF vars, EndedStays
    <3> QED BY <3>1, TruthKept
  <2> QED BY <2>1, <2>2, <2>3, <2>4, <2>5, <2>6, <2>7, <2>8, <2>9, <2>10, <2>11,
             <2>12 DEF Next
<1> QED BY <1>1, <1>2, HistoryInvariant, PTL DEF Spec

\* When the episodes are reconstructed they can be judged by the harvest.
LEMMA StoredJudgeable ==
  ASSUME HistoryInv, JudgedInv, boot.step = "store"
  PROVE  Judgeable(boot.h)
<1>1. WorldTyped /\ HarvestInv
  BY DEF HistoryInv
<1>2. Known(boot.h)
  BY <1>1, HarvestIsKnown
<1>3. ASSUME NEW j \in Failures(boot.h), NEW a \in boot.h.attempts,
             Ref(a) = Ref(j), a.conclusion # None
      PROVE  a.conclusion = "failure"
  <2>1. a.run = j.run /\ a.number = j.number /\ j \in boot.h.jobs
        /\ j.conclusion = "failure"
    BY <1>3 DEF Ref, Failures
  <2> QED BY <1>3, <2>1 DEF JudgedInv, AttemptTrue, JobTrue
<1>4. \A j \in boot.h.jobs : j.steps \in Seq(ToSet(j.steps))
  BY DEF JudgedInv, JobTrue
<1> QED BY <1>2, <1>3, <1>4 DEF JudgedInv, Judgeable

\* An episode that teaches a confirmed repair has earned it: nothing of what
\* the harvest says of its failure, of the commits between and of its
\* validation speaks against it (attribution.py, reconstruction.py).
THEOREM CreditAlwaysEarned == Spec => []CreditEarned
<1>1. HistoryInv /\ JudgedInv => CreditEarned
  <2> SUFFICES ASSUME HistoryInv, JudgedInv, boot.step = "store",
                      NEW episode \in boot.episodes, Credited(episode)
               PROVE  /\ Earned(episode, boot.h)
                      /\ episode.verdict.grade = "B" =>
                           /\ ToSet(Shape[episode.id[3]].parents) = {episode.id[2]}
                           /\ boot.h.signals = {}
    BY DEF CreditEarned, At
  <2>1. episode \in Episodes(boot.h, Hashes[hash]) /\ Judgeable(boot.h)
    BY StoredJudgeable DEF JudgedInv
  <2> QED BY <2>1, EpisodeEarned
<1> QED BY <1>1, HistoryInvariant, JudgedInvariant, PTL

\* Where a harvest has nothing twice (no two attempts come next after a
\* failure, no two jobs of an attempt have a name, no two runs of a revision
\* fail alike in attempts of a number) its episodes do not depend on the hashes
\* observations are sorted by (reconstruction.py:199, 353, 462, 470).
THEOREM HashDecidesTiesOnly == Spec => []HashIrrelevant
<1>1. HistoryInv /\ JudgedInv => HashIrrelevant
  <2> SUFFICES ASSUME HistoryInv, JudgedInv, boot.step = "store", ~Tied(boot.h),
                      ~SameName(boot.h), ~Twins(boot.h), NEW other \in DOMAIN Hashes
               PROVE  Episodes(boot.h, Hashes[other]) = boot.episodes
    BY DEF HashIrrelevant, At
  <2>1. boot.episodes = Episodes(boot.h, Hashes[hash]) /\ Judgeable(boot.h)
    BY StoredJudgeable DEF JudgedInv
  <2>2. Telling(Hashes[hash]) /\ Telling(Hashes[other])
    BY HashesAssumption DEF HistoryInv, Telling
  <2> QED BY <2>1, <2>2, EpisodesUntied
<1> QED BY <1>1, HistoryInvariant, JudgedInvariant, PTL
=============================================================================
