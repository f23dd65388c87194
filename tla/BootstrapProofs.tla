--------------------------- MODULE BootstrapProofs ----------------------------
(***************************************************************************)
(* The historical bootstrap: what is true of a harvest, of its episodes    *)
(* and of their events in every state, whatever becomes of the pull        *)
(* request meanwhile and wherever a bootstrap stops.                       *)
(***************************************************************************)
EXTENDS HistoryInvariants, SequenceTheorems, FunctionTheorems, FiniteSetTheorems,
        TLAPS

-----------------------------------------------------------------------------
(***************************************************************************)
(* Finite sets and the sequences made of them.                             *)
(***************************************************************************)

\* What a function makes of a finite set is finite.
LEMMA ImageFinite ==
  ASSUME NEW S, IsFiniteSet(S), NEW f
  PROVE  IsFiniteSet({f[x] : x \in S})
<1> DEFINE T == {f[x] : x \in S}
           g == [x \in S |-> f[x]]
<1>1. g \in [S -> T] /\ \A t \in T : \E x \in S : g[x] = t
  OBVIOUS
<1>2. g \in Surjection(S, T)
  BY <1>1, Fun_IsSurj
<1> QED BY <1>2, FS_Surjection

\* SetToSeq lists the elements of a finite set, each once.
LEMMA SetListed ==
  ASSUME NEW S, IsFiniteSet(S)
  PROVE  /\ SetToSeq(S) \in Seq(S)
         /\ ToSet(SetToSeq(S)) = S
<1> DEFINE n == Cardinality(S)
           s == SetToSeq(S)
<1>1. n \in Nat /\ ExistsBijection(1..n, S)
  BY FS_CardinalityType
<1>2. PICK f : f \in Bijection(1..n, S)
  BY <1>1 DEF ExistsBijection
<1>3. f \in [1..n -> S] /\ IsInjective(f)
  BY <1>2 DEF Bijection, Injection
<1>4. s \in [1..n -> S] /\ IsInjective(s)
  BY <1>3 DEF SetToSeq
<1> HIDE DEF n, s
<1>5. s \in Injection(1..n, S)
  BY <1>4 DEF Injection
<1>6. IsFiniteSet(1..n) /\ Cardinality(1..n) = n /\ n = Cardinality(S)
  BY <1>1, FS_Interval DEF n
<1>7. s \in Surjection(1..n, S)
  BY <1>5, <1>6, FS_Injection
<1>8. \A x \in S : \E i \in 1..n : s[i] = x
  BY <1>7 DEF Surjection
<1>9. s \in Seq(S) /\ DOMAIN s = 1..n
  BY <1>1, <1>4, SeqDef
<1> QED BY <1>4, <1>8, <1>9 DEF ToSet, s

\* The head of a sequence and what it leaves.
LEMMA Popped ==
  ASSUME NEW S, NEW s \in Seq(S), s # <<>>
  PROVE  /\ DOMAIN s = 1..Len(s) /\ Len(s) \in Nat \ {0}
         /\ Head(s) = s[1] /\ Head(s) \in S
         /\ Tail(s) \in Seq(S) /\ Len(Tail(s)) = Len(s) - 1
         /\ DOMAIN Tail(s) = 1..(Len(s) - 1)
         /\ \A i \in 1..(Len(s) - 1) : Tail(s)[i] = s[i + 1]
         /\ Tail(s) # <<>> <=> Len(s) > 1
<1>1. DOMAIN s = 1..Len(s) /\ Len(s) \in Nat \ {0} /\ Head(s) = s[1]
  BY EmptySeq, LenProperties
<1> DEFINE t == Tail(s)
<1>2. /\ Head(s) \in S /\ t \in Seq(S) /\ Len(t) = Len(s) - 1
      /\ \A i \in 1..Len(t) : t[i] = s[i + 1]
  BY HeadTailProperties
<1> HIDE DEF t
<1>3. DOMAIN t = 1..Len(t)
  BY <1>2, LenProperties
<1>4. t # <<>> => Len(t) \in Nat \ {0}
  BY <1>2, EmptySeq
<1>5. t = <<>> => Len(t) = 0
  BY EmptySeq
<1> QED BY <1>1, <1>2, <1>3, <1>4, <1>5 DEF t

\* What is left of a sequence without repetitions once its head is taken.
LEMMA TailInjective ==
  ASSUME NEW S, NEW s \in Seq(S), IsInjective(s), s # <<>>
  PROVE  /\ Tail(s) \in Seq(S) /\ IsInjective(Tail(s))
         /\ Head(s) \in S /\ Head(s) \in ToSet(s) /\ Head(s) \notin ToSet(Tail(s))
         /\ ToSet(s) = {Head(s)} \cup ToSet(Tail(s))
<1> DEFINE t == Tail(s)
<1>1. /\ Head(s) \in S /\ t \in Seq(S) /\ Len(t) = Len(s) - 1
      /\ \A i \in 1..Len(t) : t[i] = s[i + 1]
  BY Popped
<1>2. DOMAIN s = 1..Len(s) /\ DOMAIN t = 1..Len(t) /\ Len(s) \in Nat
  BY Popped
<1>3. Len(s) # 0 /\ Head(s) = s[1]
  BY Popped
<1>4. \A i \in DOMAIN s : i # 1 => i - 1 \in DOMAIN t /\ s[i] = t[i - 1]
  BY <1>1, <1>2, <1>3
<1>5. \A i \in DOMAIN t : i + 1 \in DOMAIN s /\ i + 1 # 1
  BY <1>1, <1>2, <1>3
<1>6. IsInjective(t)
  <2> SUFFICES ASSUME NEW i \in DOMAIN t, NEW k \in DOMAIN t, t[i] = t[k]
               PROVE  i = k
    BY DEF IsInjective
  <2>1. s[i + 1] = s[k + 1]
    BY <1>1, <1>2
  <2>2. i + 1 = k + 1
    BY <1>5, <2>1 DEF IsInjective
  <2> QED BY <1>2, <2>2
<1>7. Head(s) \notin ToSet(t)
  <2> SUFFICES ASSUME NEW i \in DOMAIN t, t[i] = s[1]
               PROVE  FALSE
    BY <1>3 DEF ToSet
  <2>1. s[i + 1] = s[1] /\ 1 \in DOMAIN s
    BY <1>1, <1>2, <1>3
  <2> QED BY <1>5, <2>1 DEF IsInjective
<1>8. ToSet(s) = {Head(s)} \cup ToSet(t)
  <2>1. ASSUME NEW x \in ToSet(s) PROVE x = s[1] \/ x \in ToSet(t)
    BY <1>4 DEF ToSet
  <2>2. ToSet(t) \subseteq ToSet(s)
    BY <1>1, <1>2, <1>5 DEF ToSet
  <2>3. s[1] \in ToSet(s)
    BY <1>2, <1>3 DEF ToSet
  <2> QED BY <1>3, <2>1, <2>2, <2>3
<1> QED BY <1>1, <1>6, <1>7, <1>8

\* All but the last element of a sequence.
LEMMA FrontProperties ==
  ASSUME NEW S, NEW s \in Seq(S), s # <<>>
  PROVE  /\ Front(s) \in Seq(S) /\ Len(Front(s)) = Len(s) - 1
         /\ \A i \in 1..(Len(s) - 1) : Front(s)[i] = s[i]
<1>1. DOMAIN s = 1..Len(s) /\ Len(s) \in Nat \ {0}
  BY EmptySeq, LenProperties
<1>2. \A i \in 1..(Len(s) - 1) : s[i] \in S
  BY <1>1, ElementOfSeq
<1>3. 1 \in Int /\ Len(s) - 1 \in Int
  BY <1>1
<1>4. /\ Front(s) \in Seq(S)
      /\ Len(Front(s)) = IF 1 <= Len(s) - 1 THEN Len(s) - 1 - 1 + 1 ELSE 0
      /\ \A i \in 1..(Len(s) - 1 - 1 + 1) : Front(s)[i] = s[1 + i - 1]
  BY <1>2, <1>3, SubSeqProperties DEF Front
<1> DEFINE t == Front(s)
           n == Len(s)
<1> HIDE DEF t, n
<1>5. n \in Nat \ {0} /\ Len(t) = IF 1 <= n - 1 THEN n - 1 - 1 + 1 ELSE 0
  BY <1>1, <1>4 DEF t, n
<1>6. Len(t) = n - 1 /\ n - 1 - 1 + 1 = n - 1
  BY <1>5
<1>7. \A i \in 1..(n - 1) : t[i] = s[1 + i - 1] /\ 1 + i - 1 = i
  BY <1>4, <1>6 DEF t, n
<1> QED BY <1>4, <1>6, <1>7 DEF t, n

-----------------------------------------------------------------------------
(***************************************************************************)
(* Reconstruction.                                                         *)
(***************************************************************************)

\* The parts of a harvest that are told apart by what identifies them.
Known(h) ==
  /\ \A a \in h.attempts : Ref(a) \in Attempts /\ a.number \in Nat
  /\ \A a, b \in h.attempts : Ref(a) = Ref(b) => a = b
  /\ \A j \in h.jobs : Ref(j) \in Attempts /\ j.id \in Jobs
  /\ \A j, k \in h.jobs : JobRef(j) = JobRef(k) => j = k

\* What is observed has a hash of its own.
Telling(order) == order \in [Observed -> Nat] /\ IsInjective(order)

\* Failures of a harvest that have the same hash are the same.
LEMMA FailuresTold ==
  ASSUME NEW h, Known(h), NEW order, Telling(order),
         NEW j \in h.jobs, NEW k \in h.jobs
  PROVE  /\ order[FailureRef(j)] \in Nat
         /\ order[FailureRef(j)] = order[FailureRef(k)] => j = k
<1>1. ASSUME NEW i \in h.jobs PROVE FailureRef(i) \in Observed
  <2>1. Ref(i) \in Attempts /\ i.id \in Jobs
    BY DEF Known
  <2>2. FailureRef(i) = <<Ref(i)[1], Ref(i)[2], i.id, "failure">>
    BY DEF FailureRef, Ref
  <2> QED BY <2>1, <2>2 DEF Observed
<1>2. FailureRef(j) \in Observed /\ FailureRef(k) \in Observed
  BY <1>1
<1>3. order[FailureRef(j)] = order[FailureRef(k)] => FailureRef(j) = FailureRef(k)
  BY <1>2 DEF Telling, IsInjective
<1>4. FailureRef(j) = FailureRef(k) => JobRef(j) = JobRef(k)
  BY DEF FailureRef, JobRef
<1> QED BY <1>2, <1>3, <1>4 DEF Known, Telling

\* The pairs of a failed job and its attempt that episodes are made of, the
\* identities of these, and the pairs of which they are kept.
Judged(h, order) ==
  {x \in Failures(h) \X h.attempts :
     Ref(x[1]) = Ref(x[2]) /\ NextRun(x[2], h, order) # None}

IdOf(x, h, order) == EpisodeId(x[1], x[2], NextRun(x[2], h, order))

Kept(h, order) ==
  {x \in Judged(h, order) : \A y \in Judged(h, order) :
     IdOf(y, h, order) = IdOf(x, h, order) =>
       order[FailureRef(y[1])] <= order[FailureRef(x[1])]}

EpisodeOf(x, h, order) == Episode(x[1], x[2], NextRun(x[2], h, order), h, order)

LEMMA EpisodesAre ==
  ASSUME NEW h, NEW order
  PROVE  /\ Episodes(h, order) = {EpisodeOf(x, h, order) : x \in Kept(h, order)}
         /\ \A x \in Judged(h, order) :
              /\ x = <<x[1], x[2]>> /\ x[1] \in Failures(h) /\ x[1] \in h.jobs
              /\ x[2] \in h.attempts /\ Ref(x[1]) = Ref(x[2])
              /\ NextRun(x[2], h, order) # None
              /\ EpisodeOf(x, h, order).id = IdOf(x, h, order)
<1>1. \A x : EpisodeOf(x, h, order).id = IdOf(x, h, order)
  BY DEF EpisodeOf, IdOf, Episode
<1>2. \A x \in Judged(h, order) :
        /\ x = <<x[1], x[2]>> /\ x[1] \in Failures(h) /\ x[1] \in h.jobs
        /\ x[2] \in h.attempts /\ Ref(x[1]) = Ref(x[2])
        /\ NextRun(x[2], h, order) # None
  BY DEF Judged, Failures
<1>3. Episodes(h, order) = {EpisodeOf(x, h, order) : x \in Kept(h, order)}
  BY DEF Episodes, Kept, EpisodeOf, Judged, IdOf
<1> QED BY <1>1, <1>2, <1>3

\* Of the failures with one episode identity one is kept.
LEMMA EpisodesDistinct ==
  ASSUME NEW h, Known(h), NEW order, Telling(order)
  PROVE  Distinct(Episodes(h, order))
<1>1. ASSUME NEW x \in Kept(h, order), NEW y \in Kept(h, order),
             EpisodeOf(x, h, order).id = EpisodeOf(y, h, order).id
      PROVE  x = y
  <2>1. x \in Judged(h, order) /\ y \in Judged(h, order)
    BY DEF Kept
  <2>2. /\ x = <<x[1], x[2]>> /\ x[1] \in h.jobs /\ x[2] \in h.attempts
        /\ y = <<y[1], y[2]>> /\ y[1] \in h.jobs /\ y[2] \in h.attempts
        /\ Ref(x[1]) = Ref(x[2]) /\ Ref(y[1]) = Ref(y[2])
        /\ IdOf(x, h, order) = IdOf(y, h, order)
    BY <1>1, <2>1, EpisodesAre
  <2>3. /\ order[FailureRef(y[1])] <= order[FailureRef(x[1])]
        /\ order[FailureRef(x[1])] <= order[FailureRef(y[1])]
    BY <2>1, <2>2 DEF Kept
  <2>4. order[FailureRef(x[1])] \in Nat /\ order[FailureRef(y[1])] \in Nat
    BY <2>2, FailuresTold
  <2>5. order[FailureRef(x[1])] = order[FailureRef(y[1])]
    BY <2>3, <2>4
  <2>6. x[1] = y[1]
    BY <2>2, <2>5, FailuresTold
  <2>7. x[2] = y[2]
    BY <2>2, <2>6 DEF Known
  <2> QED BY <2>2, <2>6, <2>7
<1> QED BY <1>1, EpisodesAre DEF Distinct

\* A harvest yields a finite number of episodes.
LEMMA EpisodesFinite ==
  ASSUME NEW h, NEW order, IsFiniteSet(h.attempts), IsFiniteSet(h.jobs)
  PROVE  IsFiniteSet(Episodes(h, order))
<1> DEFINE K == Kept(h, order)
           f == [x \in K |-> EpisodeOf(x, h, order)]
<1>1. IsFiniteSet(h.jobs \X h.attempts)
  BY FS_Product
<1>2. K \subseteq h.jobs \X h.attempts
  BY DEF Kept, Judged, Failures
<1>3. IsFiniteSet(K)
  BY <1>1, <1>2, FS_Subset
<1>4. Episodes(h, order) = {f[x] : x \in K}
  BY EpisodesAre
<1> HIDE DEF f, K
<1>5. IsFiniteSet({f[x] : x \in K})
  BY <1>3, ImageFinite
<1> QED BY <1>4, <1>5

-----------------------------------------------------------------------------
(***************************************************************************)
(* Events.                                                                 *)
(***************************************************************************)

\* The three kinds of events, in their order.
LEMMA Kinds ==
  /\ DOMAIN EventKinds = 1..3 /\ Len(EventKinds) = 3
  /\ \A i, k \in 1..3 : EventKinds[i] = EventKinds[k] => i = k
BY DEF EventKinds

\* A claim says whose it is and which, and so does an event.
LEMMA Parts ==
  \A e, i :
    /\ Claim(e, i).id = <<e.id, EventKinds[i]>> /\ Claim(e, i).payload = e
    /\ Event(e, i).id = <<e.id, EventKinds[i]>> /\ Event(e, i).payload = e
    /\ Event(e, i).id[2] = EventKinds[i] /\ Claim(e, i).id[2] = EventKinds[i]
BY DEF Claim, Record, Event

\* Claims of one identity are of one kind and of episodes of one identity.
LEMMA ClaimsApart ==
  \A d, e : \A i, k \in 1..3 :
    /\ Claim(d, i).id = Claim(e, k).id <=> d.id = e.id /\ i = k
    /\ Claim(d, i) = Claim(e, k) => d = e /\ i = k
    /\ Event(d, i) = Event(e, k) => d = e /\ i = k
<1> SUFFICES ASSUME NEW d, NEW e, NEW i \in 1..3, NEW k \in 1..3
             PROVE  /\ Claim(d, i).id = Claim(e, k).id <=> d.id = e.id /\ i = k
                    /\ Claim(d, i) = Claim(e, k) => d = e /\ i = k
                    /\ Event(d, i) = Event(e, k) => d = e /\ i = k
  OBVIOUS
<1>1. /\ Claim(d, i).id = <<d.id, EventKinds[i]>> /\ Claim(d, i).payload = d
      /\ Claim(e, k).id = <<e.id, EventKinds[k]>> /\ Claim(e, k).payload = e
      /\ Event(d, i).id = <<d.id, EventKinds[i]>> /\ Event(d, i).payload = d
      /\ Event(e, k).id = <<e.id, EventKinds[k]>> /\ Event(e, k).payload = e
  BY Parts
<1> QED BY <1>1, Kinds

\* Every position of a list of triples is in one place of one of them.
LEMMA Triples ==
  ASSUME NEW N \in Nat
  PROVE  /\ \A k \in 1..(3 * N) :
              /\ ((k - 1) \div 3) + 1 \in 1..N /\ ((k - 1) % 3) + 1 \in 1..3
              /\ ((k - 1) % 3) + 1 < 3 =>
                   /\ k < 3 * N /\ (k \div 3) + 1 = ((k - 1) \div 3) + 1
                   /\ (k % 3) + 1 = ((k - 1) % 3) + 2
              /\ ((k - 1) % 3) + 1 = 3 => (k % 3) + 1 = 1
         /\ \A q \in 1..N, r \in 1..3 :
              LET k == 3 * (q - 1) + r
              IN /\ k \in 1..(3 * N)
                 /\ ((k - 1) \div 3) + 1 = q /\ ((k - 1) % 3) + 1 = r
<1>1. ASSUME NEW k \in 1..(3 * N)
      PROVE  /\ ((k - 1) \div 3) + 1 \in 1..N /\ ((k - 1) % 3) + 1 \in 1..3
             /\ ((k - 1) % 3) + 1 < 3 =>
                  /\ k < 3 * N /\ (k \div 3) + 1 = ((k - 1) \div 3) + 1
                  /\ (k % 3) + 1 = ((k - 1) % 3) + 2
             /\ ((k - 1) % 3) + 1 = 3 => (k % 3) + 1 = 1
  OBVIOUS
<1>2. ASSUME NEW q \in 1..N, NEW r \in 1..3
      PROVE  LET k == 3 * (q - 1) + r
             IN /\ k \in 1..(3 * N)
                /\ ((k - 1) \div 3) + 1 = q /\ ((k - 1) % 3) + 1 = r
  OBVIOUS
<1> QED BY <1>1, <1>2

\* The bootstrap projects every episode's events, cause before effect.
LEMMA ProjectedInOrder ==
  ASSUME NEW S, IsFiniteSet(S)
  PROVE  LET p == Projected(S)
         IN /\ p \in Seq(EventsFor(S)) /\ ToSet(p) = EventsFor(S)
            /\ InOrder(p, S)
            /\ p # <<>> => \E e \in S : Head(p) = Event(e, 1)
<1> DEFINE order == SetToSeq(S)
           N == Len(order)
           p == Projected(S)
           Of(k) == ((k - 1) \div 3) + 1
           Nth(k) == ((k - 1) % 3) + 1
<1>1. /\ order \in Seq(S) /\ ToSet(order) = S
      /\ N \in Nat /\ DOMAIN order = 1..N
      /\ \A i \in 1..N : order[i] \in S
  BY SetListed, LenProperties, ElementOfSeq
<1>2. p = [k \in 1..(3 * N) |-> EventsOf(order[Of(k)])[Nth(k)]]
  BY Kinds DEF Projected
<1> HIDE DEF order, p
<1>3. \A k \in 1..(3 * N) : Of(k) \in 1..N /\ Nth(k) \in 1..3
  BY <1>1, Triples
<1>4. /\ DOMAIN p = 1..(3 * N)
      /\ \A k \in 1..(3 * N) : p[k] = Event(order[Of(k)], Nth(k))
  BY <1>2, <1>3, Kinds DEF EventsOf
<1>5. \A q \in 1..N, r \in 1..3 : \E k \in 1..(3 * N) : Of(k) = q /\ Nth(k) = r
  <2> SUFFICES ASSUME NEW q \in 1..N, NEW r \in 1..3
               PROVE  \E k \in 1..(3 * N) : Of(k) = q /\ Nth(k) = r
    OBVIOUS
  <2> DEFINE k == 3 * (q - 1) + r
  <2>1. k \in 1..(3 * N) /\ Of(k) = q /\ Nth(k) = r
    BY <1>1, Triples
  <2> HIDE DEF k
  <2> QED BY <2>1
<1>6. \A k \in 1..(3 * N) :
        /\ Nth(k) < 3 => k < 3 * N /\ Of(k + 1) = Of(k) /\ Nth(k + 1) = Nth(k) + 1
        /\ Nth(k) = 3 => Nth(k + 1) = 1
  <2> SUFFICES ASSUME NEW k \in 1..(3 * N)
               PROVE  /\ Nth(k) < 3 => /\ k < 3 * N /\ Of(k + 1) = Of(k)
                                       /\ Nth(k + 1) = Nth(k) + 1
                      /\ Nth(k) = 3 => Nth(k + 1) = 1
    OBVIOUS
  <2>1. k + 1 - 1 = k /\ k \in Nat
    BY <1>1
  <2> QED BY <1>1, <2>1, Triples
<1> DEFINE Places == 1..(3 * N)
<1>7. 3 * N \in Nat /\ \A k \in Places : k \in Nat /\ (k < 3 * N => k + 1 \in Places)
  BY <1>1
<1> HIDE DEF Of, Nth, Places
<1>8. p \in Seq(EventsFor(S)) /\ Len(p) = 3 * N /\ ToSet(p) = EventsFor(S)
  <2>1. \A k \in Places : p[k] \in EventsFor(S)
    BY <1>1, <1>3, <1>4, Kinds DEF EventsFor, Places
  <2>2. p \in [1..(3 * N) -> EventsFor(S)]
    BY <1>2, <1>4, <2>1 DEF Places
  <2>3. p \in Seq(EventsFor(S))
    BY <1>7, <2>2, SeqDef
  <2>4. Len(p) = 3 * N
    BY <1>4, <1>7, <2>3, LenProperties
  <2>5. ASSUME NEW x \in EventsFor(S) PROVE x \in ToSet(p)
    <3>1. PICK e \in S, i \in 1..3 : x = Event(e, i)
      BY Kinds DEF EventsFor
    <3>2. PICK q \in 1..N : order[q] = e
      BY <1>1 DEF ToSet
    <3>3. PICK k \in Places : Of(k) = q /\ Nth(k) = i
      BY <1>5 DEF Places
    <3> QED BY <1>4, <3>1, <3>2, <3>3 DEF ToSet, Places
  <2>6. ToSet(p) \subseteq EventsFor(S)
    BY <1>4, <2>1 DEF ToSet, Places
  <2> QED BY <2>3, <2>4, <2>5, <2>6
<1>9. InOrder(p, S)
  <2>1. SUFFICES ASSUME NEW k \in Places
                 PROVE  \E e \in S, i \in 1..3 :
                          /\ p[k] = Event(e, i)
                          /\ i < 3 => k < 3 * N /\ p[k + 1] = Event(e, i + 1)
                          /\ i = 3 /\ k < 3 * N => \E d \in S : p[k + 1] = Event(d, 1)
    BY <1>4, <1>8, Kinds DEF InOrder, Places
  <2>2. /\ order[Of(k)] \in S /\ Nth(k) \in 1..3
        /\ p[k] = Event(order[Of(k)], Nth(k))
    BY <1>1, <1>3, <1>4 DEF Places
  <2>3. k + 1 \in Places => /\ order[Of(k + 1)] \in S
                            /\ p[k + 1] = Event(order[Of(k + 1)], Nth(k + 1))
    BY <1>1, <1>3, <1>4 DEF Places
  <2>4. Nth(k) < 3 => k < 3 * N /\ p[k + 1] = Event(order[Of(k)], Nth(k) + 1)
    BY <1>6, <1>7, <2>3 DEF Places
  <2>5. Nth(k) = 3 /\ k < 3 * N => \E d \in S : p[k + 1] = Event(d, 1)
    BY <1>6, <1>7, <2>3 DEF Places
  <2> QED BY <2>2, <2>4, <2>5
<1>10. ASSUME p # <<>> PROVE \E e \in S : Head(p) = Event(e, 1)
  <2>1. Len(p) \in Nat \ {0}
    BY <1>8, <1>10, EmptySeq
  <2>2. 1 \in 1..(3 * N)
    BY <1>7, <1>8, <2>1
  <2>3. Nth(1) = 1 /\ order[Of(1)] \in S /\ Head(p) = p[1]
    BY <1>1, <1>3, <2>2 DEF Nth
  <2> QED BY <1>4, <2>2, <2>3
<1> QED BY <1>8, <1>9, <1>10 DEF p

-----------------------------------------------------------------------------
(***************************************************************************)
(* The pull request goes on.                                               *)
(***************************************************************************)

\* An attempt that ended stays as it ended.
EndedStays ==
  \A run \in Runs : \A n \in DOMAIN world.attempts[run] :
    /\ n \in DOMAIN world'.attempts[run]
    /\ world.attempts[run][n] # Running =>
         world'.attempts[run][n] = world.attempts[run][n]

\* A new attempt comes last.
LEMMA Triggered ==
  ASSUME WorldTyped, NEW run \in Runs, Trigger(run)
  PROVE  WorldTyped' /\ EndedStays
<1> DEFINE own == world.attempts[run]
           S == Results \cup {Running}
<1>1. own \in Seq(S) /\ Running \in S
  BY DEF WorldTyped
<1>2. /\ Append(own, Running) \in Seq(S)
      /\ DOMAIN own = 1..Len(own) /\ Len(own) \in Nat
      /\ DOMAIN Append(own, Running) = 1..(Len(own) + 1)
      /\ \A i \in 1..Len(own) : Append(own, Running)[i] = own[i]
  BY <1>1, AppendProperties, LenProperties
<1>3. world' = [world EXCEPT !.attempts[run] = Append(own, Running)]
  BY DEF Trigger
<1>4. /\ world'.commits = world.commits /\ world'.signals = world.signals
      /\ world'.attempts = [world.attempts EXCEPT ![run] = Append(own, Running)]
      /\ world' = [commits |-> world'.commits, signals |-> world'.signals,
                   attempts |-> world'.attempts]
  BY <1>3 DEF WorldTyped
<1>0. Len(own) < MaxAttempts /\ MaxAttempts \in Nat
  BY BoundsAssumption DEF Trigger
<1> DEFINE new == Append(own, Running)
<1>7. Len(new) = Len(own) + 1 /\ Len(new) <= MaxAttempts
  BY <1>0, <1>1, <1>2, AppendProperties
<1>5. WorldTyped'
  <2> HIDE DEF new
  <2>1. new \in Seq(S) /\ world'.attempts = [world.attempts EXCEPT ![run] = new]
    BY <1>2, <1>4 DEF new
  <2> QED BY <1>4, <1>7, <2>1 DEF WorldTyped
<1>6. EndedStays
  BY <1>2, <1>4 DEF EndedStays, WorldTyped
<1> QED BY <1>5, <1>6

\* An attempt ends once.
LEMMA Completed ==
  ASSUME WorldTyped, NEW run \in Runs, NEW result \in Results, Complete(run, result)
  PROVE  WorldTyped' /\ EndedStays
<1> DEFINE own == world.attempts[run]
           S == Results \cup {Running}
           new == Append(Front(own), result)
<1>1. /\ own \in Seq(S) /\ own # <<>> /\ Last(own) = Running
  BY DEF WorldTyped, Complete
<1>2. DOMAIN own = 1..Len(own) /\ Len(own) \in Nat \ {0} /\ own[Len(own)] = Running
  BY <1>1, EmptySeq, LenProperties DEF Last
<1>3. /\ Front(own) \in Seq(S) /\ Len(Front(own)) = Len(own) - 1
      /\ \A i \in 1..(Len(own) - 1) : Front(own)[i] = own[i]
  BY <1>1, FrontProperties
<1>4. /\ new \in Seq(S) /\ Len(new) = Len(own)
      /\ \A i \in 1..(Len(own) - 1) : new[i] = own[i]
  BY <1>2, <1>3, AppendProperties
<1>5. DOMAIN new = 1..Len(own)
  BY <1>4, LenProperties
<1>6. world' = [world EXCEPT !.attempts[run] = new]
  BY DEF Complete
<1> HIDE DEF new
<1>7. /\ world'.commits = world.commits /\ world'.signals = world.signals
      /\ world'.attempts = [world.attempts EXCEPT ![run] = new]
      /\ world' = [commits |-> world'.commits, signals |-> world'.signals,
                   attempts |-> world'.attempts]
  BY <1>6 DEF WorldTyped
<1>8. WorldTyped'
  BY <1>4, <1>7 DEF WorldTyped
<1>9. \A n \in DOMAIN own : own[n] # Running => n \in 1..(Len(own) - 1)
  BY <1>2
<1>10. EndedStays
  BY <1>2, <1>4, <1>5, <1>7, <1>9 DEF EndedStays, WorldTyped
<1> QED BY <1>8, <1>10

\* A push or a force push leaves the attempts alone.
LEMMA Pushed ==
  ASSUME WorldTyped, ForcePush \/ \E r \in Revisions : Push(r)
  PROVE  WorldTyped' /\ EndedStays
<1> DEFINE own == world.commits
<1>1. own \in Seq(Revisions) /\ IsInjective(own)
  BY DEF WorldTyped
<1>2. DOMAIN own = 1..Len(own) /\ Len(own) \in Nat
  BY <1>1, LenProperties
<1>3. world'.commits \in Seq(Revisions) /\ IsInjective(world'.commits)
  <2>1. ASSUME NEW r \in Revisions, Push(r) PROVE <1>3!1 /\ <1>3!2
    <3> DEFINE new == Append(own, r)
    <3>1. /\ new \in Seq(Revisions) /\ Len(new) = Len(own) + 1
          /\ \A i \in 1..Len(own) : new[i] = own[i]
          /\ new[Len(own) + 1] = r
      BY <1>1, AppendProperties
    <3>2. DOMAIN new = 1..(Len(own) + 1)
      BY <3>1, LenProperties
    <3>3. \A i \in 1..Len(own) : own[i] # r
      BY <1>2, <2>1 DEF Push, ToSet
    <3>4. world'.commits = new
      BY <2>1 DEF Push, WorldTyped
    <3> HIDE DEF new
    <3>5. IsInjective(new)
      BY <1>1, <1>2, <3>1, <3>2, <3>3 DEF IsInjective
    <3> QED BY <3>1, <3>4, <3>5
  <2>2. ASSUME ForcePush PROVE <1>3!1 /\ <1>3!2
    <3> DEFINE new == Front(own)
    <3>1. own # <<>> /\ world'.commits = new
      BY <2>2 DEF ForcePush, WorldTyped
    <3>2. /\ new \in Seq(Revisions) /\ Len(new) = Len(own) - 1
          /\ \A i \in 1..(Len(own) - 1) : new[i] = own[i]
      BY <1>1, <3>1, FrontProperties
    <3>3. DOMAIN new = 1..(Len(own) - 1)
      BY <3>2, LenProperties
    <3> HIDE DEF new
    <3>4. IsInjective(new)
      BY <1>1, <1>2, <3>2, <3>3 DEF IsInjective
    <3> QED BY <3>1, <3>2, <3>4
  <2> QED BY <2>1, <2>2
<1>4. /\ world'.attempts = world.attempts
      /\ world' = [commits |-> world'.commits, signals |-> world'.signals,
                   attempts |-> world'.attempts]
  BY DEF Push, ForcePush, WorldTyped
<1> QED BY <1>3, <1>4 DEF WorldTyped, EndedStays

\* What is at hand of a harvest stays true of the pull request.
LEMMA HarvestKept ==
  ASSUME HarvestInv, EndedStays, boot' = boot
  PROVE  HarvestInv'
<1>1. ASSUME NEW a \in boot.h.attempts PROVE AttemptKnown(a)'
  <2>1. AttemptKnown(a)
    BY DEF HarvestInv
  <2>2. /\ a.run \in Runs /\ a.number \in DOMAIN world.attempts[a.run]
    BY <2>1 DEF AttemptKnown
  <2>3. /\ a.number \in DOMAIN world'.attempts[a.run]
        /\ a.conclusion # None => world'.attempts[a.run][a.number]
                                    = world.attempts[a.run][a.number]
    BY <2>1, <2>2 DEF EndedStays, AttemptKnown
  <2>4. Unlisted' = Unlisted /\ Unread' = Unread
    BY DEF Unlisted, Unread
  <2> QED BY <2>1, <2>2, <2>3, <2>4 DEF AttemptKnown
<1>2. ASSUME NEW j \in boot.h.jobs PROVE JobKnown(j)'
  <2>1. JobKnown(j)
    BY DEF HarvestInv
  <2> QED BY <2>1 DEF JobKnown, EndedStays, Unread
<1> QED BY <1>1, <1>2 DEF HarvestInv, Unread

-----------------------------------------------------------------------------
(***************************************************************************)
(* The harvest.                                                            *)
(***************************************************************************)

\* The attempts of one run as they come with it.
LEMMA AttemptsRead ==
  ASSUME WorldTyped, NEW run \in Runs, NEW gone
  PROVE  /\ IsFiniteSet(AttemptsOf(run, gone))
         /\ \A a \in AttemptsOf(run, gone) :
              /\ a.run = run /\ a.number \in DOMAIN world.attempts[run]
              /\ a.conclusion # None => world.attempts[run][a.number] # Running
              /\ a.missing \/ \A n \in DOMAIN world.attempts[run] :
                                \E b \in AttemptsOf(run, gone) : Ref(b) = <<run, n>>
         /\ \A a, b \in AttemptsOf(run, gone) : Ref(a) = Ref(b) => a = b
<1> DEFINE own == world.attempts[run]
           Made(n) == [run |-> run, number |-> n, missing |-> gone # {},
                       conclusion |-> Conclusion(own[n])]
           D == DOMAIN own \ gone
           f == [n \in D |-> Made(n)]
<1>1. own \in Seq(Results \cup {Running})
  BY DEF WorldTyped
<1>2. IsFiniteSet(DOMAIN own)
  BY <1>1, LenProperties, FS_Interval
<1>3. IsFiniteSet(D)
  BY <1>2, FS_Difference
<1>4. AttemptsOf(run, gone) = {Made(n) : n \in D}
  BY DEF AttemptsOf
<1>5. AttemptsOf(run, gone) = {f[n] : n \in D}
  BY <1>4
<1>6. IsFiniteSet({f[n] : n \in D})
  <2> HIDE DEF f, D
  <2> QED BY <1>3, ImageFinite
<1>7. \A n \in D : /\ Made(n).run = run /\ Made(n).number = n
                   /\ Made(n).missing = (gone # {}) /\ Ref(Made(n)) = <<run, n>>
                   /\ Made(n).conclusion # None => own[n] # Running
  BY DEF Conclusion, Ref
<1> HIDE DEF Made
<1>8. \A a \in AttemptsOf(run, gone) :
        /\ a.run = run /\ a.number \in DOMAIN own
        /\ a.conclusion # None => own[a.number] # Running
  BY <1>4, <1>7
<1>9. ASSUME NEW a \in AttemptsOf(run, gone), ~a.missing, NEW n \in DOMAIN own
      PROVE  \E b \in AttemptsOf(run, gone) : Ref(b) = <<run, n>>
  <2>1. gone = {}
    BY <1>4, <1>7, <1>9
  <2>2. n \in D
    BY <2>1
  <2> QED BY <1>4, <1>7, <2>2
<1>10. \A a, b \in AttemptsOf(run, gone) : Ref(a) = Ref(b) => a = b
  BY <1>4, <1>7
<1> QED BY <1>5, <1>6, <1>8, <1>9, <1>10

\* There is a finite number of runs.
LEMMA RunsFinite == IsFiniteSet(Runs)
<1> DEFINE two == Revisions \X Workflows
           f == [x \in two \X RunIds |-> <<x[1][1], x[1][2], x[2]>>]
<1>1. IsFiniteSet(two \X RunIds)
  BY FS_Product, ShapeAssumption, WorldAssumption
<1>2. Runs = {f[x] : x \in two \X RunIds}
  <2>1. ASSUME NEW run \in Runs PROVE \E x \in two \X RunIds : f[x] = run
    <3>1. PICK r \in Revisions, w \in Workflows, i \in RunIds : run = <<r, w, i>>
      BY DEF Runs
    <3>2. <<<<r, w>>, i>> \in two \X RunIds /\ f[<<<<r, w>>, i>>] = run
      BY <3>1
    <3> QED BY <3>2
  <2>2. \A x \in two \X RunIds : f[x] \in Runs
    BY DEF Runs
  <2> QED BY <2>1, <2>2
<1> HIDE DEF f, two
<1> QED BY <1>1, <1>2, ImageFinite

\* The attempts of a revision's runs are those of a revision not read before.
LEMMA RunsFetched ==
  ASSUME WorldTyped, BootShaped, HarvestInv, FetchRuns
  PROVE  BootShaped' /\ HarvestInv'
<1> DEFINE r == Head(boot.todo)
           listed == RunsOf(r)
           Earlier(run) == 1..(Len(world.attempts[run]) - 1)
<1>1. boot.step = "runs" /\ boot.todo # <<>> /\ UNCHANGED world
  BY DEF FetchRuns, Fetching, At
<1>2. PICK gone \in [listed -> SUBSET UNION {Earlier(run) : run \in listed}] :
        boot' = [boot EXCEPT !.step = "jobs",
                   !.h.attempts = @ \cup UNION {AttemptsOf(run, gone[run]) : run \in listed}]
  BY DEF FetchRuns
<1> DEFINE Of(run) == AttemptsOf(run, gone[run])
           new == UNION {Of(run) : run \in listed}
<1>3. /\ boot'.step = "jobs" /\ boot'.todo = boot.todo /\ boot'.events = boot.events
      /\ boot'.answers = boot.answers /\ boot'.episodes = boot.episodes
      /\ boot'.h.jobs = boot.h.jobs /\ boot'.h.attempts = boot.h.attempts \cup new
  BY <1>1, <1>2 DEF BootShaped
<1>4. BootShaped'
  <2>0. boot' = [boot EXCEPT !.step = "jobs", !.h.attempts = @ \cup new]
    BY <1>2
  <2> HIDE DEF new
  <2>1. boot' = [step |-> "jobs", todo |-> boot.todo, events |-> boot.events,
                 answers |-> boot.answers, episodes |-> boot.episodes, h |-> boot'.h]
    BY <1>1, <2>0 DEF BootShaped
  <2>2. boot'.h = [signals |-> boot.h.signals, commits |-> boot.h.commits,
                   attempts |-> boot.h.attempts \cup new, jobs |-> boot.h.jobs,
                   lineage |-> boot.h.lineage]
    BY <1>1, <2>0 DEF BootShaped
  <2> QED BY <2>1, <2>2 DEF BootShaped, BootSteps
<1>5. /\ boot.todo \in Seq(Revisions) /\ IsInjective(boot.todo)
      /\ r \in Revisions /\ r \in Unread /\ r \notin ToSet(Tail(boot.todo))
      /\ Unread = {r} \cup ToSet(Tail(boot.todo))
  BY <1>1, TailInjective DEF HarvestInv, Unread
<1>6. Unlisted = Unread /\ Unread' = Unread /\ Unlisted' = ToSet(Tail(boot.todo))
  BY <1>1, <1>3 DEF Unlisted, Unread
<1>7. \A run \in listed : run \in Runs /\ run[1] = r
  BY DEF RunsOf
<1>19. IsFiniteSet(listed)
  BY RunsFinite, FS_Subset DEF RunsOf
<1> HIDE DEF listed
<1>8. IsFiniteSet(new)
  <2> DEFINE F == [run \in listed |-> Of(run)]
  <2>1. IsFiniteSet({F[run] : run \in listed})
    <3> HIDE DEF F
    <3> QED BY <1>19, ImageFinite
  <2>2. {F[run] : run \in listed} = {Of(run) : run \in listed}
    OBVIOUS
  <2> HIDE DEF F
  <2>3. \A run \in listed : IsFiniteSet(Of(run))
    BY <1>7, AttemptsRead
  <2> HIDE DEF Of
  <2> QED BY <2>1, <2>2, <2>3, FS_UNION
<1> HIDE DEF Of
<1>9. \A a \in new : \E run \in listed : a \in Of(run)
  OBVIOUS
<1>10. \A run \in listed : \A a \in Of(run) :
         /\ a.run = run /\ a.number \in DOMAIN world.attempts[run]
         /\ a.conclusion # None => world.attempts[run][a.number] # Running
         /\ a.missing \/ \A n \in DOMAIN world.attempts[run] :
                           \E b \in Of(run) : Ref(b) = <<run, n>>
         /\ \A b \in Of(run) : Ref(a) = Ref(b) => a = b
  BY <1>7, AttemptsRead DEF Of
<1>12. \A run \in listed : Of(run) \subseteq new
  OBVIOUS
<1> HIDE DEF new
<1>13. ASSUME NEW a \in boot.h.attempts PROVE AttemptKnown(a)'
  <2>1. AttemptKnown(a)
    BY DEF HarvestInv
  <2>2. a.run[1] \notin Unlisted'
    BY <1>5, <1>6, <2>1 DEF AttemptKnown
  <2>3. JobsOf(a, boot'.h) = JobsOf(a, boot.h)
    BY <1>3 DEF JobsOf
  <2> QED BY <1>1, <1>3, <1>6, <2>1, <2>2, <2>3 DEF AttemptKnown
<1>14. ASSUME NEW a \in new PROVE AttemptKnown(a)'
  <2>1. PICK run \in listed : a \in Of(run)
    BY <1>9
  <2>2. a.run = run /\ a.run[1] = r /\ a.run \in Runs
    BY <1>7, <1>10, <2>1
  <2>3. /\ a.number \in DOMAIN world'.attempts[a.run]
        /\ a.conclusion # None => world'.attempts[a.run][a.number] # Running
    BY <1>1, <1>10, <2>1, <2>2
  <2>4. world.attempts[a.run] \in Seq(Results \cup {Running})
    BY <2>2 DEF WorldTyped
  <2>5. 1..(a.number - 1) \subseteq DOMAIN world.attempts[a.run]
    BY <1>1, <2>3, <2>4, LenProperties
  <2>6. a.missing \/ \A n \in 1..(a.number - 1) :
                       \E b \in boot'.h.attempts : Ref(b) = <<a.run, n>>
    BY <1>3, <1>10, <1>12, <2>1, <2>2, <2>5
  <2> QED BY <1>5, <1>6, <2>2, <2>3, <2>6 DEF AttemptKnown
<1>15. ASSUME NEW a \in boot'.h.attempts, NEW b \in boot'.h.attempts, Ref(a) = Ref(b)
       PROVE  a = b
  <2>1. a.run = b.run
    BY <1>15 DEF Ref
  <2>2. \A c \in boot.h.attempts : c.run[1] # r
    BY <1>5, <1>6 DEF HarvestInv, AttemptKnown
  <2>3. \A c \in new : c.run[1] = r
    BY <1>7, <1>9, <1>10
  <2>4. CASE a \in boot.h.attempts /\ b \in boot.h.attempts
    BY <1>15, <2>4 DEF HarvestInv
  <2>5. CASE a \in new /\ b \in new
    BY <1>9, <1>10, <1>15, <2>1, <2>5
  <2> QED BY <1>3, <2>1, <2>2, <2>3, <2>4, <2>5
<1>16. IsFiniteSet(boot'.h.attempts) /\ IsFiniteSet(boot'.h.jobs)
  <2>1. IsFiniteSet(boot.h.attempts) /\ IsFiniteSet(boot.h.jobs)
    BY DEF HarvestInv
  <2>2. IsFiniteSet(boot.h.attempts \cup new)
    BY <1>8, <2>1, FS_Union
  <2> QED BY <1>3, <2>1, <2>2
<1>17. /\ \A j \in boot'.h.jobs : JobKnown(j)'
       /\ \A j, k \in boot'.h.jobs : JobRef(j) = JobRef(k) => j = k
  BY <1>1, <1>3, <1>6 DEF HarvestInv, JobKnown
<1>18. \A a \in boot'.h.attempts : AttemptKnown(a)'
  BY <1>3, <1>13, <1>14
<1> QED BY <1>1, <1>3, <1>4, <1>5, <1>15, <1>16, <1>17, <1>18 DEF HarvestInv

\* The jobs of a run: those of each attempt by their ids.
LEMMA JobsListed ==
  ASSUME WorldTyped, NEW run \in Runs
  PROVE  /\ IsFiniteSet(ListedJobs(run))
         /\ \A j \in ListedJobs(run) :
              j.run = run /\ j.number \in DOMAIN world.attempts[run] /\ j.id \in Jobs
         /\ \A j, k \in ListedJobs(run) : JobRef(j) = JobRef(k) => j = k
         /\ \A n \in DOMAIN world.attempts[run] :
              world.attempts[run][n] # Running =>
                {j.id : j \in {k \in ListedJobs(run) : Ref(k) = <<run, n>>}}
                  = DOMAIN world.attempts[run][n]
<1> DEFINE own == world.attempts[run]
           Ids(n) == IF own[n] = Running THEN Jobs ELSE DOMAIN own[n]
           Job(n, id, conclusion, steps) ==
             [run |-> run, number |-> n, id |-> id, name |-> JobName[id],
              conclusion |-> conclusion, steps |-> steps]
           Made(n, id) ==
             IF own[n] = Running THEN Job(n, id, None, <<>>)
             ELSE Job(n, id, own[n][id].conclusion, own[n][id].steps)
           Of(n) == {Made(n, id) : id \in Ids(n)}
           Listed == ListedJobs(run)
<1>1. own \in Seq(Results \cup {Running})
  BY DEF WorldTyped
<1>2. DOMAIN own = 1..Len(own) /\ Len(own) \in Nat
  BY <1>1, LenProperties
<1>3. \A n \in DOMAIN own : own[n] \in Results \cup {Running}
  BY <1>1, <1>2, ElementOfSeq
<1>4. Listed = UNION {Of(n) : n \in DOMAIN own}
  <2>1. \A n \in DOMAIN own :
          Of(n) = IF own[n] = Running THEN {Job(n, id, None, <<>>) : id \in Jobs}
                  ELSE {Job(n, id, own[n][id].conclusion, own[n][id].steps) :
                          id \in DOMAIN own[n]}
    <3> SUFFICES ASSUME NEW n \in DOMAIN own
                 PROVE  Of(n) = IF own[n] = Running
                                  THEN {Job(n, id, None, <<>>) : id \in Jobs}
                                ELSE {Job(n, id, own[n][id].conclusion,
                                          own[n][id].steps) : id \in DOMAIN own[n]}
      OBVIOUS
    <3>1. CASE own[n] = Running
      BY <3>1
    <3>2. CASE own[n] # Running
      BY <3>2
    <3> QED BY <3>1, <3>2
  <2> QED BY <2>1 DEF ListedJobs
<1>5. \A n \in DOMAIN own : IsFiniteSet(Ids(n))
  BY <1>3, WorldAssumption, FS_Subset
<1>6. \A n, id : Made(n, id).run = run /\ Made(n, id).number = n
                   /\ Made(n, id).id = id /\ Ref(Made(n, id)) = <<run, n>>
  BY DEF Ref
<1> HIDE DEF Ids, Made, Listed
<1>7. \A n \in DOMAIN own : IsFiniteSet(Of(n))
  <2> SUFFICES ASSUME NEW n \in DOMAIN own PROVE IsFiniteSet(Of(n))
    OBVIOUS
  <2> DEFINE f == [id \in Ids(n) |-> Made(n, id)]
  <2>1. Of(n) = {f[id] : id \in Ids(n)}
    OBVIOUS
  <2> HIDE DEF f
  <2>2. IsFiniteSet({f[id] : id \in Ids(n)})
    BY <1>5, ImageFinite
  <2> QED BY <2>1, <2>2
<1>8. IsFiniteSet(Listed)
  <2> DEFINE F == [n \in DOMAIN own |-> Of(n)]
  <2>1. {F[n] : n \in DOMAIN own} = {Of(n) : n \in DOMAIN own}
    OBVIOUS
  <2>2. IsFiniteSet(DOMAIN own)
    BY <1>2, FS_Interval
  <2> HIDE DEF F
  <2>3. IsFiniteSet({F[n] : n \in DOMAIN own})
    BY <2>2, ImageFinite
  <2> HIDE DEF Of
  <2>4. IsFiniteSet(UNION {Of(n) : n \in DOMAIN own})
    BY <1>7, <2>1, <2>3, FS_UNION
  <2> QED BY <1>4, <2>4
<1>9. \A j \in Listed : \E n \in DOMAIN own : \E id \in Ids(n) : j = Made(n, id)
  BY <1>4
<1>10. \A n \in DOMAIN own : \A id \in Ids(n) : Made(n, id) \in Listed
  BY <1>4
<1>11. ASSUME NEW n \in DOMAIN own, own[n] # Running
       PROVE  {j.id : j \in {k \in Listed : Ref(k) = <<run, n>>}} = DOMAIN own[n]
  <2>1. Ids(n) = DOMAIN own[n]
    BY <1>11 DEF Ids
  <2>2. ASSUME NEW j \in Listed, Ref(j) = <<run, n>> PROVE j.id \in Ids(n)
    BY <1>6, <1>9, <2>2
  <2>3. ASSUME NEW id \in Ids(n)
        PROVE  \E j \in Listed : Ref(j) = <<run, n>> /\ j.id = id
    BY <1>6, <1>10
  <2> QED BY <2>1, <2>2, <2>3
<1>12. \A n \in DOMAIN own : Ids(n) \subseteq Jobs
  BY <1>3, WorldAssumption DEF Ids
<1>13. \A j \in Listed : j.run = run /\ j.number \in DOMAIN own /\ j.id \in Jobs
  BY <1>6, <1>9, <1>12
<1>14. ASSUME NEW j \in Listed, NEW k \in Listed, JobRef(j) = JobRef(k) PROVE j = k
  <2>1. j.number = k.number /\ j.id = k.id
    BY <1>14 DEF JobRef
  <2> QED BY <1>6, <1>9, <2>1
<1> QED BY <1>8, <1>11, <1>13, <1>14 DEF Listed

\* With the jobs of a revision's runs their attempts are complete.
LEMMA JobsFetched ==
  ASSUME WorldTyped, BootShaped, HarvestInv, FetchJobs
  PROVE  BootShaped' /\ HarvestInv'
<1> DEFINE r == Head(boot.todo)
           runs == RunsToAsk
           new == UNION {ListedJobs(run) : run \in runs}
<1>1. boot.step = "jobs" /\ UNCHANGED world
  BY DEF FetchJobs, Fetching, At
<1>2. \A run \in runs : Collected(ListedJobs(run)) = ListedJobs(run)
  BY DEF FetchJobs, Collected
<1>3. boot' = [boot EXCEPT !.step = "runs", !.todo = Tail(@), !.h.jobs = @ \cup new]
  <2>1. boot' = [boot EXCEPT !.step = "runs", !.todo = Tail(@),
                   !.h.jobs = @ \cup UNION {Collected(ListedJobs(run)) : run \in runs}]
    BY DEF FetchJobs
  <2>2. {Collected(ListedJobs(run)) : run \in runs} = {ListedJobs(run) : run \in runs}
    BY <1>2
  <2> QED BY <2>1, <2>2
<1>4. /\ boot.todo \in Seq(Revisions) /\ boot.todo # <<>>
      /\ Tail(boot.todo) \in Seq(Revisions) /\ IsInjective(Tail(boot.todo))
      /\ r \in Revisions /\ r \in Unread /\ r \notin ToSet(Tail(boot.todo))
      /\ Unread = {r} \cup ToSet(Tail(boot.todo))
  BY <1>1, TailInjective DEF HarvestInv, Unread
<1>5. \A run \in runs : run \in Runs /\ run[1] = r
  BY DEF RunsToAsk, HarvestInv, AttemptKnown
<1>6. \A a \in boot.h.attempts : a.run[1] = r => a.run \in runs
  BY DEF RunsToAsk
<1>7. IsFiniteSet(runs)
  BY <1>5, RunsFinite, FS_Subset
<1> HIDE DEF runs
<1>8. IsFiniteSet(new)
  <2> DEFINE F == [run \in runs |-> ListedJobs(run)]
  <2>1. {F[run] : run \in runs} = {ListedJobs(run) : run \in runs}
    OBVIOUS
  <2> HIDE DEF F
  <2>2. IsFiniteSet({F[run] : run \in runs})
    BY <1>7, ImageFinite
  <2>3. \A run \in runs : IsFiniteSet(ListedJobs(run))
    BY <1>5, JobsListed
  <2> QED BY <2>1, <2>2, <2>3, FS_UNION
<1>9. \A j \in new : /\ j.run \in runs /\ j \in ListedJobs(j.run)
                     /\ j.run \in Runs /\ j.run[1] = r
  BY <1>5, JobsListed
<1>10. \A run \in runs : ListedJobs(run) \subseteq new
  OBVIOUS
<1> HIDE DEF new, r
<1>11. /\ boot'.step = "runs" /\ boot'.todo = Tail(boot.todo)
       /\ boot'.events = boot.events /\ boot'.answers = boot.answers
       /\ boot'.episodes = boot.episodes
       /\ boot'.h.attempts = boot.h.attempts /\ boot'.h.jobs = boot.h.jobs \cup new
  BY <1>1, <1>3 DEF BootShaped
<1>12. BootShaped'
  <2>1. boot' = [step |-> "runs", todo |-> Tail(boot.todo), events |-> boot.events,
                 answers |-> boot.answers, episodes |-> boot.episodes, h |-> boot'.h]
    BY <1>1, <1>3 DEF BootShaped
  <2>2. boot'.h = [signals |-> boot.h.signals, commits |-> boot.h.commits,
                   attempts |-> boot.h.attempts, jobs |-> boot.h.jobs \cup new,
                   lineage |-> boot.h.lineage]
    BY <1>1, <1>3 DEF BootShaped
  <2> QED BY <2>1, <2>2 DEF BootShaped, BootSteps
<1>13. Unread' = ToSet(Tail(boot.todo)) /\ Unlisted' = Unread' /\ Unlisted = Unread'
  BY <1>1, <1>11 DEF Unread, Unlisted
<1>14. \A j \in boot.h.jobs : j.run \in Runs /\ j.run[1] # r /\ j.run[1] \notin Unread'
  BY <1>4, <1>13 DEF HarvestInv, JobKnown
<1>15. ASSUME NEW a \in boot.h.attempts, a.conclusion # None, a.run[1] \notin Unread'
       PROVE  {j.id : j \in JobsOf(a, boot'.h)} = DOMAIN world.attempts[a.run][a.number]
  <2>1. AttemptKnown(a)
    BY DEF HarvestInv
  <2>2. CASE a.run[1] = r
    <3>1. a.run \in runs /\ a.run \in Runs
      BY <1>6, <2>1, <2>2 DEF AttemptKnown
    <3>2. JobsOf(a, boot'.h) = {j \in ListedJobs(a.run) : Ref(j) = <<a.run, a.number>>}
      BY <1>9, <1>10, <1>11, <1>14, <2>2, <3>1 DEF JobsOf, Ref
    <3>3. a.number \in DOMAIN world.attempts[a.run]
          /\ world.attempts[a.run][a.number] # Running
      BY <1>15, <2>1 DEF AttemptKnown
    <3> QED BY <3>1, <3>2, <3>3, JobsListed
  <2>3. CASE a.run[1] # r
    <3>1. a.run[1] \notin Unread
      BY <1>4, <1>13, <1>15, <2>3
    <3>2. JobsOf(a, boot'.h) = JobsOf(a, boot.h)
      BY <1>9, <1>11, <2>3 DEF JobsOf, Ref
    <3> QED BY <1>15, <2>1, <3>1, <3>2 DEF AttemptKnown
  <2> QED BY <2>2, <2>3
<1>16. ASSUME NEW a \in boot.h.attempts PROVE AttemptKnown(a)'
  <2>1. AttemptKnown(a)
    BY DEF HarvestInv
  <2> QED BY <1>1, <1>11, <1>13, <1>15, <2>1 DEF AttemptKnown
<1>17. ASSUME NEW j \in boot'.h.jobs, NEW k \in boot'.h.jobs,
              JobRef(j) = JobRef(k)
       PROVE  j = k
  <2>1. j.run = k.run
    BY <1>17 DEF JobRef
  <2>2. CASE j \in new /\ k \in new
    BY <1>9, <1>17, <2>1, <2>2, JobsListed
  <2>3. CASE j \in boot.h.jobs /\ k \in boot.h.jobs
    BY <1>17, <2>3 DEF HarvestInv
  <2> QED BY <1>9, <1>11, <1>14, <2>1, <2>2, <2>3
<1>18. IsFiniteSet(boot'.h.attempts) /\ IsFiniteSet(boot'.h.jobs)
  <2>1. IsFiniteSet(boot.h.attempts) /\ IsFiniteSet(boot.h.jobs)
    BY DEF HarvestInv
  <2>2. IsFiniteSet(boot.h.jobs \cup new)
    BY <1>8, <2>1, FS_Union
  <2> QED BY <1>11, <2>1, <2>2
<1>19. \A j \in boot'.h.jobs : JobKnown(j)'
  <2>1. \A j \in boot.h.jobs : JobKnown(j)'
    BY <1>1, <1>14 DEF HarvestInv, JobKnown
  <2>2. \A j \in new : JobKnown(j)'
    BY <1>1, <1>4, <1>9, <1>13, JobsListed DEF JobKnown
  <2> QED BY <1>11, <2>1, <2>2
<1>20. \A a, b \in boot'.h.attempts : Ref(a) = Ref(b) => a = b
  BY <1>11 DEF HarvestInv
<1> QED BY <1>4, <1>11, <1>12, <1>16, <1>17, <1>18, <1>19, <1>20 DEF HarvestInv

\* At the start of a harvest nothing is at hand.
LEMMA HarvestFresh ==
  ASSUME boot'.todo \in Seq(Revisions), IsInjective(boot'.todo),
         boot'.h.attempts = {}, boot'.h.jobs = {},
         boot'.step # "jobs", boot'.step # "runs" => boot'.todo = <<>>
  PROVE  HarvestInv'
BY FS_EmptySet DEF HarvestInv

\* What is at hand of a harvest stays when neither it nor the world changes.
LEMMA HarvestSame ==
  ASSUME HarvestInv, UNCHANGED world, boot'.todo = boot.todo,
         boot'.h.attempts = boot.h.attempts, boot'.h.jobs = boot.h.jobs,
         boot.step # "jobs", boot'.step \notin {"timeline", "jobs"},
         boot'.step = "commits" => boot.step = "timeline",
         boot'.step # "runs" => boot.todo = <<>>
  PROVE  HarvestInv'
<1>1. Unread' = Unread /\ Unlisted' = Unlisted
  BY DEF Unread, Unlisted
<1>2. ASSUME NEW a \in boot.h.attempts PROVE AttemptKnown(a)'
  <2>1. AttemptKnown(a)
    BY DEF HarvestInv
  <2>2. JobsOf(a, boot'.h) = JobsOf(a, boot.h)
    BY DEF JobsOf
  <2> QED BY <1>1, <2>1, <2>2 DEF AttemptKnown
<1>3. \A j \in boot.h.jobs : JobKnown(j)'
  BY <1>1 DEF HarvestInv, JobKnown
<1> QED BY <1>1, <1>2, <1>3 DEF HarvestInv

\* There is nothing out of order in no events.
LEMMA NoEvents ==
  ASSUME NEW S
  PROVE  <<>> \in Seq(EventsFor(S)) /\ InOrder(<<>>, S) /\ IsInjective(<<>>)
         /\ \A T : <<>> \in Seq(T)
<1>1. DOMAIN <<>> = {}
  OBVIOUS
<1> QED BY <1>1, EmptySeq DEF InOrder, IsInjective

\* Until its events are projected only the episodes themselves count.
LEMMA EpisodesFresh ==
  ASSUME IsFiniteSet(boot'.episodes), Distinct(boot'.episodes),
         boot'.events = <<>>, boot'.answers = {}, boot'.step \notin {"ingest", "done"}
  PROVE  EpisodesInv'
<1>1. boot'.events \in Seq(EventsFor(boot'.episodes))
      /\ InOrder(boot'.events, boot'.episodes)
  BY NoEvents
<1> QED BY <1>1 DEF EpisodesInv

\* No episode is halfway in while no event is on its way.
LEMMA WholeQuiet ==
  ASSUME WholeInv, UNCHANGED <<records, live>>, bounds'.crashes = bounds.crashes,
         boot.step # "ingest" \/ boot.events = <<>>,
         \/ boot'.step # "ingest"
         \/ boot'.events = <<>>
         \/ \E e \in boot'.episodes : Head(boot'.events) = Event(e, 1)
  PROVE  WholeInv'
<1>1. SUFFICES ASSUME bounds.crashes = 0
               PROVE  /\ \A c \in records : Whole(c.payload, records)
                      /\ \A c \in live : Whole(c.payload, live)
                      /\ \A e, i : i \in 1..3 => ~Halfway(e, i)'
  BY Kinds DEF WholeInv
<1>2. \A e, i : ~Halfway(e, i)
  BY DEF Halfway
<1>3. ASSUME NEW e, NEW i \in 1..3, Halfway(e, i)' PROVE FALSE
  <2>1. /\ boot'.step = "ingest" /\ boot'.events # <<>> /\ i > 1
        /\ Head(boot'.events) = Event(e, i)
    BY <1>3 DEF Halfway
  <2>2. PICK d \in boot'.episodes : Event(d, 1) = Event(e, i)
    BY <2>1
  <2>3. 1 \in 1..3 /\ i # 1
    BY <2>1
  <2>4. EventKinds[1] = EventKinds[i]
    BY <2>2, Parts
  <2> QED BY <2>3, <2>4, Kinds
<1> QED BY <1>1, <1>2, <1>3 DEF WholeInv

-----------------------------------------------------------------------------
(***************************************************************************)
(* Admission.                                                              *)
(***************************************************************************)

\* The step that admits the i-th event of episode e, with what is known of it.
Admitting(e, i) ==
  /\ boot.step = "ingest" /\ boot.events # <<>>
  /\ Head(boot.events) = Event(e, i)
  /\ i > 1 => Claim(e, i - 1) \in records
  /\ records' = records \cup {Claim(e, i)}
  /\ live' = IF Claim(e, i) \in records THEN live
             ELSE {c \in live : c.id # Claim(e, i).id} \cup {Claim(e, i)}
  /\ boot'.step = "ingest" /\ boot'.episodes = boot.episodes
  /\ boot'.todo = boot.todo /\ boot'.h = boot.h
  /\ boot'.events = Tail(boot.events)
  /\ boot'.answers = boot.answers \cup
       {<<Claim(e, i), IF Claim(e, i) \in records THEN "duplicate" ELSE "accepted">>}
  /\ i < 3 => boot'.events # <<>> /\ Head(boot'.events) = Event(e, i + 1)
  /\ i = 3 /\ boot'.events # <<>> =>
       \E d \in boot.episodes : Head(boot'.events) = Event(d, 1)
  /\ UNCHANGED <<world, hash, checkpoint, derived, bounds>>

\* Ingest is such a step.
LEMMA IngestAdmits ==
  ASSUME BootShaped, EpisodesInv, Ingest
  PROVE  BootShaped' /\ \E e \in boot.episodes : \E i \in 1..3 : Admitting(e, i)
<1> DEFINE event == Head(boot.events)
           status == IF Record(event) \in records THEN "duplicate" ELSE "accepted"
           S == EventsFor(boot.episodes)
           t == Tail(boot.events)
<1>1. /\ boot.step = "ingest" /\ boot.events # <<>>
      /\ boot.events \in Seq(S) /\ InOrder(boot.events, boot.episodes)
  BY DEF Ingest, At, EpisodesInv
<1>2. boot' = [boot EXCEPT !.events = Tail(@),
                           !.answers = @ \cup {<<Record(event), status>>}]
  BY DEF Ingest
<1>3. /\ records' = records \cup {Record(event)}
      /\ live' = IF Record(event) \in records THEN live
                 ELSE {c \in live : c.id # event.id} \cup {Record(event)}
      /\ UNCHANGED <<world, hash, checkpoint, derived, bounds>>
  BY DEF Ingest, Supersede
<1>4. /\ boot'.step = "ingest" /\ boot'.episodes = boot.episodes /\ boot'.h = boot.h
      /\ boot'.todo = boot.todo /\ boot'.events = t
      /\ boot'.answers = boot.answers \cup {<<Record(event), status>>}
  BY <1>1, <1>2 DEF BootShaped
<1>5. BootShaped'
  <2>1. boot' = [step |-> "ingest", todo |-> boot.todo, events |-> boot'.events,
                 answers |-> boot'.answers, episodes |-> boot.episodes, h |-> boot.h]
    BY <1>1, <1>2 DEF BootShaped
  <2>2. boot.h = [signals |-> boot.h.signals, commits |-> boot.h.commits,
                  attempts |-> boot.h.attempts, jobs |-> boot.h.jobs,
                  lineage |-> boot.h.lineage]
    BY <1>1 DEF BootShaped
  <2> QED BY <1>4, <2>1, <2>2 DEF BootShaped, BootSteps
<1>6. /\ DOMAIN boot.events = 1..Len(boot.events) /\ Len(boot.events) \in Nat \ {0}
      /\ event = boot.events[1]
      /\ Len(t) = Len(boot.events) - 1 /\ (t # <<>> <=> Len(boot.events) > 1)
  BY <1>1, Popped
<1>7. t # <<>> => Head(t) = boot.events[2]
  <2> SUFFICES ASSUME t # <<>> PROVE Head(t) = boot.events[2]
    OBVIOUS
  <2>1. 1 \in 1..(Len(boot.events) - 1)
    BY <1>6
  <2>2. t \in Seq(S) /\ t[1] = boot.events[1 + 1]
    BY <1>1, <2>1, Popped
  <2> HIDE DEF t
  <2>3. Head(t) = t[1]
    BY <2>2, Popped
  <2> QED BY <2>2, <2>3
<1>8. 1 \in DOMAIN boot.events /\ 1 + 1 = 2
  BY <1>6
<1> HIDE DEF event
<1>9. PICK e \in boot.episodes, i \in 1..3 :
        /\ event = Event(e, i)
        /\ i < 3 => 1 < Len(boot.events) /\ boot.events[2] = Event(e, i + 1)
        /\ i = 3 /\ 1 < Len(boot.events) =>
             \E d \in boot.episodes : boot.events[2] = Event(d, 1)
  BY <1>1, <1>6, <1>8, Kinds DEF InOrder
<1>10. /\ Record(event) = Claim(e, i) /\ event.id = Claim(e, i).id
       /\ event.payload = e /\ event.id[2] = EventKinds[i]
  <2>1. Record(event) = Claim(e, i) /\ Record(event).id = event.id
    BY <1>9 DEF Claim, Record
  <2> QED BY <1>9, <2>1, Parts
<1>11. i > 1 => Claim(e, i - 1) \in records
  <2>1. \/ event.id[2] = EventKinds[1]
        \/ \E k \in 2..3 : /\ event.id[2] = EventKinds[k]
                           /\ Record(Event(event.payload, k - 1)) \in records
    BY <1>1, Kinds DEF EpisodesInv, event
  <2> QED BY <1>10, <2>1, Kinds DEF Claim
<1> HIDE DEF t
<1>12. i < 3 => t # <<>> /\ Head(t) = Event(e, i + 1)
  BY <1>6, <1>7, <1>9
<1>13. i = 3 /\ t # <<>> => \E d \in boot.episodes : Head(t) = Event(d, 1)
  BY <1>6, <1>7, <1>9
<1>14. Admitting(e, i)
  BY <1>1, <1>3, <1>4, <1>9, <1>10, <1>11, <1>12, <1>13 DEF Admitting, t, event
<1> QED BY <1>5, <1>9, <1>14

\* An admitted claim has its cause in the corpus and takes its place alone.
LEMMA RecordsAdmitted ==
  ASSUME RecordsInv, NEW e, NEW i \in 1..3, Admitting(e, i)
  PROVE  RecordsInv'
<1>1. /\ records' = records \cup {Claim(e, i)}
      /\ live' = IF Claim(e, i) \in records THEN live
                 ELSE {c \in live : c.id # Claim(e, i).id} \cup {Claim(e, i)}
      /\ i > 1 => Claim(e, i - 1) \in records
  BY DEF Admitting
<1>2. live' \subseteq records'
  BY <1>1 DEF RecordsInv
<1>3. \A c, d \in live' : c.id = d.id => c = d
  BY <1>1 DEF RecordsInv
<1>4. ASSUME NEW c \in records'
      PROVE  \E k \in DOMAIN EventKinds :
               c = Claim(c.payload, k) /\ (k > 1 => Claim(c.payload, k - 1) \in records')
  <2>1. CASE c \in records
    BY <1>1, <2>1 DEF RecordsInv
  <2>2. CASE c = Claim(e, i)
    BY <1>1, <2>2, Parts, Kinds
  <2> QED BY <1>1, <2>1, <2>2
<1> QED BY <1>2, <1>3, <1>4 DEF RecordsInv

\* The events that are left stay in order, the answers given stay true.
LEMMA EpisodesAdmitted ==
  ASSUME RecordsInv, EpisodesInv, NEW e \in boot.episodes, NEW i \in 1..3,
         Admitting(e, i)
  PROVE  EpisodesInv'
<1> DEFINE S == EventsFor(boot.episodes)
           event == Head(boot.events)
           t == Tail(boot.events)
           new == Claim(e, i)
<1>1. /\ boot.step = "ingest" /\ boot.events # <<>> /\ event = Event(e, i)
      /\ records' = records \cup {new}
      /\ live' = IF new \in records THEN live
                 ELSE {c \in live : c.id # new.id} \cup {new}
      /\ boot'.step = "ingest" /\ boot'.episodes = boot.episodes /\ boot'.events = t
      /\ boot'.answers = boot.answers \cup
           {<<new, IF new \in records THEN "duplicate" ELSE "accepted">>}
  BY DEF Admitting
<1>2. boot.events \in Seq(S) /\ InOrder(boot.events, boot.episodes)
  BY DEF EpisodesInv
<1>3. /\ DOMAIN boot.events = 1..Len(boot.events) /\ Len(boot.events) \in Nat \ {0}
      /\ event = boot.events[1]
      /\ t \in Seq(S) /\ Len(t) = Len(boot.events) - 1 /\ DOMAIN t = 1..Len(t)
      /\ \A k \in 1..Len(t) : t[k] = boot.events[k + 1]
  BY <1>1, <1>2, Popped
<1> HIDE DEF t, event, new
<1>4. InOrder(t, boot.episodes)
  <2> SUFFICES ASSUME NEW k \in DOMAIN t
               PROVE  \E d \in boot.episodes, m \in DOMAIN EventKinds :
                        /\ t[k] = Event(d, m)
                        /\ m < Len(EventKinds) => k < Len(t) /\ t[k + 1] = Event(d, m + 1)
                        /\ m = Len(EventKinds) /\ k < Len(t) =>
                             \E b \in boot.episodes : t[k + 1] = Event(b, 1)
    BY DEF InOrder
  <2>1. /\ k + 1 \in DOMAIN boot.events /\ t[k] = boot.events[k + 1]
        /\ k + 1 < Len(boot.events) <=> k < Len(t)
        /\ k < Len(t) => t[k + 1] = boot.events[k + 1 + 1]
    BY <1>3
  <2> QED BY <1>2, <2>1 DEF InOrder
<1>5. boot'.events # <<>> =>
        \/ Head(boot'.events).id[2] = EventKinds[1]
        \/ \E k \in 2..Len(EventKinds) :
             /\ Head(boot'.events).id[2] = EventKinds[k]
             /\ Record(Event(Head(boot'.events).payload, k - 1)) \in records'
  <2>1. CASE i < 3
    <3>1. Head(boot'.events) = Event(e, i + 1)
      BY <2>1 DEF Admitting
    <3>2. Head(boot'.events).id[2] = EventKinds[i + 1] /\ Head(boot'.events).payload = e
      BY <3>1, Parts
    <3>3. Record(Event(e, i + 1 - 1)) \in records' /\ i + 1 \in 2..Len(EventKinds)
      BY <1>1, <2>1, Kinds DEF new, Claim
    <3> QED BY <3>2, <3>3
  <2>2. CASE i = 3 /\ boot'.events # <<>>
    <3>1. PICK d \in boot.episodes : Head(boot'.events) = Event(d, 1)
      BY <2>2 DEF Admitting
    <3> QED BY <3>1, Parts
  <2> QED BY <2>1, <2>2
<1>6. new = Record(Event(e, i)) /\ Event(e, i) \in S
  BY Kinds DEF new, Claim, EventsFor
<1>7. ASSUME NEW answer \in boot'.answers
      PROVE  /\ answer[1] \in {Record(x) : x \in S} /\ answer[1] \in records'
             /\ answer[2] = "accepted" => answer[1] \in live'
  <2>1. CASE answer \in boot.answers
    <3>1. /\ answer[1] \in {Record(x) : x \in S} /\ answer[1] \in records
          /\ answer[2] = "accepted" => answer[1] \in live
      BY <2>1 DEF EpisodesInv
    <3>2. new \notin records => answer[1].id # new.id
      <4>1. PICK d \in boot.episodes, k \in 1..3 : answer[1] = Claim(d, k)
        BY <3>1, Kinds DEF EventsFor, Claim
      <4>2. SUFFICES ASSUME Claim(d, k).id = new.id PROVE Claim(d, k) = new
        BY <3>1, <4>1
      <4>3. d.id = e.id /\ k = i
        BY <4>2, ClaimsApart DEF new
      <4> QED BY <4>3 DEF EpisodesInv, Distinct, new
    <3> QED BY <1>1, <3>1, <3>2
  <2>2. CASE answer = <<new, IF new \in records THEN "duplicate" ELSE "accepted">>
    <3>1. answer[1] = new
      BY <2>2
    <3>2. answer[2] = "accepted" => new \notin records
      BY <2>2
    <3> QED BY <1>1, <1>6, <3>1, <3>2
  <2> QED BY <1>1, <2>1, <2>2
<1>8. ASSUME NEW x \in S
      PROVE  x \in ToSet(t) \/ \E answer \in boot'.answers : answer[1] = Record(x)
  <2>1. CASE x = event
    <3>1. <<new, IF new \in records THEN "duplicate" ELSE "accepted">> \in boot'.answers
      BY <1>1
    <3> QED BY <1>1, <1>6, <2>1, <3>1
  <2>2. CASE x \in ToSet(boot.events) /\ x # event
    <3>1. PICK k \in DOMAIN boot.events : x = boot.events[k]
      BY <2>2 DEF ToSet
    <3>2. k - 1 \in DOMAIN t /\ t[k - 1] = x
      BY <1>3, <2>2, <3>1
    <3> QED BY <3>2 DEF ToSet
  <2>3. CASE \E answer \in boot.answers : answer[1] = Record(x)
    BY <1>1, <2>3
  <2> QED BY <1>1, <2>1, <2>2, <2>3 DEF EpisodesInv
<1> QED BY <1>1, <1>3, <1>4, <1>5, <1>7, <1>8 DEF EpisodesInv

\* The events of an episode go in together: one that is in the corpus already
\* changes nothing, and one that is not replaces what it has to replace.
LEMMA WholeAdmitted ==
  ASSUME RecordsInv, WholeInv, NEW e \in boot.episodes, NEW i \in 1..3,
         Admitting(e, i)
  PROVE  WholeInv'
<1> DEFINE new == Claim(e, i)
<1>1. SUFFICES ASSUME bounds.crashes = 0
               PROVE  /\ \A c \in records' :
                           \/ Whole(c.payload, records')
                           \/ \E k \in 1..3 : Halfway(c.payload, k)'
                      /\ \A c \in live' :
                           \/ Whole(c.payload, live')
                           \/ \E k \in 1..3 : Halfway(e, k)' /\ e.id = c.payload.id
                      /\ \A d, k : k \in 1..3 /\ Halfway(d, k)' => HalfwayOK(d, k)'
  BY Kinds DEF WholeInv, Admitting, Underway
<1>2. /\ records' = records \cup {new}
      /\ live' = IF new \in records THEN live
                 ELSE {c \in live : c.id # new.id} \cup {new}
  BY DEF Admitting
<1>3. \A d : \A k \in 1..3 : Halfway(d, k) <=> d = e /\ k = i /\ i > 1
  <2> SUFFICES ASSUME NEW d, NEW k \in 1..3
               PROVE  Halfway(d, k) <=> d = e /\ k = i /\ i > 1
    OBVIOUS
  <2>1. Halfway(d, k) <=> k > 1 /\ Event(e, i) = Event(d, k)
    BY DEF Halfway, Admitting
  <2>2. Event(e, i) = Event(d, k) => e = d /\ i = k
    BY ClaimsApart
  <2> QED BY <2>1, <2>2
<1>4. \A d : \A k \in 1..3 : Halfway(d, k)' <=> d = e /\ k = i + 1 /\ i < 3
  <2> SUFFICES ASSUME NEW d, NEW k \in 1..3
               PROVE  Halfway(d, k)' <=> d = e /\ k = i + 1 /\ i < 3
    OBVIOUS
  <2>1. Halfway(d, k)' <=> boot'.events # <<>> /\ k > 1 /\ Head(boot'.events) = Event(d, k)
    BY DEF Halfway, Admitting
  <2>2. CASE i < 3
    <3>1. boot'.events # <<>> /\ Head(boot'.events) = Event(e, i + 1) /\ i + 1 \in 1..3
      BY <2>2 DEF Admitting
    <3>2. PICK m \in 1..3 : m = i + 1
      BY <3>1
    <3>3. Event(e, m) = Event(d, k) => e = d /\ m = k
      BY ClaimsApart
    <3> QED BY <2>1, <2>2, <3>1, <3>2, <3>3
  <2>3. CASE i = 3
    <3>1. ASSUME boot'.events # <<>>, Head(boot'.events) = Event(d, k) PROVE k = 1
      <4>1. PICK b \in boot.episodes : Head(boot'.events) = Event(b, 1)
        BY <2>3, <3>1 DEF Admitting
      <4>2. EventKinds[k] = EventKinds[1]
        BY <3>1, <4>1, Parts
      <4> QED BY <4>2, Kinds
    <3> QED BY <2>1, <2>3, <3>1
  <2> QED BY <2>2, <2>3
<1>5. \A c \in records : Whole(c.payload, records) \/ (c.payload = e /\ i > 1)
  BY <1>1, <1>3, Kinds DEF WholeInv
<1>6. \A c \in live : Whole(c.payload, live) \/ (e.id = c.payload.id /\ i > 1)
  <2> SUFFICES ASSUME NEW c \in live, ~Whole(c.payload, live)
               PROVE  e.id = c.payload.id /\ i > 1
    OBVIOUS
  <2>1. PICK d \in Underway, k \in DOMAIN EventKinds : Halfway(d, k) /\ d.id = c.payload.id
    BY <1>1 DEF WholeInv
  <2> QED BY <1>3, <2>1, Kinds
<1>7. i > 1 => HalfwayOK(e, i)
  <2>1. e \in Underway
    BY DEF Underway, Admitting
  <2> QED BY <1>1, <1>3, <2>1, Kinds DEF WholeInv
<1>8. new.payload = e
  BY Parts
<1> HIDE DEF new
<1>9. CASE new \in records
  <2>1. Whole(e, records) /\ \A c \in live : c.payload.id = e.id => Whole(c.payload, live)
    <3>1. CASE i = 1
      BY <1>5, <1>6, <1>8, <1>9, <3>1
    <3>2. CASE i > 1
      BY <1>7, <1>9, <3>2, Kinds DEF HalfwayOK, new
    <3> QED BY <3>1, <3>2
  <2>2. records' = records /\ live' = live
    BY <1>2, <1>9
  <2>3. /\ \A c \in records : Whole(c.payload, records)
        /\ \A c \in live : Whole(c.payload, live)
    BY <1>5, <1>6, <2>1
  <2>4. \A k : HalfwayOK(e, k)'
    BY <2>1, <2>2 DEF HalfwayOK
  <2> QED BY <1>4, <2>2, <2>3, <2>4
<1>10. CASE new \notin records
  <2>1. \A k \in 1..3 : IF k < i THEN Claim(e, k) \in live ELSE Claim(e, k) \notin records
    <3>1. CASE i = 1
      <4> SUFFICES ASSUME NEW k \in 1..3, Claim(e, k) \in records PROVE FALSE
        BY <3>1
      <4>1. Whole(e, records)
        BY <1>5, <3>1, Parts
      <4> QED BY <1>10, <4>1, Kinds DEF Whole, new
    <3>2. CASE i > 1
      BY <1>7, <1>10, <3>2, Kinds DEF HalfwayOK, Whole, new
    <3> QED BY <3>1, <3>2
  <2>2. live' = {c \in live : c.id # new.id} \cup {new}
    BY <1>2, <1>10
  <2>3. \A k \in 1..3 :
          IF k < i + 1 THEN Claim(e, k) \in live' ELSE Claim(e, k) \notin records'
    <3> SUFFICES ASSUME NEW k \in 1..3
                 PROVE  IF k < i + 1 THEN Claim(e, k) \in live'
                        ELSE Claim(e, k) \notin records'
      OBVIOUS
    <3>1. k # i => Claim(e, k).id # new.id /\ Claim(e, k) # new
      BY ClaimsApart DEF new
    <3>2. CASE k = i
      BY <2>2, <3>2 DEF new
    <3>3. CASE k < i
      BY <2>1, <2>2, <3>1, <3>3
    <3>4. CASE k > i
      BY <1>2, <2>1, <3>1, <3>4
    <3> QED BY <3>2, <3>3, <3>4
  <2>4. \A k : k = i + 1 => HalfwayOK(e, k)'
    BY <2>3, Kinds DEF HalfwayOK
  <2>5. RecordsInv'
    BY RecordsAdmitted
  <2>6. i = 3 => Whole(e, live') /\ Whole(e, records')
    BY <2>3, <2>5, Kinds DEF Whole, RecordsInv
  <2>7. i < 3 => i + 1 \in 1..3 /\ Halfway(e, i + 1)'
    <3> SUFFICES ASSUME i < 3 PROVE i + 1 \in 1..3 /\ Halfway(e, i + 1)'
      OBVIOUS
    <3>1. PICK k \in 1..3 : k = i + 1
      OBVIOUS
    <3>2. Halfway(e, k)'
      BY <1>4, <3>1
    <3> QED BY <3>1, <3>2
  <2>8. ASSUME NEW c \in records'
        PROVE  Whole(c.payload, records') \/ \E k \in 1..3 : Halfway(c.payload, k)'
    <3>1. CASE c.payload = e
      BY <2>6, <2>7, <3>1
    <3>2. CASE c.payload # e
      <4>1. Whole(c.payload, records)
        BY <1>2, <1>5, <1>8, <3>2
      <4> QED BY <1>2, <4>1 DEF Whole
    <3> QED BY <3>1, <3>2
  <2>9. ASSUME NEW c \in live'
        PROVE  \/ Whole(c.payload, live')
               \/ \E k \in 1..3 : Halfway(e, k)' /\ e.id = c.payload.id
    <3>1. CASE c.payload.id = e.id /\ i < 3
      BY <2>7, <3>1
    <3>2. CASE c.payload.id = e.id /\ i = 3
      <4>1. PICK k \in 1..3 : c = Claim(c.payload, k)
        BY <2>5, Kinds DEF RecordsInv
      <4>2. c.id = Claim(e, k).id
        BY <3>2, <4>1, Parts
      <4>3. Claim(e, k) \in live'
        BY <2>6, <3>2, Kinds DEF Whole
      <4>4. c.payload = e
        BY <2>5, <4>2, <4>3, Parts DEF RecordsInv
      <4> QED BY <2>6, <3>2, <4>4
    <3>3. CASE c.payload.id # e.id
      <4>1. Whole(c.payload, live)
        BY <1>6, <1>8, <2>2, <3>3
      <4>2. \A k \in 1..3 : Claim(c.payload, k).id # new.id
        BY <3>3, Parts DEF new
      <4> QED BY <2>2, <4>1, <4>2, Kinds DEF Whole
    <3> QED BY <3>1, <3>2, <3>3
  <2> QED BY <1>4, <2>4, <2>8, <2>9
<1> QED BY <1>9, <1>10

-----------------------------------------------------------------------------
(***************************************************************************)
(* Every step.                                                             *)
(***************************************************************************)

\* What the pull request does leaves the bootstrap to go on.
LEMMA WorldStep ==
  ASSUME HistoryInv, Change, WorldTyped', EndedStays
  PROVE  HistoryInv'
<1>1. /\ boot' = boot /\ UNCHANGED <<hash, derived, records, live>>
      /\ bounds' = [bounds EXCEPT !.changes = @ + 1]
  BY DEF Change
<1>2. bounds'.crashes = bounds.crashes
      /\ bounds' \in [changes : Nat, bootstraps : Nat, crashes : Nat]
  BY <1>1 DEF HistoryInv
<1>3. boot.step # "idle" => HarvestInv'
  BY <1>1, HarvestKept DEF HistoryInv
<1>4. BootShaped' /\ RecordsInv' /\ (boot.step # "idle" => EpisodesInv')
  BY <1>1 DEF HistoryInv, BootShaped, RecordsInv, EpisodesInv
<1>5. WholeInv'
  <2>1. Underway' = Underway
    BY <1>1 DEF Underway
  <2>2. \A e, i : Halfway(e, i)' = Halfway(e, i)
    BY <1>1 DEF Halfway
  <2>3. \A e, i : HalfwayOK(e, i)' = HalfwayOK(e, i)
    BY <1>1 DEF HalfwayOK
  <2> QED BY <1>1, <1>2, <2>1, <2>2, <2>3 DEF WholeInv, HistoryInv
<1> QED BY <1>1, <1>2, <1>3, <1>4, <1>5 DEF HistoryInv

\* What a step that leaves world and corpus alone has to keep.
LEMMA BootStep ==
  ASSUME HistoryInv, UNCHANGED <<world, hash, records, live>>, BootShaped',
         boot'.step # "idle" => HarvestInv' /\ EpisodesInv',
         bounds'.crashes = bounds.crashes,
         bounds' \in [changes : Nat, bootstraps : Nat, crashes : Nat],
         boot.step # "ingest" \/ boot.events = <<>>,
         \/ boot'.step # "ingest"
         \/ boot'.events = <<>>
         \/ \E e \in boot'.episodes : Head(boot'.events) = Event(e, 1),
         Distinct(derived')
  PROVE  HistoryInv'
<1>1. WholeInv'
  BY WholeQuiet DEF HistoryInv
<1>2. WorldTyped' /\ RecordsInv'
  BY DEF HistoryInv, WorldTyped, RecordsInv
<1> QED BY <1>1, <1>2 DEF HistoryInv

\* A bootstrap that stops leaves nothing half done but for a crash.
LEMMA QuitKeeps ==
  ASSUME HistoryInv, Quit, UNCHANGED <<world, hash, records, live, derived>>,
         bounds' = bounds, boot.step # "ingest"
  PROVE  HistoryInv'
<1>1. boot'.step = "idle"
  BY DEF Quit, Idle
<1>2. BootShaped'
  BY <1>1 DEF BootShaped, BootSteps
<1> QED BY <1>1, <1>2, BootStep DEF HistoryInv

\* A step on: the parts of a bootstrap are all there.
LEMMA Shaped ==
  ASSUME BootShaped, boot.step # "idle", NEW to \in BootSteps,
         NEW todo, NEW events, NEW answers, NEW episodes, NEW h,
         boot' = [boot EXCEPT !.step = to, !.todo = todo, !.events = events,
                    !.answers = answers, !.episodes = episodes, !.h = h],
         h = [signals |-> h.signals, commits |-> h.commits, attempts |-> h.attempts,
              jobs |-> h.jobs, lineage |-> h.lineage]
  PROVE  /\ BootShaped' /\ boot'.step = to /\ boot'.todo = todo
         /\ boot'.events = events /\ boot'.answers = answers
         /\ boot'.episodes = episodes /\ boot'.h = h
<1>1. boot' = [step |-> to, todo |-> todo, events |-> events, answers |-> answers,
               episodes |-> episodes, h |-> h]
  BY DEF BootShaped
<1> QED BY <1>1 DEF BootShaped

\* Start: a bootstrap has nothing yet.
LEMMA StartKeeps ==
  ASSUME HistoryInv, NEW lineage \in Lineages, Start(lineage)
  PROVE  HistoryInv'
<1>1. /\ boot.step # "ingest"
      /\ boot' = [step |-> "timeline", todo |-> <<>>, events |-> <<>>, answers |-> {},
                  episodes |-> {},
                  h |-> [signals |-> {}, commits |-> {}, attempts |-> {}, jobs |-> {},
                         lineage |-> lineage]]
      /\ bounds' = [bounds EXCEPT !.bootstraps = @ + 1]
      /\ UNCHANGED <<world, hash, derived, records, live>>
  BY DEF Start, Idle, At
<1>2. bounds'.crashes = bounds.crashes
      /\ bounds' \in [changes : Nat, bootstraps : Nat, crashes : Nat]
  BY <1>1 DEF HistoryInv
<1>3. BootShaped' /\ boot'.step = "timeline"
  BY <1>1 DEF BootShaped, BootSteps
<1>4. HarvestInv'
  BY <1>1, NoEvents, HarvestFresh
<1>5. EpisodesInv'
  BY <1>1, FS_EmptySet, EpisodesFresh DEF Distinct
<1> QED BY <1>1, <1>2, <1>3, <1>4, <1>5, BootStep DEF HistoryInv

\* FetchTimeline reads nothing that is kept but the signals.
LEMMA TimelineKeeps ==
  ASSUME HistoryInv, FetchTimeline
  PROVE  HistoryInv'
<1>1. /\ boot.step = "timeline" /\ UNCHANGED <<world, hash, derived, records, live, bounds>>
      /\ boot' = [boot EXCEPT !.step = "commits", !.h.signals = world.signals]
  BY DEF FetchTimeline, Fetching, At
<1>2. /\ boot' = [step |-> "commits", todo |-> boot.todo, events |-> boot.events,
                  answers |-> boot.answers, episodes |-> boot.episodes, h |-> boot'.h]
      /\ boot'.h = [signals |-> world.signals, commits |-> boot.h.commits,
                    attempts |-> boot.h.attempts, jobs |-> boot.h.jobs,
                    lineage |-> boot.h.lineage]
  BY <1>1 DEF HistoryInv, BootShaped
<1>3. BootShaped'
  BY <1>2 DEF BootShaped, BootSteps
<1>4. HarvestInv /\ EpisodesInv
  BY <1>1 DEF HistoryInv
<1>5. HarvestInv'
  BY <1>1, <1>2, <1>4, HarvestSame DEF HarvestInv
<1>6. EpisodesInv'
  BY <1>1, <1>2, <1>4, EpisodesFresh DEF EpisodesInv
<1> QED BY <1>1, <1>2, <1>3, <1>5, <1>6, BootStep DEF HistoryInv

\* FetchCommits starts with the commits as they are now.
LEMMA CommitsKeep ==
  ASSUME HistoryInv, FetchCommits
  PROVE  HistoryInv'
<1>1. /\ boot.step = "commits" /\ UNCHANGED <<world, hash, derived, records, live, bounds>>
      /\ boot' = [boot EXCEPT !.step = "runs", !.todo = world.commits,
                              !.h.commits = ToSet(world.commits)]
  BY DEF FetchCommits, Fetching, At
<1>2. /\ boot' = [step |-> "runs", todo |-> world.commits, events |-> boot.events,
                  answers |-> boot.answers, episodes |-> boot.episodes, h |-> boot'.h]
      /\ boot'.h = [signals |-> boot.h.signals, commits |-> ToSet(world.commits),
                    attempts |-> boot.h.attempts, jobs |-> boot.h.jobs,
                    lineage |-> boot.h.lineage]
  BY <1>1 DEF HistoryInv, BootShaped
<1>3. BootShaped'
  BY <1>2 DEF BootShaped, BootSteps
<1>4. HarvestInv /\ EpisodesInv
  BY <1>1 DEF HistoryInv
<1>5. HarvestInv'
  BY <1>1, <1>2, <1>4, HarvestFresh DEF HarvestInv, HistoryInv, WorldTyped
<1>6. EpisodesInv'
  BY <1>1, <1>2, <1>4, EpisodesFresh DEF EpisodesInv
<1> QED BY <1>1, <1>2, <1>3, <1>5, <1>6, BootStep DEF HistoryInv

\* FetchRuns and FetchJobs add to the harvest.
LEMMA FetchKeeps ==
  ASSUME HistoryInv, FetchRuns \/ FetchJobs
  PROVE  HistoryInv'
<1>1. /\ boot.step \in {"runs", "jobs"}
      /\ UNCHANGED <<world, hash, derived, records, live, bounds>>
  BY DEF FetchRuns, FetchJobs, Fetching, At
<1>2. WorldTyped /\ BootShaped /\ HarvestInv /\ EpisodesInv
  BY <1>1 DEF HistoryInv
<1>3. BootShaped' /\ HarvestInv'
  BY <1>2, RunsFetched, JobsFetched
<1>4. /\ boot'.step \in {"runs", "jobs"} /\ boot'.events = boot.events
      /\ boot'.answers = boot.answers /\ boot'.episodes = boot.episodes
  <2>1. CASE FetchRuns
    <3>1. PICK more : boot' = [boot EXCEPT !.step = "jobs", !.h.attempts = @ \cup more]
      BY <2>1 DEF FetchRuns
    <3> QED BY <1>1, <1>2, <3>1 DEF BootShaped
  <2>2. CASE FetchJobs
    <3>1. PICK more : boot' = [boot EXCEPT !.step = "runs", !.todo = Tail(@),
                                           !.h.jobs = @ \cup more]
      BY <2>2 DEF FetchJobs
    <3> QED BY <1>1, <1>2, <3>1 DEF BootShaped
  <2> QED BY <2>1, <2>2
<1>5. EpisodesInv'
  BY <1>1, <1>2, <1>4, EpisodesFresh DEF EpisodesInv
<1> QED BY <1>1, <1>3, <1>4, <1>5, BootStep DEF HistoryInv

\* A step that goes on with what there is.
LEMMA GotoKeeps ==
  ASSUME HistoryInv, NEW to \in {"screen", "project"}, Goto(to),
         boot.step \in {"runs", "store"}, boot.todo = <<>>,
         UNCHANGED <<world, hash, records, live, bounds>>, Distinct(derived')
  PROVE  HistoryInv'
<1>1. boot' = [boot EXCEPT !.step = to]
  BY DEF Goto
<1>2. boot' = [step |-> to, todo |-> boot.todo, events |-> boot.events,
               answers |-> boot.answers, episodes |-> boot.episodes, h |-> boot.h]
  BY <1>1 DEF HistoryInv, BootShaped
<1>3. BootShaped'
  BY <1>2 DEF HistoryInv, BootShaped, BootSteps
<1>4. HarvestInv /\ EpisodesInv
  BY DEF HistoryInv
<1>5. HarvestInv'
  BY <1>2, <1>4, HarvestSame
<1>6. EpisodesInv'
  BY <1>2, <1>4, EpisodesFresh DEF EpisodesInv
<1> QED BY <1>2, <1>3, <1>5, <1>6, BootStep DEF HistoryInv

\* The parts of a harvest at hand are told apart.
LEMMA HarvestIsKnown ==
  ASSUME WorldTyped, HarvestInv
  PROVE  Known(boot.h)
<1>1. ASSUME NEW run \in Runs, NEW n \in DOMAIN world.attempts[run]
      PROVE  <<run, n>> \in Attempts /\ n \in Nat
  <2>1. world.attempts[run] \in Seq(Results \cup {Running})
        /\ Len(world.attempts[run]) <= MaxAttempts /\ MaxAttempts \in Nat
    BY BoundsAssumption DEF WorldTyped
  <2>2. n \in 1..Len(world.attempts[run]) /\ Len(world.attempts[run]) \in Nat
    BY <2>1, LenProperties
  <2> QED BY <2>1, <2>2 DEF Attempts
<1>2. \A a \in boot.h.attempts : Ref(a) \in Attempts /\ a.number \in Nat
  BY <1>1 DEF HarvestInv, AttemptKnown, Ref
<1>3. \A j \in boot.h.jobs : Ref(j) \in Attempts /\ j.id \in Jobs
  BY <1>1 DEF HarvestInv, JobKnown, Ref
<1> QED BY <1>2, <1>3 DEF Known, HarvestInv

\* Reconstruct makes a finite number of episodes of distinct identities.
LEMMA ReconstructKeeps ==
  ASSUME HistoryInv, Reconstruct
  PROVE  HistoryInv'
<1> DEFINE h == Screened(boot.h)
<1>1. /\ boot.step = "screen" /\ UNCHANGED <<world, hash, derived, records, live, bounds>>
      /\ boot' = [boot EXCEPT !.step = "store", !.h = h, !.episodes = Episodes(h, Hashes[hash])]
  BY DEF Reconstruct, At
<1>2. HarvestInv /\ EpisodesInv /\ BootShaped /\ WorldTyped
  BY <1>1 DEF HistoryInv
<1>3. /\ h.attempts = boot.h.attempts /\ h.jobs = boot.h.jobs
      /\ h = [signals |-> h.signals, commits |-> h.commits, attempts |-> h.attempts,
              jobs |-> h.jobs, lineage |-> h.lineage]
  BY <1>1, <1>2 DEF Screened, BootShaped
<1> HIDE DEF h
<1>4. boot' = [step |-> "store", todo |-> boot.todo, events |-> boot.events,
               answers |-> boot.answers, episodes |-> Episodes(h, Hashes[hash]), h |-> h]
  BY <1>1, <1>2 DEF BootShaped
<1>5. BootShaped'
  BY <1>3, <1>4 DEF BootShaped, BootSteps
<1>6. Known(h)
  BY <1>2, <1>3, HarvestIsKnown DEF Known
<1>10. Telling(Hashes[hash])
  BY HashesAssumption DEF HistoryInv, Telling
<1>7. IsFiniteSet(Episodes(h, Hashes[hash])) /\ Distinct(Episodes(h, Hashes[hash]))
  BY <1>2, <1>3, <1>6, <1>10, EpisodesFinite, EpisodesDistinct DEF HarvestInv
<1>8. HarvestInv'
  BY <1>1, <1>2, <1>3, <1>4, HarvestSame DEF HarvestInv
<1>9. EpisodesInv'
  BY <1>1, <1>2, <1>4, <1>7, EpisodesFresh DEF EpisodesInv
<1> QED BY <1>1, <1>4, <1>5, <1>8, <1>9, BootStep DEF HistoryInv

\* StoreEpisodes leaves one episode of an identity in the store.
LEMMA StoreKeeps ==
  ASSUME HistoryInv, StoreEpisodes
  PROVE  HistoryInv'
<1>1. /\ boot.step = "store" /\ Goto("project")
      /\ UNCHANGED <<world, hash, records, live, bounds>>
      /\ derived' = {d \in derived : \A e \in boot.episodes : d.id # e.id} \cup boot.episodes
  BY DEF StoreEpisodes, At
<1>2. Distinct(derived) /\ Distinct(boot.episodes) /\ boot.todo = <<>>
  BY <1>1 DEF HistoryInv, EpisodesInv, HarvestInv
<1>3. Distinct(derived')
  BY <1>1, <1>2 DEF Distinct
<1> QED BY <1>1, <1>2, <1>3, GotoKeeps

\* Project puts the events of all episodes in a row, or gives up.
LEMMA ProjectKeeps ==
  ASSUME HistoryInv, Project
  PROVE  HistoryInv'
<1> DEFINE p == Projected(boot.episodes)
<1>1. boot.step = "project" /\ UNCHANGED <<world, hash, derived, records, live, bounds>>
  BY DEF Project, At
<1>2. HarvestInv /\ EpisodesInv /\ BootShaped
  BY <1>1 DEF HistoryInv
<1>3. CASE Quit
  BY <1>1, <1>3, QuitKeeps
<1>4. CASE boot' = [boot EXCEPT !.step = "ingest", !.events = p]
  <2>1. /\ p \in Seq(EventsFor(boot.episodes)) /\ ToSet(p) = EventsFor(boot.episodes)
        /\ InOrder(p, boot.episodes)
        /\ p # <<>> => \E e \in boot.episodes : Head(p) = Event(e, 1)
    BY <1>2, ProjectedInOrder DEF EpisodesInv
  <2> HIDE DEF p
  <2>2. boot' = [step |-> "ingest", todo |-> boot.todo, events |-> p,
                 answers |-> boot.answers, episodes |-> boot.episodes, h |-> boot.h]
    BY <1>1, <1>2, <1>4 DEF BootShaped
  <2>3. BootShaped'
    BY <1>1, <1>2, <2>2 DEF BootShaped, BootSteps
  <2>4. HarvestInv'
    BY <1>1, <1>2, <2>2, HarvestSame DEF HarvestInv
  <2>5. p # <<>> => Head(p).id[2] = EventKinds[1]
    BY <2>1, Parts
  <2>6. IsFiniteSet(boot.episodes) /\ Distinct(boot.episodes) /\ boot.answers = {}
    BY <1>1, <1>2 DEF EpisodesInv
  <2>7. EpisodesInv'
    BY <2>1, <2>2, <2>5, <2>6 DEF EpisodesInv
  <2> QED BY <1>1, <2>1, <2>2, <2>3, <2>4, <2>7, BootStep DEF HistoryInv
<1> QED BY <1>3, <1>4 DEF Project

\* Ingest admits one event.
LEMMA IngestKeeps ==
  ASSUME HistoryInv, Ingest
  PROVE  HistoryInv'
<1>1. boot.step = "ingest"
  BY DEF Ingest, At
<1>2. HarvestInv /\ EpisodesInv /\ BootShaped
  BY <1>1 DEF HistoryInv
<1>3. BootShaped' /\ \E e \in boot.episodes : \E i \in 1..3 : Admitting(e, i)
  BY <1>2, IngestAdmits
<1>4. PICK e \in boot.episodes, i \in 1..3 : Admitting(e, i)
  BY <1>3
<1>5. RecordsInv' /\ EpisodesInv' /\ WholeInv'
  BY <1>2, <1>4, RecordsAdmitted, EpisodesAdmitted, WholeAdmitted DEF HistoryInv
<1>6. /\ boot'.step = "ingest" /\ boot'.todo = boot.todo /\ boot'.h = boot.h
      /\ UNCHANGED <<world, hash, derived, bounds>>
  BY <1>4 DEF Admitting
<1>7. HarvestInv'
  BY <1>1, <1>2, <1>6, HarvestSame DEF HarvestInv
<1> QED BY <1>3, <1>5, <1>6, <1>7 DEF HistoryInv, WorldTyped

\* Finish: every event was answered.
LEMMA FinishKeeps ==
  ASSUME HistoryInv, Finish
  PROVE  HistoryInv'
<1>1. /\ boot.step = "ingest" /\ boot.events = <<>>
      /\ boot' = [boot EXCEPT !.step = "done"]
      /\ UNCHANGED <<world, hash, derived, records, live, bounds>>
  BY DEF Finish, At, Goto
<1>2. HarvestInv /\ EpisodesInv /\ BootShaped
  BY <1>1 DEF HistoryInv
<1>3. boot' = [step |-> "done", todo |-> boot.todo, events |-> boot.events,
               answers |-> boot.answers, episodes |-> boot.episodes, h |-> boot.h]
  BY <1>1, <1>2 DEF BootShaped
<1>4. BootShaped'
  BY <1>1, <1>2, <1>3 DEF BootShaped, BootSteps
<1>5. HarvestInv'
  BY <1>1, <1>2, <1>3, HarvestSame DEF HarvestInv
<1>6. EpisodesInv'
  BY <1>1, <1>2, <1>3 DEF EpisodesInv
<1> QED BY <1>1, <1>3, <1>4, <1>5, <1>6, BootStep DEF HistoryInv

\* Crash: what was admitted stays.
LEMMA CrashKeeps ==
  ASSUME HistoryInv, Crash
  PROVE  HistoryInv'
<1>1. /\ Quit /\ UNCHANGED <<world, hash, derived, records, live>>
      /\ bounds' = [bounds EXCEPT !.crashes = @ + 1]
  BY DEF Crash
<1>2. /\ bounds' \in [changes : Nat, bootstraps : Nat, crashes : Nat]
      /\ bounds'.crashes # 0
  BY <1>1 DEF HistoryInv
<1>3. boot'.step = "idle" /\ BootShaped'
  BY <1>1 DEF Quit, Idle, BootShaped, BootSteps
<1>4. WholeInv'
  BY <1>2 DEF WholeInv
<1> QED BY <1>1, <1>2, <1>3, <1>4 DEF HistoryInv, WorldTyped, RecordsInv

\* Nothing changes nothing.
LEMMA StutterKeeps ==
  ASSUME HistoryInv, UNCHANGED vars
  PROVE  HistoryInv'
BY DEF vars, HistoryInv, WorldTyped, BootShaped, HarvestInv, AttemptKnown, JobKnown,
       Unread, Unlisted, EpisodesInv, RecordsInv, WholeInv, Underway, Halfway, HalfwayOK

-----------------------------------------------------------------------------
(***************************************************************************)
(* The invariant and what follows.                                         *)
(***************************************************************************)

\* In every state the harvest at hand is true of the pull request, and what
\* is admitted of an episode is in order (provider.py, bootstrap.py).
THEOREM HistoryInvariant == Spec => []HistoryInv
<1>1. Init => HistoryInv
  <2> SUFFICES ASSUME Init PROVE HistoryInv
    OBVIOUS
  <2>1. /\ world \in InitialWorlds /\ hash \in DOMAIN Hashes /\ boot.step = "idle"
        /\ derived = {} /\ records = {} /\ live = {}
        /\ bounds = [changes |-> 0, bootstraps |-> 0, crashes |-> 0]
    BY DEF Init, Idle
  <2>2. WorldTyped
    BY <2>1, WorldAssumption DEF WorldTyped
  <2>3. BootShaped /\ Distinct(derived) /\ RecordsInv
    BY <2>1 DEF BootShaped, BootSteps, Distinct, RecordsInv
  <2>4. WholeInv
    BY <2>1 DEF WholeInv, Underway
  <2> QED BY <2>1, <2>2, <2>3, <2>4 DEF HistoryInv
<1>2. HistoryInv /\ [Next]_vars => HistoryInv'
  <2> SUFFICES ASSUME HistoryInv, [Next]_vars PROVE HistoryInv'
    OBVIOUS
  <2>1. ASSUME ForcePush \/ \E r \in Revisions : Push(r) PROVE HistoryInv'
    <3>1. Change
      BY <2>1 DEF ForcePush, Push
    <3> QED BY <2>1, <3>1, Pushed, WorldStep DEF HistoryInv
  <2>2. ASSUME NEW run \in Runs, Trigger(run) PROVE HistoryInv'
    <3>1. Change
      BY <2>2 DEF Trigger
    <3> QED BY <2>2, <3>1, Triggered, WorldStep DEF HistoryInv
  <2>3. ASSUME NEW run \in Runs, NEW result \in Results, Complete(run, result)
        PROVE  HistoryInv'
    <3>1. Change
      BY <2>3 DEF Complete
    <3> QED BY <2>3, <3>1, Completed, WorldStep DEF HistoryInv
  <2>4. ASSUME NEW lineage \in Lineages, Start(lineage) PROVE HistoryInv'
    BY <2>4, StartKeeps
  <2>5. CASE FetchTimeline
    BY <2>5, TimelineKeeps
  <2>6. CASE FetchCommits
    BY <2>6, CommitsKeep
  <2>7. CASE FetchRuns \/ FetchJobs
    BY <2>7, FetchKeeps
  <2>8. CASE FailHarvest
    BY <2>8, QuitKeeps DEF FailHarvest
  <2>9. CASE WriteCheckpoint
    BY <2>9, GotoKeeps DEF WriteCheckpoint, At, HistoryInv
  <2>10. CASE Reconstruct
    BY <2>10, ReconstructKeeps
  <2>11. CASE StoreEpisodes
    BY <2>11, StoreKeeps
  <2>12. CASE Project
    BY <2>12, ProjectKeeps
  <2>13. CASE Ingest
    BY <2>13, IngestKeeps
  <2>14. CASE Finish
    BY <2>14, FinishKeeps
  <2>15. CASE Crash
    BY <2>15, CrashKeeps
  <2>16. CASE UNCHANGED vars
    BY <2>16, StutterKeeps
  <2> QED BY <2>1, <2>2, <2>3, <2>4, <2>5, <2>6, <2>7, <2>8, <2>9, <2>10, <2>11,
             <2>12, <2>13, <2>14, <2>15, <2>16 DEF Next
<1> QED BY <1>1, <1>2, PTL DEF Spec

\* The claims in force were all admitted and have distinct event identities,
\* and the derived store holds one episode of an identity.
THEOREM BootstrapTyped == Spec => []BootstrapTypeOK
<1>1. HistoryInv => BootstrapTypeOK
  <2> SUFFICES ASSUME HistoryInv PROVE BootstrapTypeOK
    OBVIOUS
  <2>1. ToSet(world.commits) \subseteq Revisions
    BY LenProperties, ElementOfSeq DEF HistoryInv, WorldTyped, ToSet
  <2> QED BY <2>1 DEF HistoryInv, BootstrapTypeOK, WorldTyped, BootShaped, BootSteps,
                      Distinct, RecordsInv
<1> QED BY <1>1, HistoryInvariant, PTL

\* A harvest that came to its end cut no list short, whatever became of the
\* pull request while it was read (provider.py:332-378).
THEOREM HarvestAlwaysComplete == Spec => []HarvestComplete
<1>1. HistoryInv => HarvestComplete
  <2> SUFFICES ASSUME HistoryInv, boot.step = "screen", NEW a \in boot.h.attempts
               PROVE  /\ a.conclusion # None =>
                           {j.id : j \in JobsOf(a, boot.h)}
                             = DOMAIN world.attempts[a.run][a.number]
                      /\ a.missing \/ \A n \in 1..(a.number - 1) :
                           \E b \in boot.h.attempts : Ref(b) = <<a.run, n>>
    BY DEF HarvestComplete, At
  <2>1. AttemptKnown(a) /\ boot.todo = <<>>
    BY DEF HistoryInv, HarvestInv
  <2>2. Unread = {}
    BY <2>1 DEF Unread, ToSet
  <2> QED BY <2>1, <2>2 DEF AttemptKnown
<1> QED BY <1>1, HistoryInvariant, PTL

\* No event is in the corpus without the one it names as its cause, whenever
\* bootstraps stop (bootstrap.py:104).
THEOREM ParentsAlwaysAdmitted == Spec => []ParentsAdmitted
<1>1. HistoryInv => ParentsAdmitted
  <2> SUFFICES ASSUME HistoryInv, NEW c \in records, c.id[2] # EventKinds[1]
               PROVE  \E d \in records : d.payload = c.payload /\ d.id[2] =
                        (IF c.id[2] = EventKinds[2] THEN EventKinds[1] ELSE EventKinds[2])
    BY DEF ParentsAdmitted
  <2>1. PICK i \in 1..3 : /\ c = Claim(c.payload, i)
                          /\ i > 1 => Claim(c.payload, i - 1) \in records
    BY Kinds DEF HistoryInv, RecordsInv
  <2>2. c.id[2] = EventKinds[i] /\ i \in {2, 3}
    BY <2>1, Parts
  <2>3. /\ Claim(c.payload, i - 1) \in records
        /\ Claim(c.payload, i - 1).payload = c.payload
        /\ Claim(c.payload, i - 1).id[2] = EventKinds[i - 1]
    BY <2>1, <2>2, Parts
  <2>4. EventKinds[i - 1] = IF c.id[2] = EventKinds[2] THEN EventKinds[1] ELSE EventKinds[2]
    BY <2>2, Kinds
  <2> QED BY <2>3, <2>4
<1> QED BY <1>1, HistoryInvariant, PTL

\* As long as no bootstrap was stopped in the middle, the three claims in
\* force of an episode come from one reconstruction of it, however often the
\* pull request is mined again (service.py:147).
THEOREM EpisodesAlwaysWhole == Spec => []WholeEpisodes
<1>1. HistoryInv => WholeEpisodes
  BY DEF HistoryInv, WholeInv, WholeEpisodes, Underway, Whole, Claim
<1> QED BY <1>1, HistoryInvariant, PTL

\* When a bootstrap is done each of its events was answered, and each answer
\* is true of the corpus (service.py:147, bootstrap.py:104).
THEOREM DoneAlwaysInForce == Spec => []DoneIsInForce
<1>1. HistoryInv => DoneIsInForce
  <2> SUFFICES ASSUME HistoryInv, boot.step = "done"
               PROVE  /\ \A answer \in boot.answers :
                           answer[1] \in IF answer[2] = "accepted" THEN live ELSE records
                      /\ \A e \in boot.episodes : \A i \in DOMAIN EventKinds :
                           \E answer \in boot.answers : answer[1] = Record(Event(e, i))
    BY DEF DoneIsInForce, At
  <2>1. EpisodesInv /\ boot.events = <<>>
    BY DEF HistoryInv, EpisodesInv
  <2>2. ToSet(boot.events) = {}
    BY <2>1 DEF ToSet
  <2>3. \A e \in boot.episodes : \A i \in DOMAIN EventKinds :
          Event(e, i) \in EventsFor(boot.episodes)
    BY DEF EventsFor
  <2> QED BY <2>1, <2>2, <2>3 DEF EpisodesInv
<1> QED BY <1>1, HistoryInvariant, PTL
=============================================================================
