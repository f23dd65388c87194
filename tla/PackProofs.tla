------------------------------ MODULE PackProofs ------------------------------
(***************************************************************************)
(* Publication: what is true of keys, packs, manifests and channels in     *)
(* every state, whoever observes what of the packs meanwhile.              *)
(***************************************************************************)
EXTENDS GovernanceInvariants, SequenceTheorems, FiniteSetTheorems,
        FunctionTheorems, TLAPS

-----------------------------------------------------------------------------
(***************************************************************************)
(* Packs.                                                                  *)
(***************************************************************************)

\* Steps of publication keep the types of what is compiled and assembled.
LEMMA PacksKept ==
  ASSUME PacksTyped, PackNext
  PROVE  PacksTyped' /\ packs \subseteq packs'
<1>1. CASE \E batch \in Batches \ corpus : Admit(batch)
  BY <1>1, FS_AddElement DEF PacksTyped, Admit
<1>2. CASE Compile
  BY <1>2 DEF PacksTyped, Compile
<1>3. ASSUME NEW compilation \in compilations, NEW version \in Versions,
             Assemble(compilation, version)
      PROVE  PacksTyped' /\ packs \subseteq packs'
  <2> DEFINE new == [version |-> version, compilation |-> compilation]
  <2>1. packs' = packs \cup {new} /\ UNCHANGED <<corpus, compilations>>
    BY <1>3 DEF Assemble
  <2>2. new \in Packs /\ new.compilation \in compilations
    BY DEF PacksTyped, Packs
  <2> HIDE DEF new
  <2> QED BY <2>1, <2>2 DEF PacksTyped
<1>4. CASE UNCHANGED <<corpus, compilations, packs>>
  BY <1>4 DEF PacksTyped
<1> QED
  BY <1>1, <1>2, <1>3, <1>4
  DEF PackNext, StartKeygen, WritePublicKey, FailPublicKey, WritePrivateKey,
      FailPrivateKey, CrashKeygen, KeysOnly, Sign, ReadIndex, ReplaceIndex,
      CrashUpdate, Retire

\* A state is promotion_eligible for a score of at least four.
LEMMA EligibleState ==
  \A score : CandidateState(score) = "promotion_eligible" => score >= 4 * Millionths
BY DEF CandidateState

\* The candidates of a corpus are those extract_candidates finds in it.
LEMMA CandidatesOfCorpus ==
  ASSUME NEW batches \in SUBSET Batches
  PROVE  CandidatesOf(batches) = Candidates(EventsOf(batches))
<1> DEFINE chosen == CHOOSE entry \in Catalog : entry.batches = batches
           own == [batches |-> batches, candidates |-> Candidates(EventsOf(batches))]
<1>1. own \in Catalog /\ own.batches = batches
  BY DEF Catalog
<1>2. chosen \in Catalog /\ chosen.batches = batches
  BY <1>1
<1>3. PICK other \in SUBSET Batches :
        chosen = [batches |-> other, candidates |-> Candidates(EventsOf(other))]
  BY <1>2 DEF Catalog
<1>4. CandidatesOf(batches) = chosen.candidates
  BY DEF CandidatesOf
<1> HIDE DEF chosen
<1> QED BY <1>2, <1>3, <1>4

\* The rules of a pack score at least four.
LEMMA RulesScore ==
  ASSUME NEW pack \in Packs, NEW rule \in RulesOf(pack)
  PROVE  rule.score >= 4 * Millionths
<1>1. CandidatesOf(pack.compilation) = Candidates(EventsOf(pack.compilation))
  BY CandidatesOfCorpus DEF Packs
<1>2. rule \in Candidates(EventsOf(pack.compilation)) /\ rule.state = "promotion_eligible"
  BY <1>1 DEF RulesOf, Eligible
<1>3. rule.state = CandidateState(rule.score)
  BY <1>2 DEF Candidates
<1> QED BY <1>2, <1>3, EligibleState

-----------------------------------------------------------------------------
(***************************************************************************)
(* Scores: what a score of four says of the corpus it was computed from.   *)
(***************************************************************************)

\* Rounding adds half of one at most.
LEMMA RoundedBounds ==
  ASSUME NEW n \in Nat, NEW d \in Nat, d > 0
  PROVE  /\ Rounded(n, d) \in Nat
         /\ 2 * (d * Rounded(n, d)) <= 2 * n + d
<1> DEFINE a == 2 * n + d
           b == 2 * d
           q == a \div b
<1>1. a \in Nat /\ b \in Nat /\ b > 0
  OBVIOUS
<1>2. Rounded(n, d) = q
  BY DEF Rounded
<1>3. q \in Int /\ q * b <= a /\ a < (q + 1) * b
  <2> HIDE DEF a, b
  <2> QED BY <1>1
<1>4. q \in Nat
  <2> HIDE DEF a, b
  <2>1. CASE q < 0
    <3>1. q + 1 <= 0
      BY <1>3, <2>1
    <3> HIDE DEF q
    <3>2. (q + 1) * b <= 0
      BY <1>1, <1>3, <3>1
    <3> QED BY <1>1, <1>3, <3>2
  <2> QED BY <1>3, <2>1
<1>5. 2 * (d * q) = q * b
  <2> HIDE DEF q
  <2> QED BY <1>4
<1> QED BY <1>2, <1>3, <1>4, <1>5

\* A capped ratio is five at most, and less if the value is not reached.
LEMMA CappedBounds ==
  ASSUME NEW value \in Nat, NEW target \in Nat, target > 0, value # None
  PROVE  /\ CappedRatio(value, target) \in Nat
         /\ 2 * (target * CappedRatio(value, target)) <= 10 * (target * Millionths) + target
         /\ 2 * (target * CappedRatio(value, target)) <= 10 * (value * Millionths) + target
<1> DEFINE least == Min({value, target})
<1>1. least \in Nat /\ least <= value /\ least <= target
  <2>1. least \in {value, target} /\ \A y \in {value, target} : least <= y
    <3>1. \E x \in {value, target} : \A y \in {value, target} : x <= y
      <4>1. CASE value <= target
        BY <4>1
      <4>2. CASE target <= value
        BY <4>2
      <4> QED BY <4>1, <4>2
    <3> QED BY <3>1 DEF Min
  <2> QED BY <2>1
<1>2. CappedRatio(value, target) = Rounded(least * 5 * Millionths, target)
  BY DEF CappedRatio
<1> HIDE DEF least
<1>3. least * 5 * Millionths \in Nat
  BY <1>1, SMT DEF Millionths
<1>4. /\ CappedRatio(value, target) \in Nat
      /\ 2 * (target * CappedRatio(value, target)) <= 2 * (least * 5 * Millionths) + target
  BY <1>2, <1>3, RoundedBounds
<1>5. /\ 2 * (least * 5 * Millionths) <= 10 * (target * Millionths)
      /\ 2 * (least * 5 * Millionths) <= 10 * (value * Millionths)
  BY <1>1, SMT DEF Millionths
<1>6. /\ 2 * (target * CappedRatio(value, target)) \in Nat
      /\ 2 * (least * 5 * Millionths) \in Nat
      /\ 10 * (target * Millionths) \in Nat
      /\ 10 * (value * Millionths) \in Nat
  BY <1>1, <1>4, SMT DEF Millionths
<1> QED BY <1>4, <1>5, <1>6

\* A ratio of a part to its whole is five at most.
LEMMA PartRounded ==
  ASSUME NEW part \in Nat, NEW whole \in Nat, whole > 0, part <= whole
  PROVE  /\ Share(part, whole) \in Nat
         /\ Share(part, whole) <= 5 * Millionths
         /\ 2 * (whole * Share(part, whole)) <= 10 * (part * Millionths) + whole
<1> DEFINE r == Rounded(part * 5 * Millionths, whole)
<1>1. part * 5 * Millionths \in Nat
  BY SMT DEF Millionths
<1>2. r \in Nat /\ 2 * (whole * r) <= 2 * (part * 5 * Millionths) + whole
  BY <1>1, RoundedBounds
<1> HIDE DEF r
<1>3. 2 * (part * 5 * Millionths) = 10 * (part * Millionths)
  BY SMT DEF Millionths
<1>4. r <= 5 * Millionths
  <2> SUFFICES ASSUME r >= 5 * Millionths + 1
               PROVE  FALSE
    BY <1>2, SMT DEF Millionths
  <2>1. whole * r >= whole * (5 * Millionths + 1)
    BY <1>2, SMT DEF Millionths
  <2>2. 2 * (whole * (5 * Millionths + 1)) = 10000000 * whole + 2 * whole
    BY SMT DEF Millionths
  <2>3. 10 * (part * Millionths) <= 10000000 * whole
    BY SMT DEF Millionths
  <2>4. whole * r \in Nat
    BY <1>2
  <2>5. whole * (5 * Millionths + 1) \in Nat /\ 10 * (part * Millionths) \in Nat
    BY SMT DEF Millionths
  <2> QED BY <1>2, <1>3, <2>1, <2>2, <2>3, <2>4, <2>5, SMT
<1>6. 2 * (whole * r) <= 10 * (part * Millionths) + whole
  BY <1>2, <1>3
<1> QED BY <1>2, <1>4, <1>6 DEF r, Share

\* The least share of passed repairs, and of right findings, that rounds to what
\* a score of four needs, in fives.
LeastRepair == 3333330

LeastSafety == 3749998

\* What a ratio rounded to millionths leaves of a margin: a share that rounds to
\* at least low of five millions is a share of at least low / five millions,
\* but for the rounding.
LEMMA ShareBounds ==
  ASSUME NEW part \in Nat, NEW whole \in Nat, part <= whole, NEW ratio, ratio = Share(part, whole)
  PROVE  /\ ratio \in Nat /\ ratio <= 5 * Millionths
         /\ ratio >= LeastRepair => part > 0 /\ 3 * part + Lost(whole) >= 2 * whole
         /\ ratio >= LeastSafety =>
              part > 0 /\ part + Lost(whole) >= 3 * (whole - part)
<1>1. CASE whole = 0
  BY <1>1, SMT DEF Millionths, Share, LeastRepair, LeastSafety
<1>2. CASE whole > 0
  <2>1. ratio \in Nat /\ ratio <= 5 * Millionths
    BY <1>2, PartRounded
  <2>2. 2 * (whole * ratio) <= 10 * (part * Millionths) + whole
    BY <1>2, PartRounded
  <2>3. ratio \in Nat /\ whole * ratio \in Nat
    BY <2>1, SMT DEF Millionths
  <2>4. \A low \in Nat : ratio >= low => whole * ratio >= whole * low
    BY <2>3, SMT
  <2>5. Lost(whole) \in Nat /\ whole < 400000 * (Lost(whole) + 1)
    BY SMT DEF Lost
  <2>6. ASSUME ratio >= LeastRepair
        PROVE  part > 0 /\ 3 * part + Lost(whole) >= 2 * whole
    <3>1. 2 * (whole * 3333330) <= 10000000 * part + whole
      BY <2>2, <2>3, <2>4, <2>6, SMT DEF Millionths, LeastRepair, LeastSafety
    <3> QED BY <1>2, <2>5, <3>1, SMT
  <2>7. ASSUME ratio >= LeastSafety
        PROVE  part > 0 /\ part + Lost(whole) >= 3 * (whole - part)
    <3>1. 2 * (whole * 3749998) <= 10000000 * part + whole
      BY <2>2, <2>3, <2>4, <2>7, SMT DEF Millionths, LeastRepair, LeastSafety
    <3> QED BY <1>2, <2>5, <3>1, SMT
  <2> QED BY <2>1, <2>6, <2>7, SMT
<1> QED BY <1>1, <1>2, SMT

\* What it takes to score four: only a quarter of 4.25 may be missing.
LEMMA ScoreEarned ==
  ASSUME NEW row, row.occurrences \in Nat, row.scopes \in Nat,
         NEW evidence, evidence.passed \in Nat, evidence.validated \in Nat,
         evidence.passed <= evidence.validated, evidence.falsePositives \in Nat,
         NEW right \in Nat, evidence.classified = right + evidence.falsePositives,
         CalculateScore(row, None, evidence) >= 4 * Millionths
  PROVE  /\ row.occurrences >= 9 /\ row.scopes >= 4
         /\ evidence.passed > 0
         /\ 3 * evidence.passed + Lost(evidence.validated) >= 2 * evidence.validated
         /\ right > 0
         /\ right + Lost(evidence.classified) >= 3 * evidence.falsePositives
<1>1. PICK occurrences \in Nat, scopes \in Nat :
        occurrences = row.occurrences /\ scopes = row.scopes
  OBVIOUS
<1>2. PICK passed \in Nat, validated \in Nat, wrong \in Nat :
        /\ passed = evidence.passed /\ validated = evidence.validated
        /\ wrong = evidence.falsePositives
  <2>1. \E n \in Nat : n = evidence.passed
    OBVIOUS
  <2>2. \E n \in Nat : n = evidence.validated
    OBVIOUS
  <2>3. \E n \in Nat : n = evidence.falsePositives
    OBVIOUS
  <2> QED BY <2>1, <2>2, <2>3
<1>3. passed <= validated /\ evidence.classified = right + wrong
  BY <1>2
<1> SUFFICES /\ occurrences >= 9 /\ scopes >= 4
             /\ passed > 0 /\ 3 * passed + Lost(validated) >= 2 * validated
             /\ right > 0 /\ right + Lost(right + wrong) >= 3 * wrong
  BY <1>1, <1>2, <1>3
<1> DEFINE recurrence == CappedRatio(occurrences, 10)
           breadth == CappedRatio(scopes, 5)
           repair == Share(passed, validated)
           safety == Share(right, right + wrong)
           total == 30 * recurrence + 20 * breadth + 15 * repair + 20 * safety
<1>4. occurrences # None /\ scopes # None
  BY NothingAssumption
<1>5. /\ recurrence \in Nat
      /\ 2 * (10 * recurrence) <= 10 * (10 * Millionths) + 10
      /\ 2 * (10 * recurrence) <= 10 * (occurrences * Millionths) + 10
  BY <1>4, CappedBounds
<1>6. /\ breadth \in Nat
      /\ 2 * (5 * breadth) <= 10 * (5 * Millionths) + 5
      /\ 2 * (5 * breadth) <= 10 * (scopes * Millionths) + 5
  BY <1>4, CappedBounds
<1>7. /\ repair \in Nat /\ repair <= 5 * Millionths
      /\ repair >= LeastRepair => passed > 0 /\ 3 * passed + Lost(validated) >= 2 * validated
  BY <1>3, ShareBounds, SMT
<1>8. /\ safety \in Nat /\ safety <= 5 * Millionths
      /\ safety >= LeastSafety =>
           right > 0 /\ right + Lost(right + wrong) >= 3 * ((right + wrong) - right)
  <2>1. PICK all \in Nat : all = right + wrong
    OBVIOUS
  <2>2. right <= all
    BY <2>1
  <2>3. /\ Share(right, all) \in Nat /\ Share(right, all) <= 5 * Millionths
        /\ Share(right, all) >= LeastSafety =>
             right > 0 /\ right + Lost(all) >= 3 * (all - right)
    BY <2>2, ShareBounds, Zenon
  <2> QED BY <2>1, <2>3, SMT
<1>9. (right + wrong) - right = wrong /\ (right + wrong) - wrong = right
  OBVIOUS
<1>10. CalculateScore(row, None, evidence) = Rounded(total, 100)
  <2>1. CappedRatio(None, 120) = 0
    BY DEF CappedRatio
  <2> DEFINE sum == 30 * recurrence + 20 * breadth + 15 * 0 + 15 * repair + 20 * safety
  <2>2. CalculateScore(row, None, evidence) = Rounded(sum, 100)
    BY <1>1, <1>2, <1>3, <1>9, <2>1 DEF CalculateScore
  <2>3. sum = total
    <3> HIDE DEF recurrence, breadth, repair, safety
    <3> QED BY <1>5, <1>6, <1>7, <1>8, SMT DEF Millionths
  <2> HIDE DEF sum, total
  <2> QED BY <2>2, <2>3, SMT
<1> HIDE DEF recurrence, breadth, repair, safety
<1>11. total \in Nat
  BY <1>5, <1>6, <1>7, <1>8, SMT DEF Millionths
<1>12. total >= 399999950
  <2> HIDE DEF total
  <2> DEFINE score == Rounded(total, 100)
  <2>1. score \in Nat /\ 2 * (100 * score) <= 2 * total + 100
    <3>1. 100 \in Nat /\ 100 > 0
      OBVIOUS
    <3> QED BY <1>11, <3>1, RoundedBounds, Zenon
  <2>2. score >= 4 * Millionths
    BY <1>10, SMT
  <2> HIDE DEF score
  <2> QED BY <1>11, <2>1, <2>2, SMT DEF Millionths
<1>13. occurrences >= 9 /\ scopes >= 4 /\ repair >= LeastRepair /\ safety >= LeastSafety
  BY <1>5, <1>6, <1>7, <1>8, <1>12, SMT DEF Millionths, LeastRepair, LeastSafety
<1> QED BY <1>7, <1>8, <1>9, <1>13, SMT

\* The values of a function on a finite set are finitely many.
LEMMA FiniteValues ==
  ASSUME NEW S, IsFiniteSet(S), NEW f, DOMAIN f = S, f = [x \in S |-> f[x]]
  PROVE  IsFiniteSet({f[x] : x \in S})
<1> DEFINE T == {f[x] : x \in S}
<1>1. f \in [S -> T]
  OBVIOUS
<1>2. f \in Surjection(S, T)
  BY <1>1, Fun_IsSurj
<1> HIDE DEF T
<1>3. IsFiniteSet(T)
  BY <1>2, FS_Surjection
<1> QED BY <1>3 DEF T

\* There are finitely many rows in finitely many batches.
LEMMA FiniteObservations ==
  ASSUME NEW batches \in SUBSET Batches, IsFiniteSet(batches)
  PROVE  IsFiniteSet(Observations(EventsOf(batches)))
<1> DEFINE content == [batch \in batches |-> Contents[batch]]
           events == EventsOf(batches)
           RowsOf(event) == {[place |-> i, of |-> Rows(event)[i]] : i \in DOMAIN Rows(event)}
           rows == [event \in events |-> RowsOf(event)]
<1>1. IsFiniteSet({content[batch] : batch \in batches})
  BY FiniteValues
<1>2. \A T \in {content[batch] : batch \in batches} : IsFiniteSet(T)
  BY ContentsAssumption
<1>3. events = UNION {content[batch] : batch \in batches}
  BY DEF EventsOf
<1>4. IsFiniteSet(events)
  BY <1>1, <1>2, <1>3, FS_UNION
<1>5. IsFiniteSet({rows[event] : event \in events})
  BY <1>4, FiniteValues
<1>6. ASSUME NEW event \in events
      PROVE  IsFiniteSet(RowsOf(event))
  <2> DEFINE row == [i \in DOMAIN Rows(event) |-> [place |-> i, of |-> Rows(event)[i]]]
  <2>1. IsFiniteSet(DOMAIN Rows(event))
    BY ContentsAssumption DEF EventsOf
  <2>2. IsFiniteSet({row[i] : i \in DOMAIN Rows(event)})
    BY <2>1, FiniteValues
  <2>3. {row[i] : i \in DOMAIN Rows(event)} = RowsOf(event)
    OBVIOUS
  <2> QED BY <2>2, <2>3
<1>7. \A T \in {rows[event] : event \in events} : IsFiniteSet(T)
  BY <1>6
<1>8. Observations(events) = UNION {rows[event] : event \in events}
  BY DEF Observations
<1> HIDE DEF rows, events
<1>9. IsFiniteSet(Observations(events))
  BY <1>5, <1>7, <1>8, FS_UNION
<1> QED BY <1>9 DEF events

\* The rule a group is attributed to, as extract_candidates and as a recount
\* find it.
LEMMA Attributed ==
  ASSUME NEW group, group # {}, IsFiniteSet({o.of.rule : o \in group})
  PROVE  (IF \A o, p \in group : o.of.rule = p.of.rule
            THEN (CHOOSE o \in group : TRUE).of.rule ELSE None)
         = (IF Cardinality({o.of.rule : o \in group}) = 1
              THEN CHOOSE rule \in {o.of.rule : o \in group} : TRUE ELSE None)
<1> DEFINE found == {o.of.rule : o \in group}
           first == CHOOSE o \in group : TRUE
<1>1. first \in group
  OBVIOUS
<1> HIDE DEF first
<1>2. first.of.rule \in found
  BY <1>1
<1>3. CASE \A o, p \in group : o.of.rule = p.of.rule
  <2>1. found = {first.of.rule}
    BY <1>1, <1>3
  <2>2. Cardinality(found) = 1
    BY <2>1, FS_Singleton
  <2>3. (CHOOSE rule \in found : TRUE) = first.of.rule
    BY <2>1
  <2> QED BY <1>3, <2>2, <2>3 DEF first
<1>4. CASE \E o, p \in group : o.of.rule # p.of.rule
  <2>1. ~ \E x : found = {x}
    BY <1>4
  <2>2. Cardinality(found) # 1
    BY <2>1, FS_Singleton
  <2> QED BY <1>4, <2>2
<1> QED BY <1>3, <1>4

\* The parts of a finite set are finite, and so is what is known of its members.
LEMMA FiniteParts ==
  ASSUME NEW rows, IsFiniteSet(rows), NEW group \in SUBSET rows
  PROVE  /\ IsFiniteSet(group) /\ Cardinality(group) \in Nat
         /\ IsFiniteSet({o.of.scope : o \in group})
         /\ Cardinality({o.of.scope : o \in group}) \in Nat
         /\ IsFiniteSet({o.of.rule : o \in group})
<1>1. IsFiniteSet(group)
  BY FS_Subset
<1> DEFINE scope == [o \in group |-> o.of.scope]
           ruleOf == [o \in group |-> o.of.rule]
<1>2. IsFiniteSet({scope[o] : o \in group}) /\ {scope[o] : o \in group} = {o.of.scope : o \in group}
  BY <1>1, FiniteValues
<1>3. IsFiniteSet({ruleOf[o] : o \in group}) /\ {ruleOf[o] : o \in group} = {o.of.rule : o \in group}
  BY <1>1, FiniteValues
<1> HIDE DEF scope, ruleOf
<1> QED BY <1>1, <1>2, <1>3, FS_CardinalityType

\* A candidate that scores four is well founded: the score is computed from
\* counts of the same rows a recount finds.
LEMMA ScoreFounded ==
  ASSUME NEW events, IsFiniteSet(Observations(events)),
         NEW rule \in Candidates(events), rule.score >= 4 * Millionths
  PROVE  WellFounded(events, rule)
<1> DEFINE rows == Observations(events)
           Group(key) == {o \in rows : <<o.of.fingerprint, o.of.class>> = key}
           RulesIn(members) == {o.of.rule : o \in members}
           Row(key) ==
             [fingerprint |-> key[1], class |-> key[2],
              rule |-> IF Cardinality(RulesIn(Group(key))) = 1
                         THEN CHOOSE r \in RulesIn(Group(key)) : TRUE ELSE None,
              occurrences |-> Cardinality(Group(key)),
              scopes |-> Cardinality({o.of.scope : o \in Group(key)})]
<1>1. PICK row \in RecurrenceRows(rows) :
        /\ rule.fingerprint = row.fingerprint /\ rule.class = row.class
        /\ rule.score = CalculateScore(row, None, Effectiveness(rows, row.rule))
  BY DEF Candidates
<1>2. PICK one \in rows : row = Row(<<one.of.fingerprint, one.of.class>>)
  BY <1>1 DEF RecurrenceRows
<1> DEFINE group == {o \in rows : /\ o.of.fingerprint = rule.fingerprint
                                  /\ o.of.class = rule.class}
           evidence == IF \A o, p \in group : o.of.rule = p.of.rule
                         THEN (CHOOSE o \in group : TRUE).of.rule ELSE None
           key == <<one.of.fingerprint, one.of.class>>
<1>3. rule.fingerprint = one.of.fingerprint /\ rule.class = one.of.class
  BY <1>1, <1>2
<1>4. Group(key) = group /\ one \in group
  BY <1>3
<1>5. /\ row.occurrences = Cardinality(group)
      /\ row.scopes = Cardinality({o.of.scope : o \in group})
      /\ row.rule = IF Cardinality(RulesIn(group)) = 1
                      THEN CHOOSE r \in RulesIn(group) : TRUE ELSE None
  BY <1>2, <1>4
<1> DEFINE members == {o \in rows : o.of.rule = evidence}
           passed == Cardinality({o \in members : o.of.outcome \in {"passed"}})
           validated ==
             Cardinality({o \in members : o.of.outcome \in {"passed", "failed", "partial"}})
           Found(values) == {o \in members : o.of.disposition \in values}
           wrong == Cardinality(Found({"confirmed_false_positive"}))
           right == Cardinality(Found({"confirmed_true_positive"}))
           classified ==
             Cardinality(Found({"confirmed_false_positive", "confirmed_true_positive"}))
<1>6. row.rule = evidence
  <2>1. group \subseteq rows
    OBVIOUS
  <2>2. IsFiniteSet(RulesIn(group))
    BY <2>1, FiniteParts
  <2>3. group # {}
    BY <1>4
  <2> HIDE DEF group
  <2>4. evidence = IF Cardinality(RulesIn(group)) = 1
                     THEN CHOOSE r \in RulesIn(group) : TRUE ELSE None
    BY <2>2, <2>3, Attributed
  <2> HIDE DEF evidence, RulesIn
  <2> QED BY <1>5, <2>4
<1>7. /\ Effectiveness(rows, row.rule).passed = passed
      /\ Effectiveness(rows, row.rule).validated = validated
      /\ Effectiveness(rows, row.rule).falsePositives = wrong
      /\ Effectiveness(rows, row.rule).classified = classified
  BY <1>6 DEF Effectiveness
<1>8. /\ Cardinality(group) \in Nat
      /\ Cardinality({o.of.scope : o \in group}) \in Nat
  <2>1. group \subseteq rows
    OBVIOUS
  <2> HIDE DEF group
  <2> QED BY <2>1, FiniteParts
<1>9. passed \in Nat /\ validated \in Nat /\ passed <= validated
  <2> DEFINE P == {o \in members : o.of.outcome \in {"passed"}}
             V == {o \in members : o.of.outcome \in {"passed", "failed", "partial"}}
  <2>1. P \subseteq rows /\ V \subseteq rows /\ P \subseteq V
    OBVIOUS
  <2> HIDE DEF P, V
  <2>2. IsFiniteSet(V) /\ Cardinality(V) \in Nat /\ Cardinality(P) \in Nat
    BY <2>1, FiniteParts
  <2>3. Cardinality(P) <= Cardinality(V)
    BY <2>1, <2>2, FS_Subset
  <2> QED BY <2>2, <2>3 DEF P, V
<1>10. wrong \in Nat /\ right \in Nat /\ classified = right + wrong
  <2> DEFINE W == Found({"confirmed_false_positive"})
             R == Found({"confirmed_true_positive"})
             C == Found({"confirmed_false_positive", "confirmed_true_positive"})
  <2>1. /\ W \subseteq rows /\ R \subseteq rows
        /\ C = R \cup W /\ R \cap W = {}
    OBVIOUS
  <2> HIDE DEF W, R, C
  <2>2. /\ IsFiniteSet(W) /\ IsFiniteSet(R)
        /\ Cardinality(W) \in Nat /\ Cardinality(R) \in Nat
    BY <2>1, FiniteParts
  <2>3. Cardinality(R \cup W) = Cardinality(R) + Cardinality(W) - Cardinality(R \cap W)
    BY <2>2, FS_Union
  <2>4. Cardinality(R \cap W) = 0
    BY <2>1, FS_EmptySet
  <2>5. Cardinality(C) = Cardinality(R) + Cardinality(W)
    BY <2>1, <2>2, <2>3, <2>4
  <2> QED BY <2>2, <2>5 DEF W, R, C
<1>11. /\ passed = Cardinality({o \in rows : o.of.rule = evidence /\ o.of.outcome \in {"passed"}})
       /\ validated = Cardinality({o \in rows : /\ o.of.rule = evidence
                                              /\ o.of.outcome \in {"passed", "failed", "partial"}})
       /\ wrong = Cardinality({o \in rows : /\ o.of.rule = evidence
                                          /\ o.of.disposition = "confirmed_false_positive"})
       /\ right = Cardinality({o \in rows : /\ o.of.rule = evidence
                                          /\ o.of.disposition = "confirmed_true_positive"})
  <2>1. /\ {o \in members : o.of.outcome \in {"passed"}}
           = {o \in rows : o.of.rule = evidence /\ o.of.outcome \in {"passed"}}
        /\ {o \in members : o.of.outcome \in {"passed", "failed", "partial"}}
           = {o \in rows : /\ o.of.rule = evidence
                           /\ o.of.outcome \in {"passed", "failed", "partial"}}
        /\ Found({"confirmed_false_positive"})
           = {o \in rows : o.of.rule = evidence /\ o.of.disposition = "confirmed_false_positive"}
        /\ Found({"confirmed_true_positive"})
           = {o \in rows : o.of.rule = evidence /\ o.of.disposition = "confirmed_true_positive"}
    <3> HIDE DEF evidence
    <3> QED OBVIOUS
  <2> HIDE DEF members, Found
  <2> QED BY <2>1
<1> HIDE DEF passed, validated, wrong, right, classified
<1>12. /\ Cardinality(group) >= 9 /\ Cardinality({o.of.scope : o \in group}) >= 4
       /\ passed > 0 /\ 3 * passed + Lost(validated) >= 2 * validated
       /\ right > 0 /\ right + Lost(right + wrong) >= 3 * wrong
  <2> DEFINE known == Effectiveness(rows, row.rule)
  <2>1. CalculateScore(row, None, known) >= 4 * Millionths
    BY <1>1
  <2> HIDE DEF known, group, rows
  <2>2. /\ row.occurrences \in Nat /\ row.scopes \in Nat
        /\ known.passed \in Nat /\ known.validated \in Nat
        /\ known.passed <= known.validated /\ known.falsePositives \in Nat
        /\ known.classified = right + known.falsePositives
    BY <1>5, <1>7, <1>8, <1>9, <1>10 DEF known
  <2>3. /\ row.occurrences >= 9 /\ row.scopes >= 4
        /\ known.passed > 0
        /\ 3 * known.passed + Lost(known.validated) >= 2 * known.validated
        /\ right > 0
        /\ right + Lost(known.classified) >= 3 * known.falsePositives
    BY <1>10, <2>1, <2>2, ScoreEarned
  <2> QED BY <1>5, <1>7, <1>10, <2>3 DEF known
<1> HIDE DEF group, evidence, members
<1> QED BY <1>11, <1>12 DEF WellFounded, rows, group, evidence

-----------------------------------------------------------------------------
(***************************************************************************)
(* Keys.                                                                   *)
(***************************************************************************)

\* A key generation that is under way is the last one.
LEMMA GeneratingLast ==
  ASSUME KeysInv, NEW n \in Generating
  PROVE  /\ n \in DOMAIN keygens
         /\ n = Len(keygens)
         /\ keygens[n].step \in {"public", "private"}
BY DEF KeysInv, KeysAt, Generating

\* The generations as a sequence: their numbers are natural, so no content of
\* a file but a key is one.
LEMMA KeygensTyped ==
  ASSUME KeysInv
  PROVE  /\ Len(keygens) \in Nat
         /\ DOMAIN keygens = 1 .. Len(keygens)
         /\ \A n \in DOMAIN keygens : keygens[n] \in [step : KeygenSteps, stuck : SUBSET Halves]
         /\ \A n \in DOMAIN keygens : n \in Nat /\ n # None /\ n # Damaged
<1>1. /\ Len(keygens) \in Nat
      /\ DOMAIN keygens = 1 .. Len(keygens)
      /\ \A n \in 1 .. Len(keygens) : keygens[n] \in [step : KeygenSteps, stuck : SUBSET Halves]
  BY LenProperties, ElementOfSeq DEF KeysInv
<1>2. \A n \in 1 .. Len(keygens) : n \in Nat
  BY <1>1
<1> QED BY <1>1, <1>2, NothingAssumption

\* What a step of the n-th generation does to the others: nothing, for
\* it writes no key but its own.
LEMMA KeygenStep ==
  ASSUME KeysInv, NEW n \in Generating, NEW step \in KeygenSteps, NEW stuck \in SUBSET Halves,
         Keygen(n, step, stuck),
         keyFiles' \in [Halves -> {None, Damaged, n} \cup DOMAIN keygens],
         \A half \in Halves : keyFiles'[half] \in {None, Damaged, n, keyFiles[half]},
         KeysAt(n)'
  PROVE  KeysInv'
<1>1. /\ n \in DOMAIN keygens /\ n = Len(keygens)
      /\ Len(keygens) \in Nat /\ DOMAIN keygens = 1 .. Len(keygens)
      /\ \A k \in DOMAIN keygens : k # None /\ k # Damaged
  BY GeneratingLast, KeygensTyped
<1> DEFINE S == [step : KeygenSteps, stuck : SUBSET Halves]
           new == [step |-> step, stuck |-> stuck]
<1>2. new \in S
  OBVIOUS
<1>3. /\ keygens' \in Seq(S)
      /\ Len(keygens') = Len(keygens)
      /\ \A k \in 1 .. Len(keygens) : keygens'[k] = IF k = n THEN new ELSE keygens[k]
  BY <1>1, <1>2, ExceptSeq DEF KeysInv, Keygen
<1>4. DOMAIN keygens' = DOMAIN keygens
  BY <1>1 DEF Keygen
<1>5. keyFiles' \in [Halves -> {None, Damaged} \cup DOMAIN keygens']
  BY <1>1, <1>4
<1>6. ASSUME NEW k \in DOMAIN keygens, k # n
      PROVE  KeysAt(k)'
  <2>1. keygens'[k] = keygens[k]
    BY <1>1, <1>3, <1>6
  <2>2. KeysAt(k) /\ k # Len(keygens)
    BY <1>1, <1>6 DEF KeysInv
  <2>3. \A half \in Halves : keyFiles[half] # k => keyFiles'[half] # k
    BY <1>1, <1>6
  <2> QED BY <1>3, <2>1, <2>2, <2>3 DEF KeysAt
<1> QED BY <1>3, <1>4, <1>5, <1>6 DEF KeysInv

\* Steps of publication keep what is known of keys.
LEMMA KeysKept ==
  ASSUME KeysInv, PackNext
  PROVE  KeysInv'
<1>1. CASE StartKeygen
  <2> DEFINE S == [step : KeygenSteps, stuck : SUBSET Halves]
             new == [step |-> "public", stuck |-> {}]
  <2>1. Generating = {} /\ keygens' = Append(keygens, new) /\ keyFiles' = keyFiles
    BY <1>1 DEF StartKeygen
  <2>2. new \in S
    BY DEF KeygenSteps
  <2>3. /\ Len(keygens) \in Nat /\ DOMAIN keygens = 1 .. Len(keygens)
        /\ \A k \in DOMAIN keygens : k \in Nat /\ k # None /\ k # Damaged
    BY KeygensTyped
  <2>4. PICK n \in Nat : n = Len(keygens) + 1
    BY <2>3
  <2>5. /\ keygens' \in Seq(S)
        /\ Len(keygens') = n
        /\ \A k \in DOMAIN keygens : keygens'[k] = keygens[k]
        /\ keygens'[n] = new
    BY <2>1, <2>2, <2>3, <2>4, AppendProperties DEF KeysInv
  <2>6. DOMAIN keygens' = DOMAIN keygens \cup {n}
    <3>1. DOMAIN keygens' = 1 .. Len(keygens')
      BY <2>5, LenProperties
    <3> QED BY <3>1, <2>3, <2>4, <2>5
  <2>7. keyFiles' \in [Halves -> {None, Damaged} \cup DOMAIN keygens']
    BY <2>1, <2>6 DEF KeysInv
  <2>8. ASSUME NEW k \in DOMAIN keygens
        PROVE  KeysAt(k)'
    <3>1. KeysAt(k) /\ keygens[k].step \notin {"public", "private"}
      BY <2>1 DEF KeysInv, Generating
    <3>2. keygens'[k] = keygens[k] /\ k # Len(keygens')
      BY <2>3, <2>4, <2>5
    <3> QED BY <2>1, <3>1, <3>2 DEF KeysAt
  <2>9. KeysAt(n)'
    <3>1. n \notin DOMAIN keygens /\ n # None /\ n # Damaged
      BY <2>3, <2>4, NothingAssumption
    <3>2. \A half \in Halves : keyFiles[half] # n
      BY <3>1 DEF KeysInv
    <3> QED BY <2>1, <2>5, <3>2 DEF KeysAt
  <2> QED BY <2>5, <2>6, <2>7, <2>8, <2>9 DEF KeysInv
<1>2. ASSUME NEW n \in DOMAIN keygens, WritePublicKey(n)
      PROVE  KeysInv'
  <2>1. /\ n \in Generating /\ keygens[n].step = "public"
        /\ keyFiles' = [keyFiles EXCEPT !["public"] = n]
        /\ Keygen(n, "private", {})
    BY <1>2 DEF WritePublicKey
  <2>2. KeysAt(n)'
    <3>1. keygens'[n] = [step |-> "private", stuck |-> {}] /\ Len(keygens') = n
      BY <2>1, GeneratingLast, KeygensTyped, ExceptSeq DEF Keygen, KeysInv
    <3>2. keyFiles["private"] # n
      BY <2>1 DEF KeysInv, KeysAt, Halves
    <3>3. keyFiles'["public"] = n /\ keyFiles'["private"] # n
      BY <2>1, <3>2 DEF KeysInv, Halves
    <3> QED BY <3>1, <3>3 DEF KeysAt
  <2> QED BY <2>1, <2>2, KeygenStep DEF KeygenSteps, KeysInv, Halves
<1>3. ASSUME NEW n \in DOMAIN keygens, FailPublicKey(n)
      PROVE  KeysInv'
  <2>1. PICK left \in {keyFiles["public"], Damaged, n} :
          /\ n \in Generating /\ keygens[n].step = "public"
          /\ keyFiles' = [keyFiles EXCEPT !["public"] = left]
          /\ Keygen(n, "raised", {"public"})
    BY <1>3 DEF FailPublicKey
  <2>2. KeysAt(n)'
    <3>1. keygens'[n] = [step |-> "raised", stuck |-> {"public"}]
      BY <2>1, GeneratingLast, KeygensTyped, ExceptSeq DEF Keygen, KeysInv
    <3>2. keyFiles["private"] # n
      BY <2>1 DEF KeysInv, KeysAt, Halves
    <3>3. \A half \in Halves \ {"public"} : keyFiles'[half] # n
      BY <2>1, <3>2, KeygensTyped DEF KeysInv, Halves
    <3> QED BY <3>1, <3>3 DEF KeysAt
  <2> QED BY <2>1, <2>2, KeygenStep DEF KeygenSteps, KeysInv, Halves
<1>4. ASSUME NEW n \in DOMAIN keygens, WritePrivateKey(n)
      PROVE  KeysInv'
  <2>1. /\ n \in Generating /\ keygens[n].step = "private"
        /\ keyFiles' = [keyFiles EXCEPT !["private"] = n]
        /\ Keygen(n, "written", {})
    BY <1>4 DEF WritePrivateKey
  <2>2. KeysAt(n)'
    <3>1. keygens'[n] = [step |-> "written", stuck |-> {}]
      BY <2>1, GeneratingLast, KeygensTyped, ExceptSeq DEF Keygen, KeysInv
    <3>2. keyFiles["public"] = n
      BY <2>1 DEF KeysInv, KeysAt
    <3>3. \A half \in Halves : keyFiles'[half] = n
      BY <2>1, <3>2 DEF KeysInv, Halves
    <3> QED BY <3>1, <3>3 DEF KeysAt
  <2> QED BY <2>1, <2>2, KeygenStep DEF KeygenSteps, KeysInv, Halves
<1>5. ASSUME NEW n \in DOMAIN keygens, FailPrivateKey(n)
      PROVE  KeysInv'
  <2>1. PICK stuck \in SUBSET Halves, left \in {keyFiles["private"], Damaged, n} :
          /\ n \in Generating /\ keygens[n].step = "private"
          /\ keyFiles' = Discard(stuck, left, keyFiles["public"])
          /\ Keygen(n, "raised", stuck)
    BY <1>5 DEF FailPrivateKey
  <2>2. KeysAt(n)'
    <3>1. keygens'[n] = [step |-> "raised", stuck |-> stuck]
      BY <2>1, GeneratingLast, KeygensTyped, ExceptSeq DEF Keygen, KeysInv
    <3>2. \A half \in Halves \ stuck : keyFiles'[half] # n
      BY <2>1, KeygensTyped DEF Discard
    <3> QED BY <3>1, <3>2 DEF KeysAt
  <2>3. /\ keyFiles' \in [Halves -> {None, Damaged, n} \cup DOMAIN keygens]
        /\ \A half \in Halves : keyFiles'[half] \in {None, Damaged, n, keyFiles[half]}
    BY <2>1 DEF Discard, KeysInv, Halves
  <2> QED BY <2>1, <2>2, <2>3, KeygenStep DEF KeygenSteps
<1>6. ASSUME NEW n \in DOMAIN keygens, CrashKeygen(n)
      PROVE  KeysInv'
  <2>1. PICK left \in {keyFiles[keygens[n].step], Damaged, n} :
          /\ n \in Generating
          /\ keyFiles' = [keyFiles EXCEPT ![keygens[n].step] = left]
          /\ Keygen(n, "crashed", {})
    BY <1>6 DEF CrashKeygen
  <2>2. KeysAt(n)'
    <3>1. keygens'[n] = [step |-> "crashed", stuck |-> {}]
      BY <2>1, GeneratingLast, KeygensTyped, ExceptSeq DEF Keygen, KeysInv
    <3> QED BY <3>1 DEF KeysAt
  <2>3. keygens[n].step \in Halves
    BY <2>1, GeneratingLast DEF Halves
  <2> QED BY <2>1, <2>2, <2>3, KeygenStep DEF KeygenSteps, KeysInv
<1>7. CASE UNCHANGED <<keyFiles, keygens>>
  BY <1>7 DEF KeysInv, KeysAt
<1> QED
  BY <1>1, <1>2, <1>3, <1>4, <1>5, <1>6, <1>7
  DEF PackNext, Admit, Compile, Assemble, Sign, ReadIndex, ReplaceIndex,
      CrashUpdate, Retire

-----------------------------------------------------------------------------
(***************************************************************************)
(* Manifests.                                                              *)
(***************************************************************************)

\* Steps of publication keep what is known of manifests, and remove none.
LEMMA ManifestsKept ==
  ASSUME PackInv, PackNext
  PROVE  ManifestsInv' /\ manifests \subseteq manifests'
<1>1. packs \subseteq packs'
  BY PacksKept DEF PackInv
<1>2. ASSUME NEW pack \in packs, NEW channel \in Channels,
             NEW previous \in manifests \cup {None},
             Sign(pack, channel, previous)
      PROVE  ManifestsInv' /\ manifests \subseteq manifests'
  <2> DEFINE rollback == IF previous = None THEN None ELSE previous.pack
             new == [pack |-> pack, channel |-> channel, signer |-> keyFiles["private"],
                     rollback |-> rollback]
  <2>1. /\ manifests' = manifests \cup {new}
        /\ keyFiles["private"] \in DOMAIN keygens
        /\ channel \in {"shadow", "stable"} => previous # None
    BY <1>2 DEF Sign
  <2>2. previous # None =>
          /\ previous \in manifests
          /\ previous.pack \in Packs
          /\ rollback = previous.pack /\ rollback # None
    BY NothingAssumption DEF PackInv, ManifestsInv, Manifests
  <2>3. new \in Manifests
    <3>1. pack \in Packs
      BY DEF PackInv, PacksTyped
    <3>2. keyFiles["private"] \in Nat
      BY <2>1, KeygensTyped DEF PackInv
    <3>3. rollback \in Packs \cup {None}
      BY <2>2
    <3> HIDE DEF rollback
    <3> QED BY <3>1, <3>2, <3>3 DEF Manifests
  <2>4. /\ new.pack \in packs
        /\ new.channel \in {"shadow", "stable"} => new.rollback # None
        /\ new.rollback # None => \E n \in manifests : n.pack = new.rollback
    BY <2>1, <2>2
  <2> HIDE DEF new
  <2> QED BY <1>1, <2>1, <2>3, <2>4 DEF PackInv, ManifestsInv
<1>3. CASE UNCHANGED manifests
  BY <1>1, <1>3 DEF PackInv, ManifestsInv
<1> QED
  BY <1>2, <1>3
  DEF PackNext, Admit, Compile, Assemble, StartKeygen, WritePublicKey, FailPublicKey,
      WritePrivateKey, FailPrivateKey, CrashKeygen, KeysOnly, ReadIndex,
      ReplaceIndex, CrashUpdate, Retire

-----------------------------------------------------------------------------
(***************************************************************************)
(* Channels.                                                               *)
(***************************************************************************)

\* What update_channel writes is an index.
LEMMA IndexAfterTyped ==
  ASSUME NEW index \in Indexes \cup {None}, NEW manifest \in Manifests
  PROVE  IndexAfter(index, manifest) \in Indexes /\ IndexAfter(index, manifest) # None
<1>1. CASE index = None
  BY <1>1, NothingAssumption DEF IndexAfter, Indexes
<1>2. CASE index # None
  BY <1>2, NothingAssumption DEF IndexAfter, Indexes
<1> QED BY <1>1, <1>2

\* An index made of one that told what became of the channel tells it too.
LEMMA IndexAfterTells ==
  ASSUME NEW index \in Indexes \cup {None}, NEW done \in Seq(Manifests), NEW manifest \in Manifests,
         Tells(index, done)
  PROVE  Tells(IndexAfter(index, manifest), Append(done, manifest))
<1> DEFINE after == IndexAfter(index, manifest)
           more == Append(done, manifest)
<1>1. /\ Len(done) \in Nat /\ DOMAIN done = 1 .. Len(done)
      /\ more \in Seq(Manifests)
      /\ Len(more) = Len(done) + 1
      /\ \A k \in 1 .. Len(done) : more[k] = done[k]
      /\ more[Len(done) + 1] = manifest
  BY LenProperties, AppendProperties
<1>2. DOMAIN more = 1 .. Len(done) + 1
  BY <1>1, LenProperties
<1>3. Last(more) = manifest /\ more # <<>>
  BY <1>1, <1>2, EmptySeq DEF Last
<1>4. ToSet(more) = ToSet(done) \cup {manifest}
  <2>1. \A x : x \in ToSet(more) <=> \E k \in DOMAIN more : more[k] = x
    BY DEF ToSet
  <2>2. \A x : x \in ToSet(done) <=> \E k \in DOMAIN done : done[k] = x
    BY DEF ToSet
  <2>3. DOMAIN more = DOMAIN done \cup {Len(done) + 1}
    BY <1>1, <1>2
  <2> QED BY <1>1, <2>1, <2>2, <2>3
<1>5. after \in Indexes /\ after # None
  BY IndexAfterTyped
<1> SUFFICES Tells(after, more)
  OBVIOUS
<1> HIDE DEF more
<1>6. CASE index = None
  <2>1. done = <<>> /\ Len(done) = 0 /\ ToSet(done) = {}
    BY <1>6, EmptySeq DEF Tells, ToSet
  <2>2. after = [active |-> manifest, previous |-> None, history |-> {manifest}]
    BY <1>6 DEF IndexAfter
  <2> QED BY <1>1, <1>3, <1>4, <2>1, <1>5, <2>2 DEF Tells
<1>7. CASE index # None
  <2> DEFINE kept == {m \in index.history : m.pack # manifest.pack}
  <2>1. /\ done # <<>> /\ index.active = Last(done)
        /\ {m.pack : m \in index.history} = {m.pack : m \in ToSet(done)}
    BY <1>7 DEF Tells
  <2>2. after = [active |-> manifest, previous |-> index.active,
                 history |-> kept \cup {manifest}]
    BY <1>7 DEF IndexAfter
  <2>3. Len(done) > 0 /\ Len(more) # 1 /\ more[Len(more) - 1] = index.active
    <3>1. Len(done) \in Nat \ {0}
      BY <2>1, EmptySeq
    <3>2. index.active = done[Len(done)]
      BY <2>1 DEF Last
    <3> QED BY <1>1, <3>1, <3>2
  <2>4. {m.pack : m \in kept \cup {manifest}} = {m.pack : m \in ToSet(more)}
    <3>1. {m.pack : m \in ToSet(more)} = {m.pack : m \in ToSet(done)} \cup {manifest.pack}
      BY <1>4
    <3>2. {m.pack : m \in kept \cup {manifest}}
          = {m.pack : m \in index.history} \cup {manifest.pack}
      OBVIOUS
    <3> QED BY <2>1, <3>1, <3>2
  <2>5. /\ after.active = manifest /\ after.previous = index.active
        /\ after.history = kept \cup {manifest}
    BY <2>2
  <2> HIDE DEF after, kept
  <2> QED BY <1>3, <1>5, <2>3, <2>4, <2>5 DEF Tells
<1> QED BY <1>6, <1>7

\* Nothing that was signed is taken back, so indexes stay sound.
LEMMA IndexStaysSound ==
  ASSUME NEW signed, NEW more, signed \subseteq more, NEW channel, NEW index,
         IndexSound(channel, index, signed)
  PROVE  IndexSound(channel, index, more)
BY DEF IndexSound

\* A sequence of packs stays one.
LEMMA RetiredTyped ==
  ASSUME retired \in Seq(packs), packs \subseteq packs'
  PROVE  retired \in Seq(packs')
BY SeqMonotonic

\* Where neither an index nor an update changes, nothing of the channels does.
LEMMA ChannelsUntouched ==
  ASSUME PackInv, packs \subseteq packs', manifests \subseteq manifests',
         UNCHANGED <<indexes, updates, activations, overlapped>>,
         retired' \in Seq(packs')
  PROVE  ChannelsInv'
<1>1. \A channel, index :
         IndexSound(channel, index, manifests) => IndexSound(channel, index, manifests')
  BY IndexStaysSound
<1> QED BY <1>1 DEF PackInv, ChannelsInv, ReadsCurrent, Busy

\* An update reads the index: the only one of its channel, or the channel is
\* marked.
LEMMA ReadKeeps ==
  ASSUME PackInv, packs \subseteq packs', manifests \subseteq manifests',
         NEW o \in Operators, NEW manifest \in manifests, ReadIndex(o, manifest)
  PROVE  ChannelsInv'
<1> DEFINE channel == manifest.channel
           new == [manifest |-> manifest, read |-> indexes[channel]]
<1>1. /\ updates[o] = None
      /\ updates' = [updates EXCEPT ![o] = new]
      /\ overlapped' = IF Busy(channel) = {} THEN overlapped ELSE overlapped \cup {channel}
      /\ UNCHANGED <<indexes, activations, retired>>
  BY DEF ReadIndex
<1>2. channel \in Channels
  BY DEF PackInv, ManifestsInv, Manifests
<1>3. /\ DOMAIN updates' = Operators
      /\ updates'[o] = new
      /\ \A p \in Operators \ {o} : updates'[p] = updates[p]
  BY <1>1 DEF PackInv, ChannelsInv
<1>4. \A c, index :
         IndexSound(c, index, manifests) => IndexSound(c, index, manifests')
  BY IndexStaysSound
<1>5. ASSUME NEW p \in Operators, updates'[p] # None
      PROVE  /\ updates'[p].manifest \in manifests'
             /\ IndexSound(updates'[p].manifest.channel, updates'[p].read, manifests')
  <2>1. CASE p = o
    <3>1. IndexSound(channel, indexes[channel], manifests)
      BY <1>2 DEF PackInv, ChannelsInv
    <3> QED BY <1>1, <1>3, <1>4, <2>1, <3>1
  <2>2. CASE p # o
    BY <1>3, <1>4, <1>5, <2>2 DEF PackInv, ChannelsInv
  <2> QED BY <2>1, <2>2
<1>6. ASSUME NEW c \in Channels \ overlapped'
      PROVE  ReadsCurrent(c)'
  <2>1. c \in Channels \ overlapped /\ ReadsCurrent(c)
    BY <1>1, <1>6 DEF PackInv, ChannelsInv
  <2>2. CASE c = channel
    <3>1. Busy(c) = {}
      BY <1>1, <1>6, <2>2
    <3>2. Busy(c)' \subseteq {o}
      BY <1>3, <3>1 DEF Busy
    <3> QED BY <1>1, <1>3, <2>2, <3>2 DEF ReadsCurrent
  <2>3. CASE c # channel
    <3>1. Busy(c)' = Busy(c) /\ o \notin Busy(c)
      BY <1>1, <1>3, <2>3 DEF Busy
    <3>2. \A p \in Busy(c) : updates'[p] = updates[p]
      BY <1>3, <3>1 DEF Busy
    <3> QED BY <1>1, <2>1, <3>1, <3>2 DEF ReadsCurrent
  <2> QED BY <2>2, <2>3
<1>7. \A c \in Channels \ overlapped' : c \in Channels \ overlapped
  BY <1>1
<1> HIDE DEF new, channel
<1> QED BY <1>1, <1>3, <1>4, <1>5, <1>6, <1>7, RetiredTyped DEF PackInv, ChannelsInv

\* An update replaces the index: by one made of the index that is there, unless
\* the channel is marked.
LEMMA ReplaceKeeps ==
  ASSUME PackInv, packs \subseteq packs', manifests \subseteq manifests',
         NEW o \in Operators, ReplaceIndex(o)
  PROVE  ChannelsInv'
<1> DEFINE manifest == updates[o].manifest
           channel == manifest.channel
           read == updates[o].read
           after == IndexAfter(read, manifest)
<1>1. /\ updates[o] # None
      /\ indexes' = [indexes EXCEPT ![channel] = after]
      /\ updates' = [updates EXCEPT ![o] = None]
      /\ activations' = [activations EXCEPT ![channel] = Append(@, manifest)]
      /\ UNCHANGED <<overlapped, retired>>
  BY DEF ReplaceIndex
<1>2. /\ manifest \in manifests /\ manifest \in Manifests
      /\ channel \in Channels
      /\ IndexSound(channel, read, manifests)
      /\ read \in Indexes \cup {None}
      /\ o \in Busy(channel)
  BY <1>1 DEF PackInv, ChannelsInv, ManifestsInv, Manifests, IndexSound, Busy
<1>3. after \in Indexes /\ after # None
  BY <1>2, IndexAfterTyped
<1>4. IndexSound(channel, after, manifests)
  <2>1. after.active = manifest /\ after.history \subseteq manifests
    BY <1>2 DEF IndexAfter, IndexSound
  <2> QED BY <1>2, <1>3, <2>1 DEF IndexSound
<1>5. /\ activations[channel] \in Seq(Manifests)
      /\ Append(activations[channel], manifest) \in Seq(Manifests)
  BY <1>2, AppendProperties DEF PackInv, ChannelsInv
<1>6. /\ DOMAIN updates' = Operators
      /\ updates'[o] = None
      /\ \A p \in Operators \ {o} : updates'[p] = updates[p]
  BY <1>1 DEF PackInv, ChannelsInv
<1>7. /\ indexes' \in [Channels -> Indexes \cup {None}]
      /\ activations' \in [Channels -> Seq(Manifests)]
      /\ indexes'[channel] = after
      /\ activations'[channel] = Append(activations[channel], manifest)
      /\ \A c \in Channels \ {channel} :
           indexes'[c] = indexes[c] /\ activations'[c] = activations[c]
  BY <1>1, <1>2, <1>3, <1>5 DEF PackInv, ChannelsInv
<1> HIDE DEF after
<1>8. \A c, index :
         IndexSound(c, index, manifests) => IndexSound(c, index, manifests')
  BY IndexStaysSound
<1>9. ASSUME NEW c \in Channels \ overlapped
      PROVE  Tells(indexes'[c], activations'[c]) /\ ReadsCurrent(c)'
  <2>1. Tells(indexes[c], activations[c]) /\ ReadsCurrent(c)
    BY DEF PackInv, ChannelsInv
  <2>2. Busy(c)' = Busy(c) \ {o}
    BY <1>6 DEF Busy
  <2>3. CASE c = channel
    <3>1. read = indexes[c]
      BY <1>2, <2>1, <2>3 DEF ReadsCurrent
    <3>2. Tells(indexes'[c], activations'[c])
      <4>1. Tells(IndexAfter(read, manifest), Append(activations[c], manifest))
        BY <1>2, <1>5, <2>1, <2>3, <3>1, IndexAfterTells
      <4> QED BY <1>7, <2>3, <4>1 DEF after
    <3>3. Busy(c)' = {}
      BY <1>2, <2>1, <2>2, <2>3 DEF ReadsCurrent
    <3> QED BY <3>2, <3>3 DEF ReadsCurrent
  <2>4. CASE c # channel
    <3>1. \A p \in Busy(c)' : updates'[p] = updates[p] /\ p \in Busy(c)
      BY <1>6, <2>2 DEF Busy
    <3> QED BY <1>7, <2>1, <2>4, <3>1 DEF ReadsCurrent
  <2> QED BY <2>3, <2>4
<1>10. \A p \in Operators :
         updates'[p] # None =>
           /\ updates'[p].manifest \in manifests'
           /\ IndexSound(updates'[p].manifest.channel, updates'[p].read, manifests')
  BY <1>6, <1>8 DEF PackInv, ChannelsInv
<1>11. \A c \in Channels : IndexSound(c, indexes'[c], manifests')
  BY <1>4, <1>7, <1>8 DEF PackInv, ChannelsInv
<1>12. retired' \in Seq(packs')
  BY <1>1, RetiredTyped DEF PackInv, ChannelsInv
<1> QED BY <1>1, <1>6, <1>7, <1>9, <1>10, <1>11, <1>12 DEF ChannelsInv

\* An update that ends before the replacement leaves the others as they are.
LEMMA CrashKeeps ==
  ASSUME PackInv, packs \subseteq packs', manifests \subseteq manifests',
         NEW o \in Operators, CrashUpdate(o)
  PROVE  ChannelsInv'
<1>1. /\ updates' = [updates EXCEPT ![o] = None]
      /\ UNCHANGED <<indexes, activations, overlapped, retired>>
  BY DEF CrashUpdate
<1>2. /\ DOMAIN updates' = Operators
      /\ updates'[o] = None
      /\ \A p \in Operators \ {o} : updates'[p] = updates[p]
  BY <1>1 DEF PackInv, ChannelsInv
<1>3. \A c, index :
         IndexSound(c, index, manifests) => IndexSound(c, index, manifests')
  BY IndexStaysSound
<1>4. ASSUME NEW c \in Channels \ overlapped
      PROVE  ReadsCurrent(c)'
  <2>1. \A p \in Busy(c)' : updates'[p] = updates[p] /\ p \in Busy(c)
    BY <1>2 DEF Busy
  <2> QED BY <1>1, <2>1 DEF PackInv, ChannelsInv, ReadsCurrent
<1>5. retired' \in Seq(packs')
  BY <1>1, RetiredTyped DEF PackInv, ChannelsInv
<1> QED BY <1>1, <1>2, <1>3, <1>4, <1>5 DEF PackInv, ChannelsInv

\* Steps of publication keep what is known of channels.
LEMMA ChannelsKept ==
  ASSUME PackInv, PackNext
  PROVE  ChannelsInv'
<1>1. packs \subseteq packs' /\ manifests \subseteq manifests'
  BY PacksKept, ManifestsKept DEF PackInv
<1>2. ASSUME NEW o \in Operators, NEW manifest \in manifests, ReadIndex(o, manifest)
      PROVE  ChannelsInv'
  BY <1>1, <1>2, ReadKeeps
<1>3. ASSUME NEW o \in Operators, ReplaceIndex(o)
      PROVE  ChannelsInv'
  BY <1>1, <1>3, ReplaceKeeps
<1>4. ASSUME NEW o \in Operators, CrashUpdate(o)
      PROVE  ChannelsInv'
  BY <1>1, <1>4, CrashKeeps
<1>5. ASSUME NEW manifest \in manifests, Retire(manifest)
      PROVE  ChannelsInv'
  <2>1. manifest.pack \in packs /\ retired \in Seq(packs)
    BY DEF PackInv, ManifestsInv, ChannelsInv
  <2>2. Append(retired, manifest.pack) \in Seq(packs)
    BY <2>1, AppendProperties
  <2>3. retired' \in Seq(packs')
    BY <1>5, <2>2 DEF Retire
  <2> QED BY <1>1, <1>5, <2>3, ChannelsUntouched DEF Retire
<1>6. CASE UNCHANGED <<indexes, updates, activations, overlapped, retired>>
  <2>1. retired' \in Seq(packs')
    BY <1>1, <1>6, RetiredTyped DEF PackInv, ChannelsInv
  <2> QED BY <1>1, <1>6, <2>1, ChannelsUntouched
<1> QED
  BY <1>2, <1>3, <1>4, <1>5, <1>6
  DEF PackNext, Admit, Compile, Assemble, StartKeygen, WritePublicKey, FailPublicKey,
      WritePrivateKey, FailPrivateKey, CrashKeygen, KeysOnly, Sign

-----------------------------------------------------------------------------
(***************************************************************************)
(* Theorems.                                                               *)
(***************************************************************************)

\* At first nothing is published.
LEMMA PackInvInit == PackInit => PackInv
<1> SUFFICES ASSUME PackInit PROVE PackInv
  OBVIOUS
<1> USE DEF PackInit
<1>1. PacksTyped
  BY FS_EmptySet DEF PacksTyped
<1>2. KeysInv
  <2>1. /\ keygens = <<>> /\ keygens \in Seq([step : KeygenSteps, stuck : SUBSET Halves])
        /\ DOMAIN keygens = {}
    BY EmptySeq
  <2> QED BY <2>1 DEF KeysInv
<1>3. ManifestsInv
  BY DEF ManifestsInv
<1>4. ChannelsInv
  <2>1. retired \in Seq(packs) /\ \A c \in Channels : activations[c] \in Seq(Manifests)
    BY EmptySeq
  <2> QED BY <2>1 DEF ChannelsInv, IndexSound, Tells, ReadsCurrent, Busy
<1> QED BY <1>1, <1>2, <1>3, <1>4 DEF PackInv

\* What is known of publication stays true of every step.
LEMMA PackInvStep ==
  ASSUME PackInv, [Next]_vars
  PROVE  PackInv'
<1>1. CASE PackNext
  BY <1>1, PacksKept, KeysKept, ManifestsKept, ChannelsKept DEF PackInv
<1>2. CASE UNCHANGED packVars
  <2> USE <1>2 DEF packVars
  <2>1. PacksTyped' /\ ManifestsInv'
    BY DEF PackInv, PacksTyped, ManifestsInv
  <2>2. KeysInv'
    BY DEF PackInv, KeysInv, KeysAt
  <2>3. ChannelsInv'
    BY DEF PackInv, ChannelsInv, ReadsCurrent, Busy
  <2> QED BY <2>1, <2>2, <2>3 DEF PackInv
<1> QED BY <1>1, <1>2 DEF Next, vars

\* The inductive invariant of publication: what a key generation and a channel
\* update rely on at each of their steps.
THEOREM PackInvariant == Spec => []PackInv
<1>1. Init => PackInv
  BY PackInvInit DEF Init
<1>2. PackInv /\ [Next]_vars => PackInv'
  BY PackInvStep
<1> QED BY <1>1, <1>2, PTL DEF Spec

\* A key generation that raised leaves none of its halves but those it could
\* not or did not try to remove, and the last one answered left both, whatever
\* raises, is stuck or crashes (crypto.py:97).
THEOREM KeyPairAlwaysWhole == Spec => []KeyPairWhole
<1>1. PackInv => KeyPairWhole
  BY DEF PackInv, KeysInv, KeysAt, KeyPairWhole
<1> QED BY <1>1, PackInvariant, PTL

\* Whatever a channel has active verifies and can be rolled back, however its
\* updates overlap (publisher.py, channels.py).
THEOREM ActiveAlwaysRollsBack == Spec => []ActiveCanRollBack
<1>1. PackInv => ActiveCanRollBack
  <2> SUFFICES ASSUME PackInv, NEW channel \in Channels, indexes[channel] # None
               PROVE  LET active == indexes[channel].active
                      IN /\ active.channel = channel
                         /\ Verifies(active)
                         /\ active.rollback # None =>
                              \E m \in manifests : m.pack = active.rollback
    BY DEF ActiveCanRollBack
  <2> DEFINE active == indexes[channel].active
  <2>1. active \in manifests /\ active.channel = channel
    BY DEF PackInv, ChannelsInv, IndexSound
  <2> HIDE DEF active
  <2>2. /\ active.pack \in packs /\ active.pack \in Packs
        /\ active.rollback # None \/ active.channel = "experimental"
        /\ active.rollback # None => \E m \in manifests : m.pack = active.rollback
    BY <2>1 DEF PackInv, ManifestsInv, PacksTyped, Channels
  <2>3. \A rule \in RulesOf(active.pack) : rule.score >= 4 * Millionths
    BY <2>2, RulesScore
  <2>4. Verifies(active)
    BY <2>2, <2>3 DEF Verifies
  <2> QED BY <2>1, <2>2, <2>4 DEF active
<1> QED BY <1>1, PackInvariant, PTL

\* An index says what became of its channel, as long as no two updates of it
\* overlapped (ADR-INTEL-021).
THEOREM IndexAlwaysTells == Spec => []IndexTellsActivations
<1>1. PackInv => IndexTellsActivations
  BY DEF PackInv, ChannelsInv, Tells, IndexTellsActivations
<1> QED BY <1>1, PackInvariant, PTL

\* A rule of a pack is about something that recurred in several repositories,
\* and among what its score was computed from are repairs that passed and
\* findings that were right, whatever is in the corpus: a score of four cannot
\* be had otherwise (scoring.py, candidates.py).
THEOREM PromotionAlwaysEarned == Spec => []PromotionEarned
<1>1. PackInv => PromotionEarned
  <2> SUFFICES ASSUME PackInv, NEW pack \in packs, NEW rule \in RulesOf(pack)
               PROVE  <<pack.compilation, rule.fingerprint, rule.class>> \in Founded
    BY DEF PromotionEarned
  <2> DEFINE batches == pack.compilation
             entry == [batches |-> batches, candidates |-> Candidates(EventsOf(batches))]
  <2>1. pack \in Packs /\ batches \in SUBSET Batches /\ IsFiniteSet(batches)
    BY DEF PackInv, PacksTyped, Packs
  <2>2. entry \in Catalog
    BY <2>1 DEF Catalog
  <2>3. rule \in entry.candidates
    BY <2>1, CandidatesOfCorpus DEF RulesOf, Eligible
  <2>4. rule.score >= 4 * Millionths
    BY <2>1, RulesScore
  <2> HIDE DEF batches
  <2>5. WellFounded(EventsOf(entry.batches), rule)
    BY <2>1, <2>3, <2>4, FiniteObservations, ScoreFounded
  <2> DEFINE found == {<<entry.batches, c.fingerprint, c.class>> :
                         c \in {d \in entry.candidates : WellFounded(EventsOf(entry.batches), d)}}
  <2>6. <<entry.batches, rule.fingerprint, rule.class>> \in found
    BY <2>3, <2>5
  <2>7. entry.batches = pack.compilation
    BY DEF batches
  <2> HIDE DEF entry
  <2>8. found \subseteq Founded
    BY <2>2 DEF Founded
  <2> QED BY <2>6, <2>7, <2>8
<1> QED BY <1>1, PackInvariant, PTL
=============================================================================
