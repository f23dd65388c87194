--------------------------- MODULE IngestionProofs ---------------------------
(***************************************************************************)
(* What holds of the ingestion service for every set of events, writers    *)
(* and bounds.                                                             *)
(***************************************************************************)
EXTENDS IngestionInvariants, SequenceTheorems, TLAPS

USE DEF environment, storeVars

(***************************************************************************)
(* A ledger stays a sequence of entries, whatever is put at its end.       *)
(***************************************************************************)
LEMMA ExtendTyped ==
  ASSUME ledger \in Seq(LedgerEntries \cup {Torn}),
         ~terminated => ledger # <<>>,
         NEW line \in LedgerEntries \cup {Torn},
         Extend(line)
  PROVE  /\ ledger' \in Seq(LedgerEntries \cup {Torn})
         /\ ledger' # <<>>
<1> DEFINE S == LedgerEntries \cup {Torn}
<1>1. CASE terminated
  <2>1. ledger' = Append(ledger, line)
    BY <1>1 DEF Extend
  <2>2. Append(ledger, line) \in Seq(S) /\ Append(ledger, line) # <<>>
    BY AppendProperties
  <2> QED BY <2>1, <2>2
<1>2. CASE ~terminated
  <2>1. ledger' = [ledger EXCEPT ![Len(ledger)] = Torn]
    BY <1>2 DEF Extend
  <2>2. Len(ledger) \in 1 .. Len(ledger)
    BY <1>2, EmptySeq, LenProperties
  <2>3. /\ [ledger EXCEPT ![Len(ledger)] = Torn] \in Seq(S)
        /\ Len([ledger EXCEPT ![Len(ledger)] = Torn]) = Len(ledger)
    BY <2>2, ExceptSeq
  <2> QED BY <2>1, <2>2, <2>3
<1> QED BY <1>1, <1>2

-----------------------------------------------------------------------------
(***************************************************************************)
(* Type correctness.                                                       *)
(***************************************************************************)
LEMMA JobReplaced ==
  ASSUME JobsTyped, NEW w \in Writers, NEW j, JobTyped(j),
         job' = [job EXCEPT ![w] = j]
  PROVE  JobsTyped'
BY DEF JobsTyped, JobTyped

\* The steps at which JobTyped asks nothing of a job beyond its type.
PlainSteps ==
  Steps \ {"write_observations", "replace_observations", "replace_correction"}

\* Going on to a step that asks nothing more of the job.
LEMMA PlainGoto ==
  ASSUME JobsTyped, NEW w \in Writers, job[w] # Idle,
         NEW step \in PlainSteps, Goto(w, step)
  PROVE  JobsTyped'
<1> DEFINE j == [job[w] EXCEPT !.step = step]
<1>1. job[w] \in Jobs
  BY DEF JobsTyped, JobTyped
<1>2. j \in Jobs /\ j.step = step
  BY <1>1 DEF Jobs, PlainSteps
<1>3. JobTyped(j)
  BY <1>2 DEF JobTyped, PlainSteps
<1>4. job' = [job EXCEPT ![w] = j]
  BY DEF Goto
<1> QED BY <1>3, <1>4, JobReplaced

\* The end of a delivery.
LEMMA Stop ==
  ASSUME JobsTyped, NEW w \in Writers, job' = [job EXCEPT ![w] = Idle]
  PROVE  JobsTyped'
BY JobReplaced DEF JobTyped

\* An empty store has its types.
LEMMA TypeInit == Init => TypeInv
BY ConstantsAssumption
   DEF Init, TypeInv, TypeOK, StoreInit, StoreTypeOK, JobsTyped, JobTyped

\* What the parts of an event a step writes are, as far as types go.
LEMMA EventTyped ==
  ASSUME TypeInv, NEW w \in Writers, job[w] # Idle
  PROVE  /\ job[w] \in Jobs
         /\ job[w].event \in Events
         /\ RecordId(job[w].event) \in RecordIds
         /\ RecordDocument(job[w].event) \in RecordDocuments
         /\ job[w].observed_at \in Nat
         /\ job[w].issued_at \in Nat
         /\ Entry(w) \in LedgerEntries
         /\ job[w].targets \subseteq RecordIds
<1>1. job[w] \in Jobs
  BY DEF TypeInv, JobsTyped
<1> QED
  BY <1>1 DEF Jobs, RecordIds, RecordDocuments, Entry, LedgerEntries

\* Each action of a writer, a failure and a tick of the clock keep the types.
LEMMA TypeStep == TypeInv /\ [Next]_vars => TypeInv'
<1> SUFFICES ASSUME TypeInv, [Next]_vars
             PROVE  TypeInv'
  OBVIOUS
<1> USE ConstantsAssumption
<1> DEFINE StoreTyped == StoreTypeOK /\ (~terminated => ledger # <<>>)
           EnvironmentTyped == /\ clock \in 0 .. MaxClock
                               /\ outbox \subseteq Events
                               /\ redeliveries \in 0 .. MaxRedeliveries
                               /\ interrupts \in 0 .. MaxInterrupts
                               /\ answers \subseteq Events \X Answers
<1>0. SUFFICES StoreTyped' /\ EnvironmentTyped' /\ JobsTyped'
  BY DEF TypeInv, TypeOK, JobsTyped
<1>a. StoreTyped /\ EnvironmentTyped /\ JobsTyped
  BY DEF TypeInv, TypeOK
<1>b. ASSUME UNCHANGED storeVars PROVE StoreTyped'
  BY <1>a, <1>b DEF StoreTypeOK
<1>c. ASSUME UNCHANGED environment PROVE EnvironmentTyped'
  BY <1>a, <1>c
<1>1. ASSUME NEW w \in Writers, NEW e \in Events, NEW operation \in Operations,
             Deliver(w, e, operation)
      PROVE  StoreTyped' /\ EnvironmentTyped' /\ JobsTyped'
  <2> DEFINE j == [step |-> IF e.clean THEN "read_record" ELSE "write_quarantine",
                   event |-> e, operation |-> operation,
                   observed_at |-> clock, sequence |-> NextSequence,
                   disposition |-> IF e.clean THEN "accepted" ELSE "quarantined",
                   index |-> {}, targets |-> {}, target |-> Absent,
                   issued_at |-> 0]
  <2>1. NextSequence \in Nat
    BY <1>a, LenProperties DEF StoreTypeOK, NextSequence
  <2>2. j \in Jobs
    BY <1>a, <2>1 DEF Jobs, Steps, Dispositions
  <2>3. JobTyped(j)
    BY <2>2 DEF JobTyped
  <2>4. JobsTyped'
    BY <1>1, <1>a, <2>3, JobReplaced DEF Deliver
  <2>5. StoreTyped'
    BY <1>1, <1>b DEF Deliver
  <2>6. EnvironmentTyped'
    BY <1>1, <1>a DEF Deliver
  <2> QED BY <2>4, <2>5, <2>6
<1>2. ASSUME NEW w \in Writers, ReadRecord(w)
      PROVE  StoreTyped' /\ EnvironmentTyped' /\ JobsTyped'
  <2> DEFINE d(disposition, step) ==
        [[job[w] EXCEPT !.step = step] EXCEPT !.disposition = disposition]
  <2>1. job[w] \in Jobs /\ job[w] # Idle
    BY <1>2, EventTyped DEF ReadRecord, At
  <2>2. /\ JobTyped(d("duplicate", "project_learning"))
        /\ JobTyped(d("quarantined", "write_quarantine"))
    BY <2>1 DEF Jobs, Steps, Dispositions, JobTyped
  <2>3. JobsTyped'
    <3>1. CASE Goto(w, "write_record")
      BY <1>a, <2>1, <3>1, PlainGoto DEF PlainSteps, Steps
    <3>2. CASE job' = [job EXCEPT ![w] = d("duplicate", "project_learning")]
      BY <1>a, <2>2, <3>2, JobReplaced
    <3>3. CASE job' = [job EXCEPT ![w] = d("quarantined", "write_quarantine")]
      BY <1>a, <2>2, <3>3, JobReplaced
    <3> QED BY <1>2, <1>a, <3>1, <3>2, <3>3 DEF ReadRecord, JobsTyped
  <2> QED BY <1>2, <1>b, <1>c, <2>3 DEF ReadRecord
<1>3. ASSUME NEW w \in Writers, WriteRecord(w)
      PROVE  StoreTyped' /\ EnvironmentTyped' /\ JobsTyped'
  <2>1. JobsTyped'
    <3>1. CASE Goto(w, "replace_record")
      BY <1>3, <1>a, <3>1, PlainGoto DEF PlainSteps, Steps, WriteRecord, At
    <3>2. CASE Goto(w, "read_index")
      BY <1>3, <1>a, <3>2, PlainGoto DEF PlainSteps, Steps, WriteRecord, At
    <3>3. CASE Collide(w)
      BY <1>a, <3>3, Stop DEF Collide
    <3> QED BY <1>3, <3>1, <3>2, <3>3 DEF WriteRecord, WriteOnce
  <2>2. EnvironmentTyped'
    BY <1>3, <1>a, EventTyped DEF WriteRecord, WriteOnce, Collide, At, Answers
  <2> QED BY <1>3, <1>b, <2>1, <2>2 DEF WriteRecord
<1>4. ASSUME NEW w \in Writers, ReplaceRecord(w)
      PROVE  StoreTyped' /\ EnvironmentTyped' /\ JobsTyped'
  <2>1. JobsTyped'
    BY <1>4, <1>a, PlainGoto DEF PlainSteps, Steps, ReplaceRecord, At
  <2>2. StoreTyped'
    BY <1>4, <1>a, EventTyped DEF ReplaceRecord, At, StoreTypeOK
  <2> QED BY <1>4, <1>c, <2>1, <2>2 DEF ReplaceRecord
<1>5. ASSUME NEW w \in Writers, ReadIndex(w)
      PROVE  StoreTyped' /\ EnvironmentTyped' /\ JobsTyped'
  <2> DEFINE j == [[job[w] EXCEPT !.step = "replace_index"] EXCEPT !.index = index]
  <2>1. job[w] \in Jobs /\ job[w] # Idle
    BY <1>5, EventTyped DEF ReadIndex, At
  <2>2. JobTyped(j)
    BY <1>a, <2>1 DEF StoreTypeOK, Jobs, Steps, JobTyped
  <2>3. JobsTyped'
    <3>1. CASE Goto(w, "project_learning")
      BY <1>a, <2>1, <3>1, PlainGoto DEF PlainSteps, Steps
    <3>2. CASE job' = [job EXCEPT ![w] = j]
      BY <1>a, <2>2, <3>2, JobReplaced
    <3> QED BY <1>5, <3>1, <3>2 DEF ReadIndex
  <2> QED BY <1>5, <1>b, <1>c, <2>3 DEF ReadIndex
<1>6. ASSUME NEW w \in Writers, ReplaceIndex(w)
      PROVE  StoreTyped' /\ EnvironmentTyped' /\ JobsTyped'
  <2> DEFINE j == [[job[w] EXCEPT !.step = "project_learning"] EXCEPT !.index = {}]
  <2>1. job[w] \in Jobs /\ job[w] # Idle
    BY <1>6, EventTyped DEF ReplaceIndex, At
  <2>2. JobTyped(j)
    BY <2>1 DEF Jobs, Steps, JobTyped
  <2>3. JobsTyped'
    BY <1>6, <1>a, <2>2, JobReplaced DEF ReplaceIndex
  <2>4. StoreTyped'
    BY <1>6, <1>a, <2>1, EventTyped DEF ReplaceIndex, StoreTypeOK, Jobs
  <2> QED BY <1>6, <1>c, <2>3, <2>4 DEF ReplaceIndex
<1>7. ASSUME NEW w \in Writers, ProjectLearning(w)
      PROVE  StoreTyped' /\ EnvironmentTyped' /\ JobsTyped'
  <2> DEFINE j == [job[w] EXCEPT !.step = "write_observations"]
  <2>1. job[w] \in Jobs /\ job[w] # Idle
    BY <1>7, EventTyped DEF ProjectLearning, At
  <2>2. CASE job[w].event.rows # Absent /\ Goto(w, "write_observations")
    <3>1. JobTyped(j)
      BY <2>1, <2>2 DEF Jobs, Steps, JobTyped
    <3>2. JobsTyped'
      BY <1>a, <2>2, <3>1, JobReplaced DEF Goto
    <3> QED BY <1>7, <1>b, <1>c, <3>2 DEF ProjectLearning
  <2>3. CASE Goto(w, "append_ledger")
    <3>1. JobsTyped'
      BY <1>a, <2>1, <2>3, PlainGoto DEF PlainSteps, Steps
    <3> QED BY <1>7, <1>b, <1>c, <3>1 DEF ProjectLearning
  <2> QED BY <1>7, <2>2, <2>3 DEF ProjectLearning
<1>8. ASSUME NEW w \in Writers, WriteObservations(w)
      PROVE  StoreTyped' /\ EnvironmentTyped' /\ JobsTyped'
  <2> DEFINE j == [job[w] EXCEPT !.step = "replace_observations"]
  <2>1. job[w] \in Jobs /\ job[w] # Idle /\ job[w].event.rows # Absent
    BY <1>8, <1>a, EventTyped DEF WriteObservations, At, JobsTyped, JobTyped
  <2>2. JobsTyped'
    <3>1. CASE Goto(w, "replace_observations")
      <4>1. JobTyped(j)
        BY <2>1 DEF Jobs, Steps, JobTyped
      <4> QED BY <1>a, <3>1, <4>1, JobReplaced DEF Goto
    <3>2. CASE Goto(w, "append_ledger")
      BY <1>a, <2>1, <3>2, PlainGoto DEF PlainSteps, Steps
    <3>3. CASE Collide(w)
      BY <1>a, <3>3, Stop DEF Collide
    <3> QED BY <1>8, <3>1, <3>2, <3>3 DEF WriteObservations, WriteOnce
  <2>3. EnvironmentTyped'
    BY <1>8, <1>a, EventTyped DEF WriteObservations, WriteOnce, Collide, At, Answers
  <2> QED BY <1>8, <1>b, <2>2, <2>3 DEF WriteObservations
<1>9. ASSUME NEW w \in Writers, ReplaceObservations(w)
      PROVE  StoreTyped' /\ EnvironmentTyped' /\ JobsTyped'
  <2>1. job[w] # Idle /\ job[w].event.rows \in RowSets
    BY <1>9, <1>a, EventTyped
    DEF ReplaceObservations, At, JobsTyped, JobTyped, RowSets
  <2>2. JobsTyped'
    BY <1>9, <1>a, PlainGoto DEF PlainSteps, Steps, ReplaceObservations, At
  <2>3. StoreTyped'
    BY <1>9, <1>a, <2>1, EventTyped DEF ReplaceObservations, StoreTypeOK
  <2> QED BY <1>9, <1>c, <2>2, <2>3 DEF ReplaceObservations
<1>10. ASSUME NEW w \in Writers, WriteQuarantine(w)
      PROVE  StoreTyped' /\ EnvironmentTyped' /\ JobsTyped'
  <2>1. JobsTyped'
    <3>1. CASE Goto(w, "replace_quarantine")
      BY <1>10, <1>a, <3>1, PlainGoto DEF PlainSteps, Steps, WriteQuarantine, At
    <3>2. CASE Goto(w, "append_ledger")
      BY <1>10, <1>a, <3>2, PlainGoto DEF PlainSteps, Steps, WriteQuarantine, At
    <3>3. CASE Collide(w)
      BY <1>a, <3>3, Stop DEF Collide
    <3> QED BY <1>10, <3>1, <3>2, <3>3 DEF WriteQuarantine, WriteOnce
  <2>2. EnvironmentTyped'
    BY <1>10, <1>a, EventTyped DEF WriteQuarantine, WriteOnce, Collide, At, Answers
  <2> QED BY <1>10, <1>b, <2>1, <2>2 DEF WriteQuarantine
<1>11. ASSUME NEW w \in Writers, ReplaceQuarantine(w)
      PROVE  StoreTyped' /\ EnvironmentTyped' /\ JobsTyped'
  <2>1. JobsTyped'
    BY <1>11, <1>a, PlainGoto DEF PlainSteps, Steps, ReplaceQuarantine, At
  <2>2. StoreTyped'
    BY <1>11, <1>a, EventTyped DEF ReplaceQuarantine, At, StoreTypeOK
  <2> QED BY <1>11, <1>c, <2>1, <2>2 DEF ReplaceQuarantine
<1>12. ASSUME NEW w \in Writers, AppendLedger(w)
      PROVE  StoreTyped' /\ EnvironmentTyped' /\ JobsTyped'
  <2>1. JobsTyped'
    <3>1. CASE Goto(w, "find_claims")
      BY <1>12, <1>a, <3>1, PlainGoto DEF PlainSteps, Steps, AppendLedger, At
    <3>2. CASE Goto(w, "reply")
      BY <1>12, <1>a, <3>2, PlainGoto DEF PlainSteps, Steps, AppendLedger, At
    <3> QED BY <1>12, <3>1, <3>2 DEF AppendLedger
  <2>2. /\ ledger' \in Seq(LedgerEntries \cup {Torn})
        /\ terminated' = TRUE
    BY <1>12, <1>a, EventTyped, ExtendTyped
    DEF AppendLedger, At, AppendLine, StoreTypeOK
  <2>3. StoreTyped'
    BY <1>12, <1>a, <2>2 DEF AppendLedger, StoreTypeOK
  <2> QED BY <1>12, <1>c, <2>1, <2>3 DEF AppendLedger
<1>13. ASSUME NEW w \in Writers, FindClaims(w)
      PROVE  StoreTyped' /\ EnvironmentTyped' /\ JobsTyped'
  <2> DEFINE j == [[job[w] EXCEPT !.step = "find_predecessors"]
                    EXCEPT !.targets = HistoricalClaims(job[w].event)]
  <2>1. job[w] \in Jobs /\ job[w] # Idle
    BY <1>13, EventTyped DEF FindClaims, At
  <2>2. HistoricalClaims(job[w].event) \subseteq RecordIds
    BY DEF HistoricalClaims
  <2>3. JobTyped(j)
    BY <2>1, <2>2 DEF Jobs, Steps, JobTyped
  <2>4. JobsTyped'
    BY <1>13, <1>a, <2>3, JobReplaced DEF FindClaims
  <2> QED BY <1>13, <1>b, <1>c, <2>4 DEF FindClaims
<1>14. ASSUME NEW w \in Writers, FindPredecessors(w)
      PROVE  StoreTyped' /\ EnvironmentTyped' /\ JobsTyped'
  <2> DEFINE live == {r \in job[w].targets : ~Corrected(r)}
             j == [[[job[w] EXCEPT !.step = "write_correction"]
                    EXCEPT !.targets = live] EXCEPT !.issued_at = clock]
  <2>1. job[w] \in Jobs /\ job[w] # Idle /\ live \subseteq RecordIds
    BY <1>14, EventTyped DEF FindPredecessors, At
  <2>2. JobTyped(j)
    <3>1. clock \in Nat
      BY <1>a
    <3> HIDE DEF live
    <3>2. j \in Jobs /\ j.step = "write_correction"
      BY <2>1, <3>1 DEF Jobs, Steps
    <3> QED BY <3>2 DEF JobTyped
  <2>3. JobsTyped'
    BY <1>14, <1>a, <2>2, JobReplaced DEF FindPredecessors
  <2> QED BY <1>14, <1>b, <1>c, <2>3 DEF FindPredecessors
<1>15. ASSUME NEW w \in Writers, WriteCorrection(w)
      PROVE  StoreTyped' /\ EnvironmentTyped' /\ JobsTyped'
  <2>1. job[w] \in Jobs /\ job[w] # Idle /\ job[w].targets \subseteq RecordIds
    BY <1>15, EventTyped DEF WriteCorrection, At
  <2>2. PICK t \in job[w].targets :
          \/ /\ job' = [job EXCEPT ![w] =
                  [[job[w] EXCEPT !.step = "replace_correction"]
                   EXCEPT !.target = t]]
             /\ UNCHANGED answers
          \/ /\ job' = [job EXCEPT ![w] =
                  [job[w] EXCEPT !.targets = job[w].targets \ {t}]]
             /\ job[w].step = "write_correction"
             /\ UNCHANGED answers
          \/ Collide(w)
    BY <1>15 DEF WriteCorrection, At
  <2>3. t # Absent /\ t \in RecordIds
    BY <2>1, AbsentIsNoDocument
  <2>4. JobTyped([[job[w] EXCEPT !.step = "replace_correction"] EXCEPT !.target = t])
    BY <2>1, <2>3 DEF Jobs, Steps, JobTyped
  <2>5. ASSUME job[w].step = "write_correction"
        PROVE  JobTyped([job[w] EXCEPT !.targets = job[w].targets \ {t}])
    BY <2>1, <2>5 DEF Jobs, Steps, JobTyped
  <2>6. JobsTyped'
    BY <1>a, <2>2, <2>4, <2>5, JobReplaced, Stop DEF Collide
  <2>7. EnvironmentTyped'
    BY <1>15, <1>a, <2>1, <2>2, EventTyped DEF WriteCorrection, Collide, Answers
  <2> QED BY <1>15, <1>b, <2>6, <2>7 DEF WriteCorrection
<1>16. ASSUME NEW w \in Writers, ReplaceCorrection(w)
      PROVE  StoreTyped' /\ EnvironmentTyped' /\ JobsTyped'
  <2> DEFINE t == job[w].target
             j == [[[job[w] EXCEPT !.step = "write_correction"]
                    EXCEPT !.targets = job[w].targets \ {t}]
                   EXCEPT !.target = Absent]
  <2>1. job[w] \in Jobs /\ job[w] # Idle /\ t \in RecordIds
    BY <1>16, <1>a, EventTyped DEF ReplaceCorrection, At, JobsTyped, JobTyped, Jobs
  <2>2. JobTyped(j)
    BY <2>1 DEF Jobs, Steps, JobTyped
  <2>3. JobsTyped'
    BY <1>16, <1>a, <2>2, JobReplaced DEF ReplaceCorrection
  <2>4. <<t, job[w].event.event_id>> \in CorrectionIds /\ job[w].issued_at \in Nat
    BY <2>1, EventTyped DEF CorrectionIds, EventIds
  <2>5. corrections' \in [CorrectionIds -> Nat \cup {Absent}]
    BY <1>16, <1>a, <2>4 DEF ReplaceCorrection, StoreTypeOK
  <2>6. StoreTyped'
    BY <1>16, <1>a, <2>5 DEF ReplaceCorrection, StoreTypeOK
  <2> QED BY <1>16, <1>c, <2>3, <2>6 DEF ReplaceCorrection
<1>17. ASSUME NEW w \in Writers, CorrectionsDone(w)
      PROVE  StoreTyped' /\ EnvironmentTyped' /\ JobsTyped'
  <2>1. JobsTyped'
    BY <1>17, <1>a, PlainGoto DEF PlainSteps, Steps, CorrectionsDone, At
  <2> QED BY <1>17, <1>b, <1>c, <2>1 DEF CorrectionsDone
<1>18. ASSUME NEW w \in Writers, Reply(w)
      PROVE  StoreTyped' /\ EnvironmentTyped' /\ JobsTyped'
  <2>1. JobsTyped'
    BY <1>18, <1>a, Stop DEF Reply
  <2>2. job[w].disposition \in Answers
    BY <1>18, EventTyped DEF Reply, At, Jobs, Answers
  <2>3. EnvironmentTyped'
    BY <1>18, <1>a, <2>2, EventTyped DEF Reply, At
  <2> QED BY <1>18, <1>b, <2>1, <2>3 DEF Reply
<1>19. ASSUME NEW w \in Writers, Interrupt(w)
      PROVE  StoreTyped' /\ EnvironmentTyped' /\ JobsTyped'
  <2>1. JobsTyped'
    BY <1>19, <1>a, Stop DEF Interrupt
  <2>2. EnvironmentTyped'
    BY <1>19, <1>a DEF Interrupt
  <2>3. CASE UNCHANGED <<ledger, terminated>>
    BY <1>19, <1>a, <2>1, <2>2, <2>3 DEF Interrupt, StoreTypeOK
  <2>4. CASE AppendPart(Entry(w))
    <3>1. PICK part \in {Entry(w), Torn} : Extend(part)
      BY <2>4 DEF AppendPart
    <3>2. part \in LedgerEntries \cup {Torn}
      BY <1>19, EventTyped DEF Interrupt
    <3>3. ledger' \in Seq(LedgerEntries \cup {Torn}) /\ ledger' # <<>>
      BY <1>a, <3>1, <3>2, ExtendTyped DEF StoreTypeOK
    <3>4. StoreTyped'
      BY <1>19, <1>a, <2>4, <3>3 DEF Interrupt, AppendPart, StoreTypeOK
    <3> QED BY <2>1, <2>2, <3>4
  <2> QED BY <1>19, <2>3, <2>4 DEF Interrupt
<1>20. CASE Tick
  <2>1. EnvironmentTyped'
    BY <1>20, <1>a DEF Tick
  <2> QED BY <1>20, <1>a, <1>b, <2>1 DEF Tick, JobsTyped
<1>21. CASE UNCHANGED vars
  BY <1>21, <1>a, <1>b, <1>c DEF vars, JobsTyped
<1> QED
  BY <1>1, <1>2, <1>3, <1>4, <1>5, <1>6, <1>7, <1>8, <1>9, <1>10, <1>11, <1>12,
     <1>13, <1>14, <1>15, <1>16, <1>17, <1>18, <1>19, <1>20, <1>21
  DEF Next, Progress

\* Every variable keeps its type: in particular each step of a delivery finds
\* the values it writes (learning rows, a correction's target) in its job.
THEOREM TypeCorrect == Spec => []TypeOK
<1>1. TypeInv => TypeOK
  BY DEF TypeInv
<1> QED BY TypeInit, TypeStep, <1>1, PTL DEF Spec

-----------------------------------------------------------------------------
(***************************************************************************)
(* What any number of writers keep, torn ledger appends included: nothing  *)
(* in the store refers to a record that is not there, and nothing the      *)
(* screening refuses gets in.                                              *)
(*                                                                         *)
(* Both follow from what a delivery knows at each of its steps: once past  *)
(* the writing of its record, a delivery that is not quarantined can rely  *)
(* on the record being there, because records are never deleted.           *)
(***************************************************************************)

(***************************************************************************)
(* What a step may do to each part of the store.                           *)
(***************************************************************************)
LEMMA StoreSteps ==
  ASSUME [Next]_vars
  PROVE  \/ UNCHANGED storeVars
         \/ \E w \in Writers :
              \/ ReplaceRecord(w)
              \/ ReplaceIndex(w)
              \/ ReplaceObservations(w)
              \/ ReplaceQuarantine(w)
              \/ AppendLedger(w)
              \/ ReplaceCorrection(w)
              \/ Interrupt(w)
<1>1. ASSUME NEW w \in Writers, NEW e \in Events, NEW operation \in Operations,
             Deliver(w, e, operation)
      PROVE  UNCHANGED storeVars
  BY <1>1 DEF Deliver
<1>2. ASSUME NEW w \in Writers, Progress(w)
      PROVE  \/ UNCHANGED storeVars
             \/ ReplaceRecord(w)
             \/ ReplaceIndex(w)
             \/ ReplaceObservations(w)
             \/ ReplaceQuarantine(w)
             \/ AppendLedger(w)
             \/ ReplaceCorrection(w)
  <2>1. ReadRecord(w) => UNCHANGED storeVars
    BY DEF ReadRecord
  <2>2. WriteRecord(w) => UNCHANGED storeVars
    BY DEF WriteRecord
  <2>3. ReadIndex(w) => UNCHANGED storeVars
    BY DEF ReadIndex
  <2>4. ProjectLearning(w) => UNCHANGED storeVars
    BY DEF ProjectLearning
  <2>5. WriteObservations(w) => UNCHANGED storeVars
    BY DEF WriteObservations
  <2>6. WriteQuarantine(w) => UNCHANGED storeVars
    BY DEF WriteQuarantine
  <2>7. FindClaims(w) => UNCHANGED storeVars
    BY DEF FindClaims
  <2>8. FindPredecessors(w) => UNCHANGED storeVars
    BY DEF FindPredecessors
  <2>9. WriteCorrection(w) => UNCHANGED storeVars
    BY DEF WriteCorrection
  <2>10. CorrectionsDone(w) => UNCHANGED storeVars
    BY DEF CorrectionsDone
  <2>11. Reply(w) => UNCHANGED storeVars
    BY DEF Reply
  <2> QED BY ONLY <1>2, <2>1, <2>2, <2>3, <2>4, <2>5, <2>6, <2>7, <2>8, <2>9,
                  <2>10, <2>11 DEF Progress
<1>3. Tick => UNCHANGED storeVars
  BY DEF Tick
<1>4. UNCHANGED vars => UNCHANGED storeVars
  BY DEF vars
<1> QED BY ONLY <1>1, <1>2, <1>3, <1>4, [Next]_vars DEF Next

\* Records appear in write_record only.
LEMMA RecordsChange ==
  ASSUME [Next]_vars
  PROVE  \/ UNCHANGED records
         \/ \E w \in Writers :
              /\ At(w, "replace_record")
              /\ records' = [records EXCEPT
                   ![RecordId(job[w].event)] = RecordDocument(job[w].event)]
BY StoreSteps DEF ReplaceRecord, ReplaceIndex, ReplaceObservations,
                  ReplaceQuarantine, AppendLedger, ReplaceCorrection, Interrupt

\* Learning rows appear in write_observations only.
LEMMA ObservationsChange ==
  ASSUME [Next]_vars
  PROVE  \/ UNCHANGED observations
         \/ \E w \in Writers :
              /\ At(w, "replace_observations")
              /\ observations' = [observations EXCEPT
                   ![RecordId(job[w].event)] = job[w].event.rows]
BY StoreSteps DEF ReplaceRecord, ReplaceIndex, ReplaceObservations,
                  ReplaceQuarantine, AppendLedger, ReplaceCorrection, Interrupt

\* Corrections appear in write_correction only.
LEMMA CorrectionsChange ==
  ASSUME [Next]_vars
  PROVE  \/ UNCHANGED corrections
         \/ \E w \in Writers :
              /\ At(w, "replace_correction")
              /\ corrections' = [corrections EXCEPT
                   ![<<job[w].target, job[w].event.event_id>>] = job[w].issued_at]
BY StoreSteps DEF ReplaceRecord, ReplaceIndex, ReplaceObservations,
                  ReplaceQuarantine, AppendLedger, ReplaceCorrection, Interrupt

\* Ledger lines appear in append_ledger, or in one that is cut short.
LEMMA LedgerChange ==
  ASSUME [Next]_vars
  PROVE  \/ UNCHANGED ledger
         \/ \E w \in Writers :
              /\ At(w, "append_ledger")
              /\ \E part \in {Entry(w), Torn} : Extend(part)
BY StoreSteps DEF ReplaceRecord, ReplaceIndex, ReplaceObservations,
                  ReplaceQuarantine, AppendLedger, ReplaceCorrection, Interrupt,
                  AppendLine, AppendPart

\* The write-once check refuses what writer w is about to write.
Refused(w) ==
  /\ Collide(w)
  /\ \/ At(w, "write_record") /\ records[RecordId(job[w].event)] # Absent
     \/ At(w, "write_observations") /\ observations[RecordId(job[w].event)] # Absent
     \/ At(w, "write_quarantine") /\ quarantine[job[w].event] # Absent
     \/ /\ At(w, "write_correction")
        /\ \E t \in job[w].targets :
             corrections[<<t, job[w].event.event_id>>] # Absent

\* Answers are given by a reply or by a write-once check that refuses.
LEMMA AnswersChange ==
  ASSUME [Next]_vars
  PROVE  \/ UNCHANGED answers
         \/ \E w \in Writers : Refused(w)
         \/ \E w \in Writers : Reply(w)
<1>1. ASSUME NEW w \in Writers, Progress(w)
      PROVE  \/ UNCHANGED answers
             \/ Refused(w)
             \/ Reply(w)
  <2>1. ReadRecord(w) => UNCHANGED answers
    BY DEF ReadRecord
  <2>2. WriteRecord(w) => UNCHANGED answers \/ Refused(w)
    BY DEF WriteRecord, WriteOnce, Refused
  <2>3. ReplaceRecord(w) => UNCHANGED answers
    BY DEF ReplaceRecord
  <2>4. ReadIndex(w) => UNCHANGED answers
    BY DEF ReadIndex
  <2>5. ReplaceIndex(w) => UNCHANGED answers
    BY DEF ReplaceIndex
  <2>6. ProjectLearning(w) => UNCHANGED answers
    BY DEF ProjectLearning
  <2>7. WriteObservations(w) => UNCHANGED answers \/ Refused(w)
    BY DEF WriteObservations, WriteOnce, Refused
  <2>8. ReplaceObservations(w) => UNCHANGED answers
    BY DEF ReplaceObservations
  <2>9. WriteQuarantine(w) => UNCHANGED answers \/ Refused(w)
    BY DEF WriteQuarantine, WriteOnce, Refused
  <2>10. ReplaceQuarantine(w) => UNCHANGED answers
    BY DEF ReplaceQuarantine
  <2>11. AppendLedger(w) => UNCHANGED answers
    BY DEF AppendLedger
  <2>12. FindClaims(w) \/ FindPredecessors(w) => UNCHANGED answers
    BY DEF FindClaims, FindPredecessors
  <2>13. WriteCorrection(w) => UNCHANGED answers \/ Refused(w)
    BY DEF WriteCorrection, Refused
  <2>14. ReplaceCorrection(w) \/ CorrectionsDone(w) => UNCHANGED answers
    BY DEF ReplaceCorrection, CorrectionsDone
  <2> QED BY ONLY <1>1, <2>1, <2>2, <2>3, <2>4, <2>5, <2>6, <2>7, <2>8, <2>9,
                  <2>10, <2>11, <2>12, <2>13, <2>14 DEF Progress
<1>2. ASSUME NEW w \in Writers, NEW e \in Events, NEW operation \in Operations,
             Deliver(w, e, operation)
      PROVE  UNCHANGED answers
  BY <1>2 DEF Deliver
<1>3. ASSUME NEW w \in Writers, Interrupt(w)
      PROVE  UNCHANGED answers
  BY <1>3 DEF Interrupt
<1>4. Tick \/ UNCHANGED vars => UNCHANGED answers
  BY DEF Tick, vars
<1> QED BY ONLY <1>1, <1>2, <1>3, <1>4, [Next]_vars DEF Next

\* No record is ever removed.
LEMMA AdmittedGrows ==
  ASSUME TypeInv, [Next]_vars
  PROVE  Admitted \subseteq Admitted'
<1>1. RecordDocuments \cap {Absent} = {}
  BY AbsentIsNoDocument
<1>2. CASE UNCHANGED records
  BY <1>2 DEF Admitted, Stored
<1>3. ASSUME NEW w \in Writers, At(w, "replace_record"),
             records' = [records EXCEPT
               ![RecordId(job[w].event)] = RecordDocument(job[w].event)]
      PROVE  Admitted \subseteq Admitted'
  <2>1. RecordDocument(job[w].event) \in RecordDocuments
    BY <1>3, EventTyped DEF At
  <2> QED BY <1>1, <1>3, <2>1 DEF Admitted, Stored, TypeInv, TypeOK, StoreTypeOK
<1> QED BY <1>2, <1>3, RecordsChange

-----------------------------------------------------------------------------
(***************************************************************************)
(* What a delivery relies on stays true.                                   *)
(***************************************************************************)
LEMMA OwnedReplaced ==
  ASSUME TypeInv, JobsOwned, [Next]_vars,
         NEW w \in Writers, NEW j, j # Idle => JobOwned(j, Admitted'),
         job' = [job EXCEPT ![w] = j]
  PROVE  JobsOwned'
BY AdmittedGrows DEF JobsOwned, JobOwned, TypeInv, JobsTyped

\* A step of none of the deliveries takes nothing from under them.
LEMMA OwnedUnchanged ==
  ASSUME TypeInv, JobsOwned, [Next]_vars, UNCHANGED job
  PROVE  JobsOwned'
BY AdmittedGrows DEF JobsOwned, JobOwned

\* Steps from one step to another that asks no more of the records.
LEMMA OwnedGoto ==
  ASSUME TypeInv, JobsOwned, [Next]_vars,
         NEW w \in Writers, job[w] # Idle,
         NEW step \in Steps, Goto(w, step),
         step \in AdmissionSteps => job[w].step \in AdmissionSteps,
         \/ step \in RecordSteps
         \/ job[w].step \notin RecordSteps
         \/ RecordId(job[w].event) \in Admitted'
  PROVE  JobsOwned'
<1> DEFINE j == [job[w] EXCEPT !.step = step]
<1>1. job[w] \in Jobs /\ JobOwned(job[w], Admitted)
  BY EventTyped DEF JobsOwned
<1>2. /\ j.step = step
      /\ j.disposition = job[w].disposition
      /\ j.event = job[w].event
      /\ j.targets = job[w].targets
      /\ j.target = job[w].target
  BY <1>1 DEF Jobs
<1> HIDE DEF j
<1>3. JobOwned(j, Admitted')
  BY <1>1, <1>2, AdmittedGrows DEF JobOwned
<1> QED BY <1>3, OwnedReplaced DEF Goto, j

\* A delivery that is over relies on nothing.
LEMMA OwnedStop ==
  ASSUME TypeInv, JobsOwned, [Next]_vars,
         NEW w \in Writers, job' = [job EXCEPT ![w] = Idle]
  PROVE  JobsOwned'
BY OwnedReplaced

\* Each action leaves every delivery the records it relies on.
LEMMA OwnedStep ==
  ASSUME TypeInv, JobsOwned, [Next]_vars
  PROVE  JobsOwned'
<1> USE DEF Steps, AdmissionSteps, RecordSteps
<1>a. ASSUME NEW w \in Writers, job[w] # Idle
      PROVE  /\ job[w] \in Jobs
             /\ JobOwned(job[w], Admitted)
             /\ JobOwned(job[w], Admitted')
  BY <1>a, EventTyped, AdmittedGrows DEF JobsOwned, JobOwned
<1>1. ASSUME NEW w \in Writers, NEW e \in Events, NEW operation \in Operations,
             Deliver(w, e, operation)
      PROVE  JobsOwned'
  <2> DEFINE j == [step |-> IF e.clean THEN "read_record" ELSE "write_quarantine",
                   event |-> e, operation |-> operation,
                   observed_at |-> clock, sequence |-> NextSequence,
                   disposition |-> IF e.clean THEN "accepted" ELSE "quarantined",
                   index |-> {}, targets |-> {}, target |-> Absent,
                   issued_at |-> 0]
  <2>1. JobOwned(j, Admitted')
    BY DEF JobOwned
  <2> QED BY <1>1, <2>1, OwnedReplaced DEF Deliver
<1>2. ASSUME NEW w \in Writers, ReadRecord(w)
      PROVE  JobsOwned'
  <2> DEFINE r == RecordId(job[w].event)
             d(disposition, step) ==
               [[job[w] EXCEPT !.step = step] EXCEPT !.disposition = disposition]
  <2>1. job[w] # Idle /\ job[w].step = "read_record" /\ r \in RecordIds
    BY <1>2, EventTyped DEF ReadRecord, At
  <2>2. CASE Goto(w, "write_record")
    BY <2>1, <2>2, OwnedGoto
  <2>3. CASE /\ Stored(r)
             /\ job' = [job EXCEPT ![w] = d("duplicate", "project_learning")]
    <3>1. r \in Admitted'
      BY <2>1, <2>3, AdmittedGrows DEF Admitted
    <3>2. JobOwned(d("duplicate", "project_learning"), Admitted')
      BY <1>a, <2>1, <3>1 DEF JobOwned, Jobs
    <3> QED BY <2>3, <3>2, OwnedReplaced
  <2>4. CASE job' = [job EXCEPT ![w] = d("quarantined", "write_quarantine")]
    <3>1. JobOwned(d("quarantined", "write_quarantine"), Admitted')
      BY <1>a, <2>1 DEF JobOwned, Jobs
    <3> QED BY <2>4, <3>1, OwnedReplaced
  <2> QED BY <1>2, <2>2, <2>3, <2>4 DEF ReadRecord, Stored
<1>3. ASSUME NEW w \in Writers, WriteRecord(w)
      PROVE  JobsOwned'
  <2>1. /\ job[w] # Idle /\ job[w].step = "write_record"
        /\ RecordId(job[w].event) \in RecordIds
        /\ RecordDocument(job[w].event) # Absent
    BY <1>3, EventTyped, AbsentIsNoDocument DEF WriteRecord, At
  <2>2. CASE Goto(w, "replace_record")
    BY <2>1, <2>2, OwnedGoto
  <2>3. CASE /\ records[RecordId(job[w].event)] = RecordDocument(job[w].event)
             /\ Goto(w, "read_index")
    <3>1. RecordId(job[w].event) \in Admitted'
      BY <2>1, <2>3, AdmittedGrows DEF Admitted, Stored
    <3> QED BY <2>1, <2>3, <3>1, OwnedGoto
  <2>4. CASE Collide(w)
    BY <2>4, OwnedStop DEF Collide
  <2> QED BY <1>3, <2>2, <2>3, <2>4 DEF WriteRecord, WriteOnce
<1>4. ASSUME NEW w \in Writers, ReplaceRecord(w)
      PROVE  JobsOwned'
  <2>1. /\ job[w] # Idle /\ job[w].step = "replace_record"
        /\ RecordId(job[w].event) \in RecordIds
        /\ RecordDocument(job[w].event) # Absent
    BY <1>4, EventTyped, AbsentIsNoDocument DEF ReplaceRecord, At
  <2>2. RecordId(job[w].event) \in Admitted'
    BY <1>4, <2>1 DEF ReplaceRecord, Admitted, Stored, TypeInv, TypeOK, StoreTypeOK
  <2> QED BY <1>4, <2>1, <2>2, OwnedGoto DEF ReplaceRecord
<1>5. ASSUME NEW w \in Writers, ReadIndex(w)
      PROVE  JobsOwned'
  <2> DEFINE j == [[job[w] EXCEPT !.step = "replace_index"] EXCEPT !.index = index]
  <2>1. job[w] # Idle /\ job[w].step = "read_index"
    BY <1>5 DEF ReadIndex, At
  <2>2. JobOwned(j, Admitted')
    BY <1>a, <2>1 DEF JobOwned, Jobs
  <2>3. CASE Goto(w, "project_learning")
    BY <2>1, <2>3, OwnedGoto
  <2>4. CASE job' = [job EXCEPT ![w] = j]
    BY <2>2, <2>4, OwnedReplaced
  <2> QED BY <1>5, <2>3, <2>4 DEF ReadIndex
<1>6. ASSUME NEW w \in Writers, ReplaceIndex(w)
      PROVE  JobsOwned'
  <2> DEFINE j == [[job[w] EXCEPT !.step = "project_learning"] EXCEPT !.index = {}]
  <2>1. job[w] # Idle /\ job[w].step = "replace_index"
    BY <1>6 DEF ReplaceIndex, At
  <2>2. JobOwned(j, Admitted')
    BY <1>a, <2>1 DEF JobOwned, Jobs
  <2> QED BY <1>6, <2>2, OwnedReplaced DEF ReplaceIndex
<1>7. ASSUME NEW w \in Writers,
             ProjectLearning(w) \/ WriteObservations(w) \/ ReplaceObservations(w)
      PROVE  JobsOwned'
  <2>1. /\ job[w] # Idle
        /\ job[w].step \in {"project_learning", "write_observations",
                            "replace_observations"}
        /\ \/ \E step \in {"write_observations", "replace_observations",
                            "append_ledger"} : Goto(w, step)
           \/ Collide(w)
    BY <1>7 DEF ProjectLearning, WriteObservations, ReplaceObservations, At, WriteOnce
  <2> QED BY <2>1, OwnedGoto, OwnedStop DEF Collide
<1>8. ASSUME NEW w \in Writers, WriteQuarantine(w) \/ ReplaceQuarantine(w)
      PROVE  JobsOwned'
  <2>1. /\ job[w] # Idle
        /\ job[w].step \in {"write_quarantine", "replace_quarantine"}
        /\ \/ \E step \in {"replace_quarantine", "append_ledger"} : Goto(w, step)
           \/ Collide(w)
    BY <1>8 DEF WriteQuarantine, ReplaceQuarantine, At, WriteOnce
  <2> QED BY <2>1, OwnedGoto, OwnedStop DEF Collide
<1>9. ASSUME NEW w \in Writers, AppendLedger(w) \/ CorrectionsDone(w)
      PROVE  JobsOwned'
  <2>1. /\ job[w] # Idle
        /\ job[w].step \in {"append_ledger", "write_correction"}
        /\ \E step \in {"find_claims", "reply"} : Goto(w, step)
    BY <1>9 DEF AppendLedger, CorrectionsDone, At
  <2> QED BY <2>1, OwnedGoto
<1>10. ASSUME NEW w \in Writers, FindClaims(w)
       PROVE  JobsOwned'
  <2> DEFINE j == [[job[w] EXCEPT !.step = "find_predecessors"]
                    EXCEPT !.targets = HistoricalClaims(job[w].event)]
  <2>1. job[w] # Idle /\ job[w].step = "find_claims"
    BY <1>10 DEF FindClaims, At
  <2>2. HistoricalClaims(job[w].event) \subseteq Admitted'
    BY AdmittedGrows DEF HistoricalClaims, Admitted
  <2>3. JobOwned(j, Admitted')
    BY <1>a, <2>1, <2>2 DEF JobOwned, Jobs
  <2> QED BY <1>10, <2>3, OwnedReplaced DEF FindClaims
<1>11. ASSUME NEW w \in Writers, FindPredecessors(w)
       PROVE  JobsOwned'
  <2> DEFINE live == {r \in job[w].targets : ~Corrected(r)}
             j == [[[job[w] EXCEPT !.step = "write_correction"]
                    EXCEPT !.targets = live] EXCEPT !.issued_at = clock]
  <2>1. job[w] # Idle /\ job[w].step = "find_predecessors"
    BY <1>11 DEF FindPredecessors, At
  <2>2. live \subseteq Admitted'
    BY <1>a, <2>1 DEF JobOwned
  <2>3. JobOwned(j, Admitted')
    <3> HIDE DEF live
    <3> QED BY <1>a, <2>1, <2>2 DEF JobOwned, Jobs
  <2>4. job' = [job EXCEPT ![w] = j]
    BY <1>11 DEF FindPredecessors
  <2> HIDE DEF j
  <2> QED BY <2>3, <2>4, OwnedReplaced
<1>12. ASSUME NEW w \in Writers, WriteCorrection(w)
       PROVE  JobsOwned'
  <2>1. job[w] # Idle /\ job[w].step = "write_correction"
    BY <1>12 DEF WriteCorrection, At
  <2>2. PICK t \in job[w].targets :
          \/ job' = [job EXCEPT ![w] =
                [[job[w] EXCEPT !.step = "replace_correction"] EXCEPT !.target = t]]
          \/ job' = [job EXCEPT ![w] =
                [job[w] EXCEPT !.targets = job[w].targets \ {t}]]
          \/ Collide(w)
    BY <1>12 DEF WriteCorrection
  <2>3. JobOwned([[job[w] EXCEPT !.step = "replace_correction"] EXCEPT !.target = t],
                 Admitted')
    BY <1>a, <2>1 DEF JobOwned, Jobs
  <2>4. JobOwned([job[w] EXCEPT !.targets = job[w].targets \ {t}], Admitted')
    BY <1>a, <2>1 DEF JobOwned, Jobs
  <2> QED BY <2>2, <2>3, <2>4, OwnedReplaced, OwnedStop DEF Collide
<1>13. ASSUME NEW w \in Writers, ReplaceCorrection(w)
       PROVE  JobsOwned'
  <2> DEFINE j == [[[job[w] EXCEPT !.step = "write_correction"]
                    EXCEPT !.targets = job[w].targets \ {job[w].target}]
                   EXCEPT !.target = Absent]
  <2>1. job[w] # Idle /\ job[w].step = "replace_correction"
    BY <1>13 DEF ReplaceCorrection, At
  <2>2. JobOwned(j, Admitted')
    BY <1>a, <2>1 DEF JobOwned, Jobs
  <2>3. job' = [job EXCEPT ![w] = j]
    BY <1>13 DEF ReplaceCorrection
  <2> HIDE DEF j
  <2> QED BY <2>2, <2>3, OwnedReplaced
<1>14. ASSUME NEW w \in Writers, Reply(w) \/ Interrupt(w)
       PROVE  JobsOwned'
  BY <1>14, OwnedStop DEF Reply, Interrupt
<1>15. CASE Tick \/ UNCHANGED vars
  BY <1>15, OwnedUnchanged DEF Tick, vars
<1> QED
  BY ONLY <1>1, <1>2, <1>3, <1>4, <1>5, <1>6, <1>7, <1>8, <1>9, <1>10, <1>11,
          <1>12, <1>13, <1>14, <1>15, [Next]_vars DEF Next, Progress

-----------------------------------------------------------------------------
(***************************************************************************)
(* The store refers to what is there.                                      *)
(***************************************************************************)
LEMMA ExtendLines ==
  ASSUME ledger \in Seq(LedgerEntries \cup {Torn}),
         NEW line, Extend(line), NEW i \in DOMAIN ledger'
  PROVE  \/ ledger'[i] \in {line, Torn}
         \/ i \in DOMAIN ledger /\ ledger'[i] = ledger[i]
<1> DEFINE S == LedgerEntries \cup {Torn, line}
<1>1. ledger \in Seq(S)
  BY SeqMonotonic
<1>2. DOMAIN ledger = 1 .. Len(ledger) /\ Len(ledger) \in Nat
  BY <1>1, LenProperties
<1>3. CASE terminated
  <2>1. ledger' = Append(ledger, line)
    BY <1>3 DEF Extend
  <2>2. /\ Append(ledger, line) \in Seq(S)
        /\ Len(Append(ledger, line)) = Len(ledger) + 1
        /\ \A k \in 1 .. Len(ledger) : Append(ledger, line)[k] = ledger[k]
        /\ Append(ledger, line)[Len(ledger) + 1] = line
    BY <1>1, AppendProperties
  <2>3. DOMAIN ledger' = 1 .. Len(ledger) + 1
    BY <2>1, <2>2, LenProperties
  <2>4. i \in 1 .. Len(ledger) \/ i = Len(ledger) + 1
    BY <1>2, <2>3
  <2> QED BY <1>2, <2>1, <2>2, <2>4
<1>4. CASE ~terminated
  BY <1>4 DEF Extend
<1> QED BY <1>3, <1>4

\* A new ledger line that names a record names a stored one.
LEMMA JournalStep ==
  ASSUME OwnInv, [Next]_vars
  PROVE  JournalledRecordsStored'
<1>1. ledger \in Seq(LedgerEntries \cup {Torn}) /\ Torn \notin LedgerEntries
  BY TornIsNoEntry DEF OwnInv, TypeInv, TypeOK, StoreTypeOK
<1>2. Admitted \subseteq Admitted'
  BY AdmittedGrows DEF OwnInv
<1>3. ASSUME NEW i \in DOMAIN ledger, ledger[i] # Torn, NamesRecord(ledger[i])
      PROVE  RecordId(ledger[i].event) \in Admitted'
  <2>1. ledger[i].event \in Events
    BY <1>1, <1>3, LenProperties, ElementOfSeq DEF LedgerEntries
  <2> QED
    BY <1>2, <1>3, <2>1
    DEF OwnInv, ReferencesHold, JournalledRecordsStored, Admitted, RecordIds
<1>4. CASE UNCHANGED ledger
  BY <1>3, <1>4 DEF JournalledRecordsStored, Admitted, Stored
<1>5. ASSUME NEW w \in Writers, At(w, "append_ledger"),
             NEW part \in {Entry(w), Torn}, Extend(part)
      PROVE  JournalledRecordsStored'
  <2>1. ASSUME NamesRecord(Entry(w))
        PROVE  RecordId(job[w].event) \in Admitted'
    BY <1>2, <1>5, <2>1
    DEF OwnInv, JobsOwned, JobOwned, At, Entry, NamesRecord, RecordSteps
  <2>2. ASSUME NEW i \in DOMAIN ledger', ledger'[i] # Torn, NamesRecord(ledger'[i])
        PROVE  RecordId(ledger'[i].event) \in Admitted'
    <3>1. \/ ledger'[i] \in {part, Torn}
          \/ i \in DOMAIN ledger /\ ledger'[i] = ledger[i]
      BY <1>1, <1>5, <2>2, ExtendLines
    <3>2. CASE ledger'[i] = Entry(w)
      BY <2>1, <2>2, <3>2 DEF Entry
    <3>3. CASE i \in DOMAIN ledger /\ ledger'[i] = ledger[i]
      BY <1>3, <2>2, <3>3
    <3> QED BY <1>5, <2>2, <3>1, <3>2, <3>3
  <2> QED BY <2>2 DEF JournalledRecordsStored, Admitted, Stored
<1> QED BY <1>4, <1>5, LedgerChange

\* So do new learning rows and new corrections.
LEMMA ReferencesStep ==
  ASSUME OwnInv, [Next]_vars
  PROVE  ReferencesHold'
<1>1. Admitted \subseteq Admitted'
  BY AdmittedGrows DEF OwnInv
<1>2. ObservationsOwned'
  <2>1. CASE UNCHANGED observations
    BY <1>1, <2>1 DEF OwnInv, ReferencesHold, ObservationsOwned, Admitted, Stored
  <2>2. ASSUME NEW w \in Writers, At(w, "replace_observations"),
               observations' = [observations EXCEPT
                 ![RecordId(job[w].event)] = job[w].event.rows]
        PROVE  ObservationsOwned'
    <3>1. RecordId(job[w].event) \in Admitted
      BY <2>2 DEF OwnInv, JobsOwned, JobOwned, At, AdmissionSteps, RecordSteps
    <3>2. observations \in [RecordIds -> RowSets \cup {Absent}]
      BY DEF OwnInv, TypeInv, TypeOK, StoreTypeOK
    <3> QED
      BY <1>1, <2>2, <3>1, <3>2
      DEF OwnInv, ReferencesHold, ObservationsOwned, Admitted, Stored
  <2> QED BY <2>1, <2>2, ObservationsChange
<1>3. CorrectionsOwned'
  <2>1. CASE UNCHANGED corrections
    BY <1>1, <2>1
    DEF OwnInv, ReferencesHold, CorrectionsOwned, Admitted, Stored, Corrected
  <2>2. ASSUME NEW w \in Writers, At(w, "replace_correction"),
               corrections' = [corrections EXCEPT
                 ![<<job[w].target, job[w].event.event_id>>] = job[w].issued_at]
        PROVE  CorrectionsOwned'
    <3>1. job[w].target \in Admitted
      BY <2>2
      DEF OwnInv, TypeInv, JobsTyped, JobTyped, JobsOwned, JobOwned, At
    <3>2. corrections \in [CorrectionIds -> Nat \cup {Absent}]
      BY DEF OwnInv, TypeInv, TypeOK, StoreTypeOK
    <3>3. ASSUME NEW r \in RecordIds, Corrected(r)'
          PROVE  r \in Admitted
      <4>1. PICK id \in EventIds : corrections'[<<r, id>>] # Absent
        BY <3>3 DEF Corrected
      <4>2. CASE <<r, id>> = <<job[w].target, job[w].event.event_id>>
        BY <3>1, <4>2
      <4>3. CASE <<r, id>> # <<job[w].target, job[w].event.event_id>>
        <5>1. corrections[<<r, id>>] # Absent
          BY <2>2, <3>2, <4>1, <4>3 DEF CorrectionIds
        <5> QED
          BY <5>1 DEF OwnInv, ReferencesHold, CorrectionsOwned, Corrected, Admitted
      <4> QED BY <4>2, <4>3
    <3> QED BY <1>1, <3>3 DEF CorrectionsOwned, Admitted, Stored
  <2> QED BY <2>1, <2>2, CorrectionsChange
<1> QED BY <1>2, <1>3, JournalStep DEF ReferencesHold

-----------------------------------------------------------------------------
(***************************************************************************)
(* What is there passed the screening.                                     *)
(***************************************************************************)
LEMMA QuarantineStep ==
  ASSUME OwnInv, [Next]_vars
  PROVE  QuarantineKeepsOut'
<1> DEFINE Clean(r, document) ==
      \E e \in Events : e.clean /\ RecordId(e) = r /\ document = RecordDocument(e)
           Told(e) == {<<e, "accepted">>, <<e, "duplicate">>}
<1>1. ASSUME NEW r \in RecordIds, Stored(r)'
      PROVE  Clean(r, records'[r])
  <2>1. CASE records'[r] = records[r]
    BY <1>1, <2>1 DEF OwnInv, QuarantineKeepsOut, Stored
  <2>2. ASSUME NEW w \in Writers, At(w, "replace_record"),
               records' = [records EXCEPT
                 ![RecordId(job[w].event)] = RecordDocument(job[w].event)],
               r = RecordId(job[w].event)
        PROVE  Clean(r, records'[r])
    <3>1. job[w].event \in Events /\ job[w].event.clean
      BY <2>2, EventTyped DEF OwnInv, JobsOwned, JobOwned, At, AdmissionSteps
    <3>2. records'[r] = RecordDocument(job[w].event)
      BY <2>2 DEF OwnInv, TypeInv, TypeOK, StoreTypeOK
    <3> QED BY <2>2, <3>1, <3>2
  <2> QED BY <2>1, <2>2, RecordsChange DEF OwnInv, TypeInv, TypeOK, StoreTypeOK
<1>2. ASSUME NEW e \in Events, ~e.clean
      PROVE  Told(e) \cap answers' = {}
  <2>1. Told(e) \cap answers = {}
    BY <1>2 DEF OwnInv, QuarantineKeepsOut
  <2>2. CASE UNCHANGED answers
    BY <2>1, <2>2
  <2>3. ASSUME NEW w \in Writers, Refused(w)
        PROVE  Told(e) \cap answers' = {}
    BY <2>1, <2>3 DEF Refused, Collide
  <2>4. ASSUME NEW w \in Writers, Reply(w)
        PROVE  Told(e) \cap answers' = {}
    <3>1. job[w].disposition # "quarantined" => job[w].event.clean
      BY <2>4 DEF Reply, At, OwnInv, JobsOwned, JobOwned
    <3>2. answers' = answers \cup {<<job[w].event, job[w].disposition>>}
      BY <2>4 DEF Reply
    <3> QED BY <1>2, <2>1, <3>1, <3>2
  <2> QED BY <2>2, <2>3, <2>4, AnswersChange
<1> QED BY <1>1, <1>2 DEF QuarantineKeepsOut

-----------------------------------------------------------------------------
\* In an empty store nothing refers to anything.
LEMMA OwnInit == Init => OwnInv
<1> SUFFICES ASSUME Init PROVE OwnInv
  OBVIOUS
<1>1. ReferencesHold
  <2>1. JournalledRecordsStored
    BY DEF Init, StoreInit, JournalledRecordsStored
  <2>2. ObservationsOwned
    BY DEF Init, StoreInit, ObservationsOwned
  <2>3. CorrectionsOwned
    <3> SUFFICES ASSUME NEW r \in RecordIds, NEW id \in EventIds
                 PROVE  corrections[<<r, id>>] = Absent
      BY DEF CorrectionsOwned, Corrected
    <3>1. <<r, id>> \in CorrectionIds
      BY DEF CorrectionIds
    <3> QED BY <3>1 DEF Init, StoreInit
  <2> QED BY <2>1, <2>2, <2>3 DEF ReferencesHold
<1>2. QuarantineKeepsOut
  BY DEF Init, StoreInit, QuarantineKeepsOut, Stored
<1>3. JobsOwned
  BY DEF Init, JobsOwned
<1> QED BY <1>1, <1>2, <1>3, TypeInit DEF OwnInv

\* The invariant for any number of writers is inductive.
LEMMA OwnStep == OwnInv /\ [Next]_vars => OwnInv'
BY TypeStep, OwnedStep, ReferencesStep, QuarantineStep DEF OwnInv

\* The invariant for any number of writers holds.
LEMMA Ownership == Spec => []OwnInv
BY OwnInit, OwnStep, PTL DEF Spec

\* Whatever the ledger, the observations and the corrections name is a stored
\* record: with any number of writers, at every interruption, and with ledger
\* lines torn or not.
THEOREM ReferencesAlwaysHold == Spec => []ReferencesHold
<1>1. OwnInv => ReferencesHold
  BY DEF OwnInv
<1> QED BY Ownership, <1>1, PTL

\* No event the screening refuses becomes a record or is answered as one, with
\* any number of writers and whatever events share an identity.
THEOREM QuarantineAlwaysKeepsOut == Spec => []QuarantineKeepsOut
<1>1. OwnInv => QuarantineKeepsOut
  BY DEF OwnInv
<1> QED BY Ownership, <1>1, PTL

-----------------------------------------------------------------------------
(***************************************************************************)
(* What a delivery files stays filed, whoever else is at work.             *)
(***************************************************************************)

\* A document or a set of rows may be replaced by another, and is never removed.
LEMMA FilesStay ==
  ASSUME TypeInv, [Next]_vars
  PROVE  Projected \subseteq Projected' /\ Quarantined \subseteq Quarantined'
<1>a. StoreTypeOK /\ JobsTyped
  BY DEF TypeInv, TypeOK
<1>1. ASSUME NEW w \in Writers, At(w, "replace_observations")
      PROVE  job[w].event.rows # Absent
  BY <1>1, <1>a DEF At, JobsTyped, JobTyped
<1>2. Projected \subseteq Projected'
  BY <1>a, <1>1, ObservationsChange DEF StoreTypeOK, Projected
<1>3. \/ UNCHANGED quarantine
      \/ \E w \in Writers : ReplaceQuarantine(w)
  BY StoreSteps
  DEF ReplaceRecord, ReplaceIndex, ReplaceObservations, AppendLedger,
      ReplaceCorrection, Interrupt
<1>4. ASSUME NEW w \in Writers, ReplaceQuarantine(w)
      PROVE  Quarantined \subseteq Quarantined'
  <2>1. job[w].observed_at # Absent
    BY <1>4, EventTyped, AbsentIsNoDocument DEF ReplaceQuarantine, At
  <2> QED BY <1>4, <1>a, <2>1 DEF ReplaceQuarantine, StoreTypeOK, Quarantined
<1> QED BY <1>2, <1>3, <1>4 DEF Quarantined

LEMMA FiledReplaced ==
  ASSUME TypeInv, JobsFiled, [Next]_vars,
         NEW w \in Writers, NEW j, j # Idle => JobFiled(j, Projected', Quarantined'),
         job' = [job EXCEPT ![w] = j]
  PROVE  JobsFiled'
BY FilesStay DEF JobsFiled, JobFiled, TypeInv, JobsTyped

LEMMA FiledStop ==
  ASSUME TypeInv, JobsFiled, [Next]_vars,
         NEW w \in Writers, job' = [job EXCEPT ![w] = Idle]
  PROVE  JobsFiled'
BY FiledReplaced

\* Steps to one at which nothing is filed yet, or nothing more than was.
LEMMA FiledGoto ==
  ASSUME TypeInv, JobsFiled, [Next]_vars,
         NEW w \in Writers, job[w] # Idle,
         NEW step \in Steps, Goto(w, step),
         step \in QuarantineSteps => job[w].step \in QuarantineSteps,
         step \in AfterEntrySteps \cup {"append_ledger"} =>
           \/ job[w].step \in AfterEntrySteps \cup {"append_ledger"}
           \/ /\ job[w].disposition = "quarantined"
              /\ job[w].event \in Quarantined'
           \/ /\ job[w].disposition # "quarantined"
              /\ job[w].event.rows = Absent \/ RecordId(job[w].event) \in Projected'
  PROVE  JobsFiled'
<1> DEFINE j == [job[w] EXCEPT !.step = step]
<1>1. job[w] \in Jobs /\ JobFiled(job[w], Projected, Quarantined)
  BY EventTyped DEF JobsFiled
<1>2. j.step = step /\ j.disposition = job[w].disposition /\ j.event = job[w].event
  BY <1>1 DEF Jobs
<1> HIDE DEF j
<1>3. JobFiled(j, Projected', Quarantined')
  BY <1>1, <1>2, FilesStay DEF JobFiled
<1> QED BY <1>3, FiledReplaced DEF Goto, j

\* Each delivery goes on to its ledger entry once its files are there.
LEMMA FiledStep ==
  ASSUME TypeInv, JobsOwned, JobsFiled, [Next]_vars
  PROVE  JobsFiled'
<1> USE DEF Steps, QuarantineSteps, AfterEntrySteps, CorrectionSteps
<1>a. ASSUME NEW w \in Writers, job[w] # Idle
      PROVE  /\ job[w] \in Jobs
             /\ RecordId(job[w].event) \in RecordIds
             /\ JobFiled(job[w], Projected, Quarantined)
             /\ JobFiled(job[w], Projected', Quarantined')
             /\ job[w].step \in AdmissionSteps => job[w].disposition # "quarantined"
  BY <1>a, EventTyped, FilesStay DEF JobsFiled, JobFiled, JobsOwned, JobOwned
<1>1. ASSUME NEW w \in Writers, NEW e \in Events, NEW operation \in Operations,
             Deliver(w, e, operation)
      PROVE  JobsFiled'
  <2> DEFINE j == [step |-> IF e.clean THEN "read_record" ELSE "write_quarantine",
                   event |-> e, operation |-> operation,
                   observed_at |-> clock, sequence |-> NextSequence,
                   disposition |-> IF e.clean THEN "accepted" ELSE "quarantined",
                   index |-> {}, targets |-> {}, target |-> Absent,
                   issued_at |-> 0]
  <2>1. JobFiled(j, Projected', Quarantined')
    BY DEF JobFiled
  <2> QED BY <1>1, <2>1, FiledReplaced DEF Deliver
<1>2. ASSUME NEW w \in Writers, ReadRecord(w)
      PROVE  JobsFiled'
  <2> DEFINE d(disposition, step) ==
               [[job[w] EXCEPT !.step = step] EXCEPT !.disposition = disposition]
  <2>1. job[w] # Idle
    BY <1>2 DEF ReadRecord, At
  <2>2. CASE Goto(w, "write_record")
    BY <2>1, <2>2, FiledGoto
  <2>3. JobFiled(d("duplicate", "project_learning"), Projected', Quarantined')
    BY <1>a, <2>1 DEF JobFiled, Jobs
  <2>4. JobFiled(d("quarantined", "write_quarantine"), Projected', Quarantined')
    BY <1>a, <2>1 DEF JobFiled, Jobs
  <2>5. \/ Goto(w, "write_record")
        \/ job' = [job EXCEPT ![w] = d("duplicate", "project_learning")]
        \/ job' = [job EXCEPT ![w] = d("quarantined", "write_quarantine")]
    BY <1>2 DEF ReadRecord
  <2> HIDE DEF d
  <2> QED BY <2>2, <2>3, <2>4, <2>5, FiledReplaced
<1>3. ASSUME NEW w \in Writers, WriteRecord(w) \/ ReplaceRecord(w)
      PROVE  JobsFiled'
  <2>1. /\ job[w] # Idle
        /\ (\E step \in {"replace_record", "read_index"} : Goto(w, step)) \/ Collide(w)
    BY <1>3 DEF WriteRecord, ReplaceRecord, At, WriteOnce
  <2> QED BY <2>1, FiledGoto, FiledStop DEF Collide
<1>4. ASSUME NEW w \in Writers, ReadIndex(w)
      PROVE  JobsFiled'
  <2> DEFINE j == [[job[w] EXCEPT !.step = "replace_index"] EXCEPT !.index = index]
  <2>1. job[w] # Idle
    BY <1>4 DEF ReadIndex, At
  <2>2. JobFiled(j, Projected', Quarantined')
    BY <1>a, <2>1 DEF JobFiled, Jobs
  <2>3. Goto(w, "project_learning") \/ job' = [job EXCEPT ![w] = j]
    BY <1>4 DEF ReadIndex
  <2> HIDE DEF j
  <2> QED BY <2>1, <2>2, <2>3, FiledGoto, FiledReplaced
<1>5. ASSUME NEW w \in Writers, ReplaceIndex(w)
      PROVE  JobsFiled'
  <2> DEFINE j == [[job[w] EXCEPT !.step = "project_learning"] EXCEPT !.index = {}]
  <2>1. job[w] # Idle
    BY <1>5 DEF ReplaceIndex, At
  <2>2. JobFiled(j, Projected', Quarantined')
    BY <1>a, <2>1 DEF JobFiled, Jobs
  <2> QED BY <1>5, <2>2, FiledReplaced DEF ReplaceIndex
<1>6. ASSUME NEW w \in Writers, ProjectLearning(w) \/ WriteObservations(w)
      PROVE  JobsFiled'
  <2> DEFINE e == job[w].event
  <2>1. /\ job[w] # Idle
        /\ job[w].step \in {"project_learning", "write_observations"}
    BY <1>6 DEF ProjectLearning, WriteObservations, At
  <2>2. job[w].disposition # "quarantined"
    BY <1>a, <2>1 DEF AdmissionSteps
  <2>3. CASE Goto(w, "write_observations") \/ Goto(w, "replace_observations")
    BY <2>1, <2>3, FiledGoto
  <2>4. CASE Collide(w)
    BY <2>4, FiledStop DEF Collide
  <2>5. CASE /\ Goto(w, "append_ledger")
             /\ e.rows = Absent \/ observations[RecordId(e)] # Absent
    <3>1. e.rows = Absent \/ RecordId(e) \in Projected'
      BY <1>a, <2>1, <2>5, FilesStay DEF Projected
    <3> QED BY <2>1, <2>2, <2>5, <3>1, FiledGoto
  <2>6. \/ Goto(w, "write_observations")
        \/ Goto(w, "replace_observations")
        \/ Collide(w)
        \/ /\ Goto(w, "append_ledger")
           /\ e.rows = Absent \/ observations[RecordId(e)] # Absent
    BY <1>6 DEF ProjectLearning, WriteObservations, WriteOnce
  <2> QED BY <2>3, <2>4, <2>5, <2>6
<1>7. ASSUME NEW w \in Writers, ReplaceObservations(w)
      PROVE  JobsFiled'
  <2>1. job[w] # Idle /\ job[w].step = "replace_observations"
    BY <1>7 DEF ReplaceObservations, At
  <2>2. job[w].disposition # "quarantined" /\ job[w].event.rows # Absent
    BY <1>a, <2>1 DEF AdmissionSteps, TypeInv, JobsTyped, JobTyped
  <2>3. RecordId(job[w].event) \in Projected'
    BY <1>7, <1>a, <2>1, <2>2
    DEF ReplaceObservations, Projected, TypeInv, TypeOK, StoreTypeOK
  <2> QED BY <1>7, <2>1, <2>2, <2>3, FiledGoto DEF ReplaceObservations
<1>8. ASSUME NEW w \in Writers, WriteQuarantine(w)
      PROVE  JobsFiled'
  <2>1. job[w] # Idle /\ job[w].step = "write_quarantine"
    BY <1>8 DEF WriteQuarantine, At
  <2>2. /\ job[w].disposition = "quarantined"
        /\ job[w].event \in Events /\ job[w].observed_at # Absent
    BY <1>a, <2>1, EventTyped, AbsentIsNoDocument DEF JobFiled
  <2>3. CASE Goto(w, "replace_quarantine")
    BY <2>1, <2>3, FiledGoto
  <2>4. CASE /\ Goto(w, "append_ledger")
             /\ quarantine[job[w].event] = job[w].observed_at
    <3>1. job[w].event \in Quarantined'
      BY <2>2, <2>4, FilesStay DEF Quarantined
    <3> QED BY <2>1, <2>2, <2>4, <3>1, FiledGoto
  <2>5. CASE Collide(w)
    BY <2>5, FiledStop DEF Collide
  <2> QED BY <1>8, <2>3, <2>4, <2>5 DEF WriteQuarantine, WriteOnce
<1>9. ASSUME NEW w \in Writers, ReplaceQuarantine(w)
      PROVE  JobsFiled'
  <2>1. job[w] # Idle /\ job[w].step = "replace_quarantine"
    BY <1>9 DEF ReplaceQuarantine, At
  <2>2. /\ job[w].disposition = "quarantined"
        /\ job[w].event \in Events /\ job[w].observed_at # Absent
    BY <1>a, <2>1, EventTyped, AbsentIsNoDocument DEF JobFiled
  <2>3. job[w].event \in Quarantined'
    BY <1>9, <2>2 DEF ReplaceQuarantine, Quarantined, TypeInv, TypeOK, StoreTypeOK
  <2> QED BY <1>9, <2>1, <2>2, <2>3, FiledGoto DEF ReplaceQuarantine
<1>10. ASSUME NEW w \in Writers, AppendLedger(w) \/ CorrectionsDone(w)
       PROVE  JobsFiled'
  <2>1. /\ job[w] # Idle
        /\ job[w].step \in {"append_ledger", "write_correction"}
        /\ \E step \in {"find_claims", "reply"} : Goto(w, step)
    BY <1>10 DEF AppendLedger, CorrectionsDone, At
  <2> QED BY <2>1, FiledGoto
<1>11. ASSUME NEW w \in Writers, FindClaims(w)
       PROVE  JobsFiled'
  <2> DEFINE j == [[job[w] EXCEPT !.step = "find_predecessors"]
                    EXCEPT !.targets = HistoricalClaims(job[w].event)]
  <2>1. job[w] # Idle /\ job[w].step = "find_claims"
    BY <1>11 DEF FindClaims, At
  <2>2. JobFiled(j, Projected', Quarantined')
    BY <1>a, <2>1 DEF JobFiled, Jobs
  <2> QED BY <1>11, <2>2, FiledReplaced DEF FindClaims
<1>12. ASSUME NEW w \in Writers, FindPredecessors(w)
       PROVE  JobsFiled'
  <2> DEFINE live == {r \in job[w].targets : ~Corrected(r)}
             j == [[[job[w] EXCEPT !.step = "write_correction"]
                    EXCEPT !.targets = live] EXCEPT !.issued_at = clock]
  <2>1. job[w] # Idle /\ job[w].step = "find_predecessors"
    BY <1>12 DEF FindPredecessors, At
  <2>2. JobFiled(j, Projected', Quarantined')
    <3> HIDE DEF live
    <3> QED BY <1>a, <2>1 DEF JobFiled, Jobs
  <2>3. job' = [job EXCEPT ![w] = j]
    BY <1>12 DEF FindPredecessors
  <2> HIDE DEF j
  <2> QED BY <2>2, <2>3, FiledReplaced
<1>13. ASSUME NEW w \in Writers, WriteCorrection(w)
       PROVE  JobsFiled'
  <2>1. job[w] # Idle /\ job[w].step = "write_correction"
    BY <1>13 DEF WriteCorrection, At
  <2>2. PICK t \in job[w].targets :
          \/ job' = [job EXCEPT ![w] =
                [[job[w] EXCEPT !.step = "replace_correction"] EXCEPT !.target = t]]
          \/ job' = [job EXCEPT ![w] =
                [job[w] EXCEPT !.targets = job[w].targets \ {t}]]
          \/ Collide(w)
    BY <1>13 DEF WriteCorrection
  <2>3. JobFiled([[job[w] EXCEPT !.step = "replace_correction"] EXCEPT !.target = t],
                 Projected', Quarantined')
    BY <1>a, <2>1 DEF JobFiled, Jobs
  <2>4. JobFiled([job[w] EXCEPT !.targets = job[w].targets \ {t}],
                 Projected', Quarantined')
    BY <1>a, <2>1 DEF JobFiled, Jobs
  <2> QED BY <2>2, <2>3, <2>4, FiledReplaced, FiledStop DEF Collide
<1>14. ASSUME NEW w \in Writers, ReplaceCorrection(w)
       PROVE  JobsFiled'
  <2> DEFINE j == [[[job[w] EXCEPT !.step = "write_correction"]
                    EXCEPT !.targets = job[w].targets \ {job[w].target}]
                   EXCEPT !.target = Absent]
  <2>1. job[w] # Idle /\ job[w].step = "replace_correction"
    BY <1>14 DEF ReplaceCorrection, At
  <2>2. JobFiled(j, Projected', Quarantined')
    BY <1>a, <2>1 DEF JobFiled, Jobs
  <2>3. job' = [job EXCEPT ![w] = j]
    BY <1>14 DEF ReplaceCorrection
  <2> HIDE DEF j
  <2> QED BY <2>2, <2>3, FiledReplaced
<1>15. ASSUME NEW w \in Writers, Reply(w) \/ Interrupt(w)
       PROVE  JobsFiled'
  BY <1>15, FiledStop DEF Reply, Interrupt
<1>16. CASE Tick \/ UNCHANGED vars
  BY <1>16, FilesStay DEF Tick, vars, JobsFiled, JobFiled
<1> QED
  BY ONLY <1>1, <1>2, <1>3, <1>4, <1>5, <1>6, <1>7, <1>8, <1>9, <1>10, <1>11,
          <1>12, <1>13, <1>14, <1>15, <1>16, [Next]_vars DEF Next, Progress

\* Without a collision of digests, what is stored under the identity of an
\* event has its payload, whichever delivery wrote the file last.
LEMMA AnswersStoredKept ==
  ASSUME DigestsDiffer, FiledInv, [Next]_vars
  PROVE  AnswersStored'
<1>1. OwnInv /\ OwnInv' /\ JobsFiled /\ AnswersStored
  BY OwnStep DEF FiledInv
<1>2. /\ Admitted \subseteq Admitted'
      /\ Projected \subseteq Projected'
      /\ Quarantined \subseteq Quarantined'
  BY <1>1, AdmittedGrows, FilesStay DEF OwnInv
<1>3. ASSUME NEW e \in Events, RecordId(e) \in Admitted'
      PROVE  records'[RecordId(e)].content_hash = e.payload
  <2>1. PICK d \in Events : /\ RecordId(d) = RecordId(e)
                            /\ records'[RecordId(e)] = RecordDocument(d)
    BY <1>1, <1>3 DEF OwnInv, QuarantineKeepsOut, Admitted, RecordIds
  <2> QED BY <2>1 DEF DigestsDiffer, RecordDocument
<1>4. ASSUME NEW e \in Events, NEW d \in {"accepted", "duplicate"}, <<e, d>> \in answers'
      PROVE  /\ RecordId(e) \in Admitted'
             /\ e.rows # Absent => RecordId(e) \in Projected'
  <2>1. CASE <<e, d>> \in answers
    BY <1>1, <1>2, <2>1 DEF AnswersStored, Admitted, Projected, RecordIds
  <2>2. ASSUME NEW w \in Writers, Reply(w), e = job[w].event, d = job[w].disposition
        PROVE  /\ RecordId(e) \in Admitted'
               /\ e.rows # Absent => RecordId(e) \in Projected'
    <3>1. /\ job[w].step = "reply"
          /\ JobOwned(job[w], Admitted)
          /\ JobFiled(job[w], Projected, Quarantined)
      BY <1>1, <2>2 DEF Reply, At, OwnInv, JobsOwned, JobsFiled
    <3> QED BY <1>2, <2>2, <3>1 DEF JobOwned, JobFiled, RecordSteps, AfterEntrySteps
  <2> QED BY <1>4, <2>1, <2>2, AnswersChange DEF Reply, Refused, Collide
<1>5. ASSUME NEW e \in Events, <<e, "quarantined">> \in answers'
      PROVE  e \in Quarantined'
  <2>1. CASE <<e, "quarantined">> \in answers
    BY <1>1, <1>2, <2>1 DEF AnswersStored, Quarantined
  <2>2. ASSUME NEW w \in Writers, Reply(w), e = job[w].event,
               job[w].disposition = "quarantined"
        PROVE  e \in Quarantined'
    <3>1. job[w].step = "reply" /\ JobFiled(job[w], Projected, Quarantined)
      BY <1>1, <2>2 DEF Reply, At, JobsFiled
    <3> QED BY <1>2, <2>2, <3>1 DEF JobFiled, AfterEntrySteps
  <2> QED BY <1>5, <2>1, <2>2, AnswersChange DEF Reply, Refused, Collide
<1> QED BY <1>3, <1>4, <1>5 DEF AnswersStored, Admitted, Projected, Quarantined, Stored

\* With any number of writers and interrupted anywhere, also inside a ledger
\* append, the service answers for what it stored, unless digests collide.
THEOREM WritersAnswerForTheStore ==
  ASSUME DigestsDiffer
  PROVE  Spec => []AnswersStored
<1>1. Init => FiledInv
  BY OwnInit DEF Init, FiledInv, JobsFiled, AnswersStored
<1>2. FiledInv /\ [Next]_vars => FiledInv'
  BY OwnStep, FiledStep, AnswersStoredKept DEF FiledInv, OwnInv
<1>3. FiledInv => AnswersStored
  BY DEF FiledInv
<1> QED BY <1>1, <1>2, <1>3, PTL DEF Spec

-----------------------------------------------------------------------------
(***************************************************************************)
(* Whole ledger appends: what was journalled stays journalled.             *)
(***************************************************************************)

\* The only change of the ledger is one whole line at its end.
LEMMA WholeLine ==
  ASSUME ~TornAppends, terminated, [Next]_vars
  PROVE  \/ UNCHANGED <<ledger, terminated>>
         \/ \E w \in Writers :
              /\ AppendLedger(w)
              /\ ledger' = Append(ledger, Entry(w))
              /\ terminated' = TRUE
<1>1. ASSUME NEW w \in Writers, Interrupt(w)
      PROVE  UNCHANGED <<ledger, terminated>>
  BY <1>1 DEF Interrupt
<1>2. ASSUME NEW w \in Writers, AppendLedger(w)
      PROVE  ledger' = Append(ledger, Entry(w)) /\ terminated' = TRUE
  BY <1>2 DEF AppendLedger, AppendLine, Extend
<1> QED
  BY <1>1, <1>2, StoreSteps
  DEF ReplaceRecord, ReplaceIndex, ReplaceObservations, ReplaceQuarantine,
      ReplaceCorrection

\* Lines stay, and the line a delivery appends is its own.
LEMMA JournalGrows ==
  ASSUME ~TornAppends, terminated, TypeInv, [Next]_vars
  PROVE  /\ terminated'
         /\ Journal \subseteq Journal'
         /\ \A w \in Writers : AppendLedger(w) =>
              <<job[w].event, job[w].disposition>> \in Journal'
<1> DEFINE S == LedgerEntries \cup {Torn}
<1>1. ledger \in Seq(S)
  BY DEF TypeInv, TypeOK, StoreTypeOK
<1>2. ASSUME NEW w \in Writers, AppendLedger(w), ledger' = Append(ledger, Entry(w))
      PROVE  /\ Journal \subseteq Journal'
             /\ <<job[w].event, job[w].disposition>> \in Journal'
  <2>1. Entry(w) \in LedgerEntries /\ Entry(w) # Torn
    BY <1>2, EventTyped, TornIsNoEntry DEF AppendLedger, At
  <2>2. /\ ledger' \in Seq(S)
        /\ Len(ledger') = Len(ledger) + 1
        /\ \A i \in 1 .. Len(ledger) : ledger'[i] = ledger[i]
        /\ ledger'[Len(ledger) + 1] = Entry(w)
    BY <1>1, <1>2, <2>1, AppendProperties
  <2>3. /\ DOMAIN ledger = 1 .. Len(ledger)
        /\ DOMAIN ledger' = 1 .. Len(ledger) + 1
        /\ Len(ledger) \in Nat
    BY <1>1, <2>2, LenProperties
  <2>4. Journal \subseteq Journal'
    BY <2>2, <2>3 DEF Journal
  <2>5. /\ Entry(w).event = job[w].event
        /\ Entry(w).disposition = job[w].disposition
    BY DEF Entry
  <2>6. <<Entry(w).event, Entry(w).disposition>> \in Journal'
    BY <2>1, <2>2, <2>3 DEF Journal
  <2> QED BY <2>4, <2>5, <2>6
<1>3. ASSUME NEW w \in Writers, AppendLedger(w)
      PROVE  ledger' = Append(ledger, Entry(w))
  BY <1>3 DEF AppendLedger, AppendLine, Extend
<1> QED BY <1>2, <1>3, WholeLine DEF Journal

LEMMA JournalledReplaced ==
  ASSUME TypeInv, JobsJournalled, Journal \subseteq Journal',
         NEW w \in Writers, NEW j, j # Idle => JobJournalled(j, Journal'),
         job' = [job EXCEPT ![w] = j]
  PROVE  JobsJournalled'
BY DEF JobsJournalled, JobJournalled, TypeInv, JobsTyped

\* Steps to one before the ledger entry, or after an entry that is there.
LEMMA JournalledGoto ==
  ASSUME TypeInv, JobsJournalled, Journal \subseteq Journal',
         NEW w \in Writers, job[w] # Idle,
         NEW step \in Steps, Goto(w, step),
         step \in AfterEntrySteps =>
           \/ job[w].step \in AfterEntrySteps
           \/ <<job[w].event, job[w].disposition>> \in Journal'
  PROVE  JobsJournalled'
<1> DEFINE j == [job[w] EXCEPT !.step = step]
<1>1. job[w] \in Jobs /\ JobJournalled(job[w], Journal)
  BY EventTyped DEF JobsJournalled
<1>2. j.step = step /\ j.disposition = job[w].disposition /\ j.event = job[w].event
  BY <1>1 DEF Jobs
<1> HIDE DEF j
<1>3. JobJournalled(j, Journal')
  BY <1>1, <1>2 DEF JobJournalled
<1> QED BY <1>3, JournalledReplaced DEF Goto, j

\* Each delivery has its ledger entry behind it when it goes on to correct
\* earlier claims or to answer.
LEMMA JournalledStep ==
  ASSUME ~TornAppends, terminated, TypeInv, JobsJournalled, [Next]_vars
  PROVE  JobsJournalled'
<1> USE DEF Steps, AfterEntrySteps, CorrectionSteps
<1>a. Journal \subseteq Journal'
  BY JournalGrows
<1>b. ASSUME NEW w \in Writers, job[w] # Idle
      PROVE  job[w] \in Jobs /\ JobJournalled(job[w], Journal')
  BY <1>a, <1>b, EventTyped DEF JobsJournalled, JobJournalled
<1>c. ASSUME NEW w \in Writers, job' = [job EXCEPT ![w] = Idle]
      PROVE  JobsJournalled'
  BY <1>a, <1>c, JournalledReplaced
<1>1. ASSUME NEW w \in Writers, NEW e \in Events, NEW operation \in Operations,
             Deliver(w, e, operation)
      PROVE  JobsJournalled'
  <2> DEFINE j == [step |-> IF e.clean THEN "read_record" ELSE "write_quarantine",
                   event |-> e, operation |-> operation,
                   observed_at |-> clock, sequence |-> NextSequence,
                   disposition |-> IF e.clean THEN "accepted" ELSE "quarantined",
                   index |-> {}, targets |-> {}, target |-> Absent,
                   issued_at |-> 0]
  <2>1. JobJournalled(j, Journal')
    BY DEF JobJournalled
  <2> QED BY <1>1, <1>a, <2>1, JournalledReplaced DEF Deliver
<1>2. ASSUME NEW w \in Writers, ReadRecord(w)
      PROVE  JobsJournalled'
  <2> DEFINE d(disposition, step) ==
               [[job[w] EXCEPT !.step = step] EXCEPT !.disposition = disposition]
  <2>1. job[w] # Idle
    BY <1>2 DEF ReadRecord, At
  <2>2. CASE Goto(w, "write_record")
    BY <1>a, <2>1, <2>2, JournalledGoto
  <2>3. JobJournalled(d("duplicate", "project_learning"), Journal')
    BY <1>b, <2>1 DEF JobJournalled, Jobs
  <2>4. JobJournalled(d("quarantined", "write_quarantine"), Journal')
    BY <1>b, <2>1 DEF JobJournalled, Jobs
  <2>5. \/ Goto(w, "write_record")
        \/ job' = [job EXCEPT ![w] = d("duplicate", "project_learning")]
        \/ job' = [job EXCEPT ![w] = d("quarantined", "write_quarantine")]
    BY <1>2 DEF ReadRecord
  <2> HIDE DEF d
  <2> QED BY <1>a, <2>2, <2>3, <2>4, <2>5, JournalledReplaced
<1>3. ASSUME NEW w \in Writers,
             \/ WriteRecord(w) \/ ReplaceRecord(w)
             \/ ProjectLearning(w) \/ WriteObservations(w) \/ ReplaceObservations(w)
             \/ WriteQuarantine(w) \/ ReplaceQuarantine(w)
      PROVE  JobsJournalled'
  <2>1. /\ job[w] # Idle
        /\ \/ \E step \in {"replace_record", "read_index", "write_observations",
                           "replace_observations", "replace_quarantine",
                           "append_ledger"} : Goto(w, step)
           \/ Collide(w)
    BY <1>3 DEF WriteRecord, ReplaceRecord, ProjectLearning, WriteObservations,
                ReplaceObservations, WriteQuarantine, ReplaceQuarantine, At, WriteOnce
  <2> QED BY <1>a, <1>c, <2>1, JournalledGoto DEF Collide
<1>4. ASSUME NEW w \in Writers, ReadIndex(w)
      PROVE  JobsJournalled'
  <2> DEFINE j == [[job[w] EXCEPT !.step = "replace_index"] EXCEPT !.index = index]
  <2>1. job[w] # Idle
    BY <1>4 DEF ReadIndex, At
  <2>2. JobJournalled(j, Journal')
    BY <1>b, <2>1 DEF JobJournalled, Jobs
  <2>3. Goto(w, "project_learning") \/ job' = [job EXCEPT ![w] = j]
    BY <1>4 DEF ReadIndex
  <2> HIDE DEF j
  <2> QED BY <1>a, <2>1, <2>2, <2>3, JournalledGoto, JournalledReplaced
<1>5. ASSUME NEW w \in Writers, ReplaceIndex(w)
      PROVE  JobsJournalled'
  <2> DEFINE j == [[job[w] EXCEPT !.step = "project_learning"] EXCEPT !.index = {}]
  <2>1. job[w] # Idle
    BY <1>5 DEF ReplaceIndex, At
  <2>2. JobJournalled(j, Journal')
    BY <1>b, <2>1 DEF JobJournalled, Jobs
  <2> QED BY <1>5, <1>a, <2>2, JournalledReplaced DEF ReplaceIndex
<1>6. ASSUME NEW w \in Writers, AppendLedger(w)
      PROVE  JobsJournalled'
  <2>1. /\ job[w] # Idle
        /\ \E step \in {"find_claims", "reply"} : Goto(w, step)
    BY <1>6 DEF AppendLedger, At
  <2>2. <<job[w].event, job[w].disposition>> \in Journal'
    BY <1>6, JournalGrows
  <2> QED BY <1>a, <2>1, <2>2, JournalledGoto
<1>7. ASSUME NEW w \in Writers, CorrectionsDone(w)
      PROVE  JobsJournalled'
  BY <1>7, <1>a, JournalledGoto DEF CorrectionsDone, At
<1>8. ASSUME NEW w \in Writers, FindClaims(w)
      PROVE  JobsJournalled'
  <2> DEFINE j == [[job[w] EXCEPT !.step = "find_predecessors"]
                    EXCEPT !.targets = HistoricalClaims(job[w].event)]
  <2>1. job[w] # Idle /\ job[w].step = "find_claims"
    BY <1>8 DEF FindClaims, At
  <2>2. JobJournalled(j, Journal')
    BY <1>b, <2>1 DEF JobJournalled, Jobs
  <2> QED BY <1>8, <1>a, <2>2, JournalledReplaced DEF FindClaims
<1>9. ASSUME NEW w \in Writers, FindPredecessors(w)
      PROVE  JobsJournalled'
  <2> DEFINE live == {r \in job[w].targets : ~Corrected(r)}
             j == [[[job[w] EXCEPT !.step = "write_correction"]
                    EXCEPT !.targets = live] EXCEPT !.issued_at = clock]
  <2>1. job[w] # Idle /\ job[w].step = "find_predecessors"
    BY <1>9 DEF FindPredecessors, At
  <2>2. JobJournalled(j, Journal')
    <3> HIDE DEF live
    <3> QED BY <1>b, <2>1 DEF JobJournalled, Jobs
  <2>3. job' = [job EXCEPT ![w] = j]
    BY <1>9 DEF FindPredecessors
  <2> HIDE DEF j
  <2> QED BY <1>a, <2>2, <2>3, JournalledReplaced
<1>10. ASSUME NEW w \in Writers, WriteCorrection(w)
       PROVE  JobsJournalled'
  <2>1. job[w] # Idle /\ job[w].step = "write_correction"
    BY <1>10 DEF WriteCorrection, At
  <2>2. PICK t \in job[w].targets :
          \/ job' = [job EXCEPT ![w] =
                [[job[w] EXCEPT !.step = "replace_correction"] EXCEPT !.target = t]]
          \/ job' = [job EXCEPT ![w] =
                [job[w] EXCEPT !.targets = job[w].targets \ {t}]]
          \/ Collide(w)
    BY <1>10 DEF WriteCorrection
  <2>3. JobJournalled([[job[w] EXCEPT !.step = "replace_correction"] EXCEPT !.target = t],
                      Journal')
    BY <1>b, <2>1 DEF JobJournalled, Jobs
  <2>4. JobJournalled([job[w] EXCEPT !.targets = job[w].targets \ {t}], Journal')
    BY <1>b, <2>1 DEF JobJournalled, Jobs
  <2> QED BY <1>a, <1>c, <2>2, <2>3, <2>4, JournalledReplaced DEF Collide
<1>11. ASSUME NEW w \in Writers, ReplaceCorrection(w)
       PROVE  JobsJournalled'
  <2> DEFINE j == [[[job[w] EXCEPT !.step = "write_correction"]
                    EXCEPT !.targets = job[w].targets \ {job[w].target}]
                   EXCEPT !.target = Absent]
  <2>1. job[w] # Idle /\ job[w].step = "replace_correction"
    BY <1>11 DEF ReplaceCorrection, At
  <2>2. JobJournalled(j, Journal')
    BY <1>b, <2>1 DEF JobJournalled, Jobs
  <2>3. job' = [job EXCEPT ![w] = j]
    BY <1>11 DEF ReplaceCorrection
  <2> HIDE DEF j
  <2> QED BY <1>a, <2>2, <2>3, JournalledReplaced
<1>12. ASSUME NEW w \in Writers, Reply(w) \/ Interrupt(w)
       PROVE  JobsJournalled'
  BY <1>12, <1>c DEF Reply, Interrupt
<1>13. CASE Tick \/ UNCHANGED vars
  BY <1>13, <1>a DEF Tick, vars, JobsJournalled, JobJournalled
<1> QED
  BY ONLY <1>1, <1>2, <1>3, <1>4, <1>5, <1>6, <1>7, <1>8, <1>9, <1>10, <1>11,
          <1>12, <1>13, [Next]_vars DEF Next, Progress

\* An answer finds the ledger line of its delivery.
LEMMA AnswersJournalledKept ==
  ASSUME ~TornAppends, JournalInv, [Next]_vars
  PROVE  AnswersJournalled'
<1>1. terminated /\ TypeInv /\ JobsJournalled /\ AnswersJournalled
  BY DEF JournalInv
<1>2. Journal \subseteq Journal'
  BY <1>1, JournalGrows
<1>3. ASSUME NEW e \in Events, NEW d \in Dispositions, <<e, d>> \in answers'
      PROVE  <<e, d>> \in Journal'
  <2>1. CASE <<e, d>> \in answers
    BY <1>1, <1>2, <2>1 DEF AnswersJournalled, Journal
  <2>2. ASSUME NEW w \in Writers, Reply(w), e = job[w].event, d = job[w].disposition
        PROVE  <<e, d>> \in Journal'
    BY <1>1, <1>2, <2>2
    DEF Reply, At, JobsJournalled, JobJournalled, AfterEntrySteps
  <2>3. d # "collision"
    BY DEF Dispositions
  <2> QED BY <1>3, <2>1, <2>2, <2>3, AnswersChange DEF Reply, Refused, Collide
<1> QED BY <1>3 DEF AnswersJournalled, Journal

\* With any number of writers, interrupted anywhere but inside a ledger
\* append, whatever was answered is in the ledger, word for word.
THEOREM AnswersAlwaysJournalled ==
  ASSUME ~TornAppends
  PROVE  Spec => []AnswersJournalled
<1>1. Init => JournalInv
  BY TypeInit DEF Init, StoreInit, JournalInv, JobsJournalled, AnswersJournalled
<1>2. JournalInv /\ [Next]_vars => JournalInv'
  BY TypeStep, JournalGrows, JournalledStep, AnswersJournalledKept DEF JournalInv
<1>3. JournalInv => AnswersJournalled
  BY DEF JournalInv
<1> QED BY <1>1, <1>2, <1>3, PTL DEF Spec
=============================================================================
