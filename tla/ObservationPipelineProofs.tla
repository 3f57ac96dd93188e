---------------------- MODULE ObservationPipelineProofs ----------------------
(***************************************************************************)
(* Proofs about ObservationPipeline for every number of epochs, samples,   *)
(* retries and limits: type correctness, no imported sample is lost, one   *)
(* body per sample, the exact watermark, and its monotonicity.             *)
(***************************************************************************)
EXTENDS ObservationPipeline, FiniteSetTheorems, TLAPS

\* What the outbox, a run's batch and the record in hand have to do with each other.
InOutbox ==
    /\ outbox \subseteq imported /\ blocked \subseteq imported
    /\ batch \subseteq outbox
    /\ current # None => /\ current \in outbox /\ current \notin batch
                         /\ rpc \in {"rejected", "acked", "checkpointed"}

\* An acknowledged record is in the API's table before anything is removed.
AckedIsStored == rpc \in {"acked", "checkpointed"} => current \in api

Behind(b, checkpoint) ==
    checkpoint # None /\ b.sample.sequence <= checkpoint.sample.sequence

\* What has left the outbox is behind the durable checkpoint of its epoch.
GoneIsCheckpointed ==
    /\ \A b \in imported : b \in outbox \/ Behind(b, checkpoints[b.sample.epoch])
    /\ rpc = "checkpointed" => Behind(current, checkpoints[current.sample.epoch])

\* A run's own copy of the checkpoints is never behind the durable one.
MemoryAhead ==
    rpc # "idle" =>
        \A e \in Epochs : checkpoints[e] # None => Behind(checkpoints[e], memory[e])

Excluded(c) == \E q \in blocked : SameKey(q, c)

\* While a drain goes on, nothing that sorts before the batch waits outside it.
DrainOrder ==
    /\ (rpc = "drain" /\ ~reason) =>
          \A b \in batch, c \in outbox : Before(c, b) => c \in batch \/ Excluded(c)
    /\ rpc \in {"acked", "checkpointed"} =>
          /\ \A c \in outbox : Before(c, current) => Excluded(c)
          /\ \A b \in batch, c \in outbox :
                Before(c, b) => c \in batch \/ c = current \/ Excluded(c)

\* The watermark of the run's own copy is exact too.
MemoryIsExact ==
    rpc # "idle" =>
        \A b \in imported : Behind(b, memory[b.sample.epoch]) => b \in api \cup blocked

LossInv == InOutbox /\ AckedIsStored /\ NoImportedSampleLost

BodyInv == GoneIsCheckpointed /\ MemoryAhead /\ OneBodyPerSample

OrderInv == IsFiniteSet(outbox) /\ DrainOrder /\ MemoryIsExact /\ WatermarkIsExact

USE ConstantsAssumption, NoneAssumption

-----------------------------------------------------------------------------
\* Epochs and sequences are numbers.
LEMMA NumbersOfBody ==
    ASSUME NEW b \in Body
    PROVE  /\ b.sample \in Sample /\ b.sample.epoch \in Epochs /\ b.sample.epoch \in Nat
           /\ b.sample.sequence \in SequenceNumbers /\ b.sample.sequence \in Nat
<1>1. b.sample \in Sample
  BY DEF Body
<1>2. b.sample.epoch \in Epochs /\ b.sample.sequence \in SequenceNumbers
  BY <1>1 DEF Sample
<1>3. Epochs \subseteq Nat /\ MaxSequence \in Nat
  BY ConstantsAssumption DEF ConstantsAssumption
<1>4. \A n \in SequenceNumbers : n \in Nat
  BY <1>3 DEF SequenceNumbers
<1>5. QED
  BY <1>1, <1>2, <1>3, <1>4

\* The selection of a batch takes records of the outbox only.
LEMMA PendingSubset ==
    ASSUME NEW R PROVE Pending(R) \subseteq R
BY DEF Pending

\* A batch is a prefix: a record that sorts before a selected one is selected
\* too, or quarantined.
LEMMA PendingPrefix ==
    ASSUME NEW R \in SUBSET Body, IsFiniteSet(R),
           NEW b \in Pending(R), NEW c \in R, Before(c, b)
    PROVE  c \in Pending(R) \/ Excluded(c)
<1> DEFINE free == {x \in R : ~Excluded(x)}
           ahead(x) == {y \in free : Before(y, x)}
<1>1. SUFFICES ASSUME ~Excluded(c) PROVE c \in Pending(R)
  OBVIOUS
<1>2. /\ c \in free /\ b \in free /\ free \subseteq Body
      /\ Cardinality(ahead(b)) < MaxExports
  BY <1>1 DEF Pending, Excluded
<1>3. IsFiniteSet(ahead(b))
  BY FS_Subset
<1>4. ahead(c) \subseteq ahead(b)
  <2>1. \A x \in Body : x.sample.epoch \in Nat /\ x.sample.sequence \in Nat
    BY NumbersOfBody
  <2>2. ASSUME NEW y \in free, Before(y, c) PROVE Before(y, b)
    BY <1>2, <2>1, <2>2 DEF Before
  <2>3. QED
    BY <2>2
<1>5. /\ IsFiniteSet(ahead(c)) /\ Cardinality(ahead(c)) <= Cardinality(ahead(b))
  BY <1>3, <1>4, FS_Subset
<1>6. Cardinality(ahead(c)) \in Nat /\ Cardinality(ahead(b)) \in Nat
  BY <1>3, <1>5, FS_CardinalityType
<1>7. Cardinality(ahead(c)) < MaxExports
  BY <1>2, <1>5, <1>6
<1>8. QED
  BY <1>2, <1>7 DEF Pending, Excluded

\* The new table after an acknowledgement is a table again.
LEMMA AdvancedType ==
    ASSUME memory \in [Epochs -> Body \cup {None}], NEW b \in Body
    PROVE  Advanced(b) \in [Epochs -> Body \cup {None}]
BY DEF Advanced, Body, Sample

-----------------------------------------------------------------------------
\* The sampler touches nothing of the reporter's, and the other way round.
LEMMA ProducerFrame ==
    ProducerNext => UNCHANGED <<storeVars, runVars, api, imported>>
BY DEF ProducerNext, SampleFirst, SampleReserve, SamplePublish, SamplerCrash, ProducerReset,
       ProducerStateLost, ProducerRestored

LEMMA ReporterFrame ==
    ReporterNext => UNCHANGED producerVars
BY DEF ReporterNext, ReportBegin, PostAcknowledged, PostUnanswered, PostRejected, Quarantine,
       Checkpoint, CheckpointRefuses, CheckpointWriteFails, Unlink, Acquire, Fetch, FetchFails,
       ImportNothing, Import, SecondDrain, ReportEnd, ReporterCrash, ReporterCrashInPut,
       OperatorClears, ReporterStateLost

\* The Boolean parts of the state stay Boolean.
LEMMA FlagsStep ==
    ASSUME FlagsOK, Next PROVE FlagsOK'
<1> USE DEF FlagsOK, producerVars, storeVars, runVars
<1>1. CASE ProducerNext
  BY <1>1 DEF ProducerNext, SampleFirst, SampleReserve, SamplePublish, SamplerCrash,
              ProducerReset, ProducerStateLost, ProducerRestored
<1>2. ASSUME NEW b \in batch, PostAcknowledged(b) \/ PostUnanswered(b) \/ PostRejected(b)
      PROVE  FlagsOK'
  BY <1>2 DEF PostAcknowledged, PostUnanswered, PostRejected
<1>3. CASE Quarantine \/ Checkpoint \/ CheckpointRefuses \/ CheckpointWriteFails \/ Unlink
  BY <1>3 DEF Quarantine, Checkpoint, CheckpointRefuses, CheckpointWriteFails, Unlink
<1>4. CASE ReportBegin \/ Acquire \/ Fetch \/ FetchFails \/ ReportEnd
  BY <1>4 DEF ReportBegin, Acquire, Fetch, FetchFails, ReportEnd, Stop
<1>5. CASE ImportNothing
  BY <1>5 DEF ImportNothing, SecondDrain
<1>6. ASSUME NEW t \in ReceiveTimes, Import(t) PROVE FlagsOK'
  BY <1>6 DEF Import, SecondDrain
<1>7. ASSUME NEW t \in ReceiveTimes, ReporterCrashInPut(t) PROVE FlagsOK'
  BY <1>7 DEF ReporterCrashInPut, Stop
<1>8. CASE ReporterCrash \/ OperatorClears \/ ReporterStateLost
  BY <1>8 DEF ReporterCrash, Stop, OperatorClears, ReporterStateLost
<1>9. QED
  BY <1>1, <1>2, <1>3, <1>4, <1>5, <1>6, <1>7, <1>8 DEF Next, ReporterNext

LEMMA ProducerTypeStep ==
    ASSUME ProducerTypeOK, ProducerNext PROVE ProducerTypeOK'
<1> USE DEF ProducerTypeOK
<1>1. ASSUME NEW e \in Epochs, NEW m \in Minutes, SampleFirst(e, m) PROVE ProducerTypeOK'
  BY <1>1 DEF SampleFirst, ProducerState, SequenceNumbers
<1>2. ASSUME NEW m \in Minutes, SampleReserve(m) PROVE ProducerTypeOK'
  <2>1. pstate' \in ProducerState
    <3>1. pstate \in ProducerState
      BY <1>2 DEF SampleReserve
    <3>2. pstate.lastSequence + 1 \in SequenceNumbers
      BY <1>2, <3>1 DEF SampleReserve, ProducerState, SequenceNumbers
    <3>3. QED
      BY <1>2, <3>1, <3>2 DEF SampleReserve, ProducerState
  <2>2. QED
    BY <1>2, <2>1 DEF SampleReserve
<1>3. ASSUME NEW o \in Outcomes, SamplePublish(o) PROVE ProducerTypeOK'
  <2>1. latest' \in Sample /\ published' = published \cup {latest'}
    BY <1>3 DEF SamplePublish, ProducerState, Sample
  <2>2. QED
    BY <1>3, <2>1 DEF SamplePublish
<1>4. CASE SamplerCrash BY <1>4 DEF SamplerCrash
<1>5. CASE ProducerReset BY <1>5 DEF ProducerReset
<1>6. CASE ProducerStateLost BY <1>6 DEF ProducerStateLost
<1>7. CASE ProducerRestored
  <2>1. pstate' \in ProducerState /\ latest' \in Sample
    BY <1>7 DEF ProducerRestored, ProducerState, Sample
  <2>2. QED
    BY <1>7, <2>1 DEF ProducerRestored
<1>8. QED
  BY <1>1, <1>2, <1>3, <1>4, <1>5, <1>6, <1>7 DEF ProducerNext

LEMMA ReporterTypeStep ==
    ASSUME ProducerTypeOK, StoreTypeOK, RunTypeOK, ReporterNext
    PROVE  StoreTypeOK' /\ RunTypeOK'
<1> USE DEF StoreTypeOK, RunTypeOK, storeVars
<1> DEFINE Goal == StoreTypeOK' /\ RunTypeOK'
<1>1. CASE ReportBegin
  BY <1>1, PendingSubset DEF ReportBegin
<1>2. ASSUME NEW b \in batch, PostAcknowledged(b) PROVE Goal
  BY <1>2 DEF PostAcknowledged, Post
<1>3. ASSUME NEW b \in batch, PostUnanswered(b) PROVE Goal
  BY <1>3 DEF PostUnanswered, Post
<1>4. ASSUME NEW b \in batch, PostRejected(b) PROVE Goal
  BY <1>4 DEF PostRejected, Post
<1>5. CASE Quarantine BY <1>5 DEF Quarantine
<1>6. CASE Checkpoint BY <1>6, AdvancedType DEF Checkpoint
<1>7. CASE CheckpointRefuses BY <1>7 DEF CheckpointRefuses
<1>8. CASE CheckpointWriteFails BY <1>8, AdvancedType DEF CheckpointWriteFails
<1>9. CASE Unlink BY <1>9 DEF Unlink
<1>10. CASE Acquire BY <1>10 DEF Acquire
<1>11. CASE Fetch BY <1>11 DEF Fetch, ProducerTypeOK
<1>12. CASE FetchFails BY <1>12, PendingSubset DEF FetchFails
<1>13. CASE ImportNothing
  <2>1. Pending(outbox') \subseteq outbox'
    BY PendingSubset
  <2>2. QED
    BY <1>13, <2>1 DEF ImportNothing, SecondDrain
<1>14. ASSUME NEW t \in ReceiveTimes, Import(t) PROVE Goal
  <2>1. [sample |-> fetched, receivedAt |-> t] \in Body
    BY <1>14 DEF Import, Body
  <2>2. outbox' \subseteq Body /\ imported' \subseteq Body
    BY <1>14, <2>1 DEF Import
  <2>3. Pending(outbox') \subseteq outbox'
    BY PendingSubset
  <2>4. QED
    BY <1>14, <2>2, <2>3 DEF Import, SecondDrain
<1>15. CASE ReportEnd BY <1>15 DEF ReportEnd, Stop
<1>16. ASSUME NEW t \in ReceiveTimes, ReporterCrashInPut(t) PROVE Goal
  <2>1. [sample |-> fetched, receivedAt |-> t] \in Body
    BY <1>16 DEF ReporterCrashInPut, Body
  <2>2. QED
    BY <1>16, <2>1 DEF ReporterCrashInPut, Stop
<1>17. CASE ReporterCrash BY <1>17 DEF ReporterCrash, Stop
<1>18. CASE OperatorClears BY <1>18 DEF OperatorClears, runVars
<1>19. CASE ReporterStateLost BY <1>19 DEF ReporterStateLost, runVars
<1>20. QED
  BY <1>1, <1>2, <1>3, <1>4, <1>5, <1>6, <1>7, <1>8, <1>9, <1>10, <1>11, <1>12, <1>13,
     <1>14, <1>15, <1>16, <1>17, <1>18, <1>19
     DEF ReporterNext

\* The state keeps its type: in particular a record is in hand in every step
\* that checkpoints, quarantines or unlinks, and every batch is made of bodies.
THEOREM TypeCorrect == Spec => []TypeOK
<1>1. Init => TypeOK
  <2>1. Init => FlagsOK
    BY DEF Init, FlagsOK
  <2>2. Init => ProducerTypeOK /\ StoreTypeOK /\ RunTypeOK
    BY DEF Init, ProducerTypeOK, StoreTypeOK, RunTypeOK
  <2>3. QED
    BY <2>1, <2>2 DEF TypeOK
<1>2. TypeOK /\ [Next]_vars => TypeOK'
  <2>1. ASSUME TypeOK, ProducerNext PROVE TypeOK'
    <3>1. FlagsOK' /\ ProducerTypeOK'
      BY <2>1, FlagsStep, ProducerTypeStep DEF TypeOK, Next
    <3>2. StoreTypeOK' /\ RunTypeOK'
      BY <2>1, ProducerFrame DEF TypeOK, StoreTypeOK, RunTypeOK, storeVars, runVars
    <3>3. QED
      BY <3>1, <3>2 DEF TypeOK
  <2>2. ASSUME TypeOK, ReporterNext PROVE TypeOK'
    <3>1. FlagsOK' /\ StoreTypeOK' /\ RunTypeOK'
      BY <2>2, FlagsStep, ReporterTypeStep DEF TypeOK, Next
    <3>2. ProducerTypeOK'
      <4>1. UNCHANGED <<pstate, latest, sampling, published, epochsUsed>>
        BY <2>2, ReporterFrame DEF producerVars
      <4>2. QED
        BY <2>2, <4>1 DEF TypeOK, ProducerTypeOK
    <3>3. QED
      BY <3>1, <3>2 DEF TypeOK
  <2>3. ASSUME TypeOK, UNCHANGED vars PROVE TypeOK'
    BY <2>3 DEF vars, producerVars, storeVars, runVars, TypeOK, FlagsOK, ProducerTypeOK,
                StoreTypeOK, RunTypeOK
  <2>4. QED
    BY <2>1, <2>2, <2>3 DEF Next
<1>3. QED
  BY <1>1, <1>2, PTL DEF Spec

-----------------------------------------------------------------------------
LEMMA LossStep ==
    ASSUME TypeOK, LossInv, Next PROVE LossInv'
<1> USE DEF LossInv, InOutbox, AckedIsStored, NoImportedSampleLost
<1> StoreTypeOK /\ RunTypeOK
  BY DEF TypeOK
<1>1. CASE ProducerNext
  BY <1>1, ProducerFrame DEF storeVars, runVars
<1> USE DEF StoreTypeOK, RunTypeOK, storeVars
<1>2. CASE ReportBegin
  BY <1>2, PendingSubset DEF ReportBegin
<1>3. ASSUME NEW b \in batch, PostAcknowledged(b) PROVE LossInv'
  BY <1>3 DEF PostAcknowledged, Post
<1>4. ASSUME NEW b \in batch, PostUnanswered(b) PROVE LossInv'
  BY <1>4 DEF PostUnanswered, Post
<1>5. ASSUME NEW b \in batch, PostRejected(b) PROVE LossInv'
  BY <1>5 DEF PostRejected, Post
<1>6. CASE Quarantine BY <1>6 DEF Quarantine
<1>7. CASE Checkpoint BY <1>7 DEF Checkpoint
<1>8. CASE CheckpointRefuses BY <1>8 DEF CheckpointRefuses
<1>9. CASE CheckpointWriteFails BY <1>9 DEF CheckpointWriteFails
<1>10. CASE Unlink
  <2>1. /\ outbox' = outbox \/ outbox' = outbox \ {current}
        /\ current' = None /\ rpc' = "drain"
        /\ UNCHANGED <<blocked, batch, api, imported>>
    BY <1>10 DEF Unlink
  <2>2. current \in api /\ current \notin batch
    BY <1>10 DEF Unlink
  <2>3. QED
    BY <2>1, <2>2
<1>11. CASE Acquire BY <1>11 DEF Acquire, DrainEnds
<1>12. CASE Fetch BY <1>12 DEF Fetch
<1>13. CASE FetchFails BY <1>13, PendingSubset DEF FetchFails
<1>14. CASE ImportNothing BY <1>14, PendingSubset DEF ImportNothing, SecondDrain
<1>15. ASSUME NEW t \in ReceiveTimes, Import(t) PROVE LossInv'
  <2>1. Pending(outbox') \subseteq outbox'
    BY PendingSubset
  <2>2. current = None
    BY <1>15 DEF Import
  <2>3. QED
    BY <1>15, <2>1, <2>2 DEF Import, SecondDrain
<1>16. CASE ReportEnd BY <1>16 DEF ReportEnd, Stop
<1>17. ASSUME NEW t \in ReceiveTimes, ReporterCrashInPut(t) PROVE LossInv'
  BY <1>17 DEF ReporterCrashInPut, Stop
<1>18. CASE ReporterCrash BY <1>18 DEF ReporterCrash, Stop
<1>19. CASE OperatorClears BY <1>19 DEF OperatorClears, runVars
<1>20. CASE ReporterStateLost BY <1>20 DEF ReporterStateLost, runVars
<1>21. QED
  BY <1>1, <1>2, <1>3, <1>4, <1>5, <1>6, <1>7, <1>8, <1>9, <1>10, <1>11, <1>12, <1>13,
     <1>14, <1>15, <1>16, <1>17, <1>18, <1>19, <1>20
     DEF Next, ReporterNext

LEMMA LossInvariant == Spec => []LossInv
<1>1. Init => LossInv
  BY DEF Init, LossInv, InOutbox, AckedIsStored, NoImportedSampleLost
<1>2. TypeOK /\ LossInv /\ [Next]_vars => LossInv'
  <2>1. ASSUME LossInv, UNCHANGED vars PROVE LossInv'
    BY <2>1 DEF vars, storeVars, runVars, LossInv, InOutbox, AckedIsStored, NoImportedSampleLost
  <2>2. QED
    BY <2>1, LossStep
<1>3. QED
  BY <1>1, <1>2, TypeCorrect, PTL DEF Spec

\* Whatever is killed, lost or fails, the reporter's own state.json included, an
\* imported sample is waiting in the outbox or stored by the API.
THEOREM ImportedIsNeverLost == Spec => []NoImportedSampleLost
BY LossInvariant, PTL DEF LossInv

-----------------------------------------------------------------------------
\* Being behind a checkpoint survives its replacement after an acknowledgement,
\* and the acknowledged record is behind it.
LEMMA AdvancedCovers ==
    ASSUME memory \in [Epochs -> Body \cup {None}], NEW b \in Body
    PROVE  /\ Behind(b, Advanced(b)[b.sample.epoch])
           /\ \A x \in Body, e \in Epochs : Behind(x, memory[e]) => Behind(x, Advanced(b)[e])
<1> DEFINE e0 == b.sample.epoch
<1>1. e0 \in Epochs /\ b # None /\ b.sample.sequence \in Nat
  BY NumbersOfBody
<1>2. \A x \in Body : x.sample.sequence \in Nat /\ x # None
  BY NumbersOfBody
<1>3. CASE memory[e0] # None /\ b.sample.sequence < memory[e0].sample.sequence
  <2>1. Advanced(b) = memory
    BY <1>3 DEF Advanced
  <2>2. memory[e0] \in Body
    BY <1>1, <1>3
  <2>3. QED
    BY <1>1, <1>2, <1>3, <2>1, <2>2 DEF Behind
<1>4. CASE ~(memory[e0] # None /\ b.sample.sequence < memory[e0].sample.sequence)
  <2>1. Advanced(b) = [memory EXCEPT ![e0] = b]
    BY <1>4 DEF Advanced
  <2>2. Advanced(b)[e0] = b /\ \A e \in Epochs \ {e0} : Advanced(b)[e] = memory[e]
    BY <1>1, <2>1
  <2>3. Behind(b, b)
    BY <1>1 DEF Behind
  <2>4. ASSUME NEW x \in Body, Behind(x, memory[e0]) PROVE Behind(x, b)
    <3>1. memory[e0] \in Body
      BY <1>1, <2>4 DEF Behind
    <3>2. QED
      BY <1>1, <1>2, <1>4, <2>4, <3>1 DEF Behind
  <2>5. QED
    BY <1>1, <2>2, <2>3, <2>4
<1>5. QED
  BY <1>3, <1>4

\* A new body has no other body of its number, and is ahead of every checkpoint.
LEMMA NewBody ==
    ASSUME TypeOK, BodyInv, rpc = "import", IsNew(fetched), NEW t \in ReceiveTimes
    PROVE  LET body == [sample |-> fetched, receivedAt |-> t]
           IN  /\ body \in Body
               /\ \A a \in imported : ~SameKey(a, body)
               /\ ~Behind(body, memory[fetched.epoch])
               /\ ~Behind(body, checkpoints[fetched.epoch])
<1> DEFINE body == [sample |-> fetched, receivedAt |-> t]
<1>1. /\ fetched \in Sample /\ imported \subseteq Body /\ outbox \subseteq Body
      /\ checkpoints \in [Epochs -> Body \cup {None}] /\ memory \in [Epochs -> Body \cup {None}]
  BY DEF TypeOK, StoreTypeOK, RunTypeOK
<1>2. body \in Body /\ body.sample = fetched
  BY <1>1 DEF Body
<1>3. fetched.epoch \in Epochs /\ fetched.sequence \in Nat
  BY <1>2, NumbersOfBody
<1>4. ~Behind(body, memory[fetched.epoch])
  BY <1>2 DEF IsNew, Checkpointed, Behind
<1>5. ~Behind(body, checkpoints[fetched.epoch])
  <2>1. SUFFICES ASSUME Behind(body, checkpoints[fetched.epoch]) PROVE FALSE
    OBVIOUS
  <2>2. /\ checkpoints[fetched.epoch] \in Body
        /\ Behind(checkpoints[fetched.epoch], memory[fetched.epoch])
    BY <1>1, <1>3, <2>1 DEF BodyInv, MemoryAhead, Behind
  <2>3. memory[fetched.epoch] \in Body
    BY <1>1, <1>3, <2>2 DEF Behind
  <2>4. Behind(body, memory[fetched.epoch])
    BY <1>2, <1>3, <2>1, <2>2, <2>3, NumbersOfBody DEF Behind
  <2>5. QED
    BY <1>4, <2>4
<1>6. ASSUME NEW a \in imported, SameKey(a, body) PROVE FALSE
  <2>1. a.sample.epoch = fetched.epoch /\ a.sample.sequence = fetched.sequence
    BY <1>2, <1>6 DEF SameKey
  <2>2. a \notin outbox
    BY <2>1 DEF IsNew, Stored
  <2>3. Behind(a, checkpoints[fetched.epoch])
    BY <2>1, <2>2 DEF BodyInv, GoneIsCheckpointed
  <2>4. QED
    BY <1>2, <1>5, <2>1, <2>3 DEF Behind
<1>7. QED
  BY <1>2, <1>4, <1>5, <1>6

-----------------------------------------------------------------------------
\* Steps that leave the records and the checkpoints alone, and do not start a
\* run or reach the unlinking of a record, keep BodyInv.
LEMMA BodyFrame ==
    ASSUME BodyInv, UNCHANGED <<imported, outbox, checkpoints>>,
           UNCHANGED memory \/ rpc' = "idle",
           rpc # "idle" \/ rpc' = "idle",
           rpc' # "checkpointed" \/ (rpc = "checkpointed" /\ UNCHANGED current)
    PROVE  BodyInv'
<1>1. GoneIsCheckpointed'
  BY DEF BodyInv, GoneIsCheckpointed, Behind
<1>2. MemoryAhead'
  BY DEF BodyInv, MemoryAhead, Behind
<1>3. OneBodyPerSample'
  BY DEF BodyInv, OneBodyPerSample, SameKey
<1>4. QED
  BY <1>1, <1>2, <1>3 DEF BodyInv

\* A stored body keeps BodyInv, whether the run goes on or is killed.
LEMMA BodyPut ==
    ASSUME TypeOK, BodyInv, rpc = "import", IsNew(fetched), NEW t \in ReceiveTimes,
           outbox' = outbox \cup {[sample |-> fetched, receivedAt |-> t]},
           imported' = imported \cup {[sample |-> fetched, receivedAt |-> t]},
           UNCHANGED checkpoints, rpc' \in {"drain", "idle"}, UNCHANGED memory \/ rpc' = "idle"
    PROVE  BodyInv'
<1> DEFINE body == [sample |-> fetched, receivedAt |-> t]
<1>1. body \in Body /\ \A a \in imported : ~SameKey(a, body)
  BY NewBody
<1>2. GoneIsCheckpointed'
  BY DEF BodyInv, GoneIsCheckpointed, Behind
<1>3. MemoryAhead'
  BY DEF BodyInv, MemoryAhead, Behind
<1>4. OneBodyPerSample'
  <2>1. \A a \in imported : ~SameKey(body, a)
    BY <1>1 DEF SameKey
  <2>2. QED
    BY <1>1, <2>1 DEF BodyInv, OneBodyPerSample, SameKey
<1>5. QED
  BY <1>2, <1>3, <1>4 DEF BodyInv

\* A checkpoint, durable or not, keeps BodyInv.
LEMMA BodyCheckpoint ==
    ASSUME TypeOK, LossInv, BodyInv, rpc = "acked", memory' = Advanced(current),
           checkpoints' \in {checkpoints, memory'}, UNCHANGED <<imported, outbox>>,
           \/ rpc' = "drain"
           \/ rpc' = "checkpointed" /\ checkpoints' = memory' /\ UNCHANGED current
    PROVE  BodyInv'
<1>1. /\ current \in Body /\ current.sample.epoch \in Epochs /\ imported \subseteq Body
      /\ checkpoints \in [Epochs -> Body \cup {None}] /\ memory \in [Epochs -> Body \cup {None}]
  BY NumbersOfBody DEF TypeOK, StoreTypeOK, RunTypeOK
<1>2. memory' \in [Epochs -> Body \cup {None}]
  BY <1>1, AdvancedType
<1>3. /\ Behind(current, memory'[current.sample.epoch])
      /\ \A x \in Body, e \in Epochs : Behind(x, memory[e]) => Behind(x, memory'[e])
  BY <1>1, AdvancedCovers
<1>4. \A x \in Body, e \in Epochs : Behind(x, checkpoints[e]) => Behind(x, memory[e])
  <2>1. SUFFICES ASSUME NEW x \in Body, NEW e \in Epochs, Behind(x, checkpoints[e])
                 PROVE  Behind(x, memory[e])
    OBVIOUS
  <2>2. checkpoints[e] \in Body /\ Behind(checkpoints[e], memory[e])
    BY <1>1, <2>1 DEF BodyInv, MemoryAhead, Behind
  <2>3. memory[e] \in Body
    BY <1>1, <2>2 DEF Behind
  <2>4. QED
    BY <2>1, <2>2, <2>3, NumbersOfBody DEF Behind
<1>5. \A x \in Body, e \in Epochs : Behind(x, checkpoints[e]) => Behind(x, checkpoints'[e])
  BY <1>3, <1>4
<1>6. GoneIsCheckpointed'
  <2>1. ASSUME NEW b \in imported
        PROVE  b \in outbox' \/ Behind(b, checkpoints'[b.sample.epoch])
    BY <1>1, <1>5, NumbersOfBody DEF BodyInv, GoneIsCheckpointed
  <2>2. rpc' = "checkpointed" => Behind(current', checkpoints'[current'.sample.epoch])
    BY <1>3
  <2>3. QED
    BY <2>1, <2>2 DEF GoneIsCheckpointed, Behind
<1>7. MemoryAhead'
  <2>1. SUFFICES ASSUME NEW e \in Epochs, checkpoints'[e] # None
                 PROVE  Behind(checkpoints'[e], memory'[e])
    BY DEF MemoryAhead, Behind
  <2>2. CASE checkpoints' = memory'
    <3>1. checkpoints'[e] \in Body
      BY <1>2, <2>1, <2>2
    <3>2. QED
      BY <2>1, <2>2, <3>1, NumbersOfBody DEF Behind
  <2>3. CASE checkpoints' = checkpoints
    <3>1. checkpoints[e] \in Body /\ Behind(checkpoints[e], memory[e])
      BY <1>1, <2>1, <2>3 DEF BodyInv, MemoryAhead
    <3>2. QED
      BY <1>3, <2>3, <3>1
  <2>4. QED
    BY <2>2, <2>3
<1>8. OneBodyPerSample'
  BY DEF BodyInv, OneBodyPerSample, SameKey
<1>9. QED
  BY <1>6, <1>7, <1>8 DEF BodyInv

LEMMA BodyStep ==
    ASSUME "REPORTER_STATE_LOST" \notin Faults, TypeOK, LossInv, BodyInv, Next
    PROVE  BodyInv'
<1> USE DEF storeVars
<1>1. CASE ProducerNext
  <2>1. UNCHANGED <<imported, outbox, checkpoints, memory, rpc, current>>
    BY <1>1, ProducerFrame DEF runVars
  <2>2. QED
    BY <2>1, BodyFrame
<1>2. CASE ReportBegin
  <2>1. /\ UNCHANGED <<imported, outbox, checkpoints>>
        /\ rpc' = "drain" /\ memory' = checkpoints
    BY <1>2 DEF ReportBegin
  <2>2. \A e \in Epochs : checkpoints[e] # None => Behind(checkpoints[e], checkpoints[e])
    BY NumbersOfBody DEF TypeOK, StoreTypeOK, Behind
  <2>3. GoneIsCheckpointed' /\ OneBodyPerSample'
    BY <2>1 DEF BodyInv, GoneIsCheckpointed, OneBodyPerSample, Behind, SameKey
  <2>4. MemoryAhead'
    BY <2>1, <2>2 DEF MemoryAhead, Behind
  <2>5. QED
    BY <2>3, <2>4 DEF BodyInv
<1>3. ASSUME NEW b \in batch, PostAcknowledged(b) \/ PostUnanswered(b) \/ PostRejected(b)
      PROVE  BodyInv'
  <2>1. /\ UNCHANGED <<imported, outbox, checkpoints, memory>>
        /\ rpc = "drain" /\ rpc' \in {"drain", "acked", "rejected"}
    BY <1>3 DEF PostAcknowledged, PostUnanswered, PostRejected, Post
  <2>2. QED
    BY <2>1, BodyFrame
<1>4. CASE Quarantine \/ CheckpointRefuses \/ Acquire \/ Fetch \/ FetchFails \/ ImportNothing
  <2>1. /\ UNCHANGED <<imported, outbox, checkpoints, memory>>
        /\ rpc # "idle" /\ rpc' # "checkpointed"
    BY <1>4 DEF Quarantine, CheckpointRefuses, Acquire, DrainEnds, Fetch, FetchFails,
                ImportNothing, SecondDrain
  <2>2. QED
    BY <2>1, BodyFrame
<1>5. CASE Checkpoint
  BY <1>5, BodyCheckpoint DEF Checkpoint
<1>6. CASE CheckpointWriteFails
  BY <1>6, BodyCheckpoint DEF CheckpointWriteFails
<1>7. CASE Unlink
  <2>1. /\ outbox' = outbox \/ outbox' = outbox \ {current}
        /\ rpc = "checkpointed" /\ rpc' = "drain" /\ UNCHANGED <<imported, checkpoints, memory>>
    BY <1>7 DEF Unlink
  <2>2. GoneIsCheckpointed'
    BY <2>1 DEF BodyInv, GoneIsCheckpointed, Behind
  <2>3. MemoryAhead' /\ OneBodyPerSample'
    BY <2>1 DEF BodyInv, MemoryAhead, OneBodyPerSample, Behind, SameKey
  <2>4. QED
    BY <2>2, <2>3 DEF BodyInv
<1>8. ASSUME NEW t \in ReceiveTimes, Import(t) PROVE BodyInv'
  BY <1>8, BodyPut DEF Import, SecondDrain
<1>9. ASSUME NEW t \in ReceiveTimes, ReporterCrashInPut(t) PROVE BodyInv'
  BY <1>9, BodyPut DEF ReporterCrashInPut, Stop
<1>10. CASE ReportEnd \/ ReporterCrash \/ OperatorClears
  <2>1. UNCHANGED <<imported, outbox, checkpoints>> /\ rpc' = "idle"
    BY <1>10 DEF ReportEnd, ReporterCrash, Stop, OperatorClears, runVars
  <2>2. QED
    BY <2>1, BodyFrame
<1>11. CASE ReporterStateLost
  BY <1>11 DEF ReporterStateLost
<1>12. QED
  BY <1>1, <1>2, <1>3, <1>4, <1>5, <1>6, <1>7, <1>8, <1>9, <1>10, <1>11 DEF Next, ReporterNext

LEMMA BodyInvariant ==
    ASSUME "REPORTER_STATE_LOST" \notin Faults PROVE Spec => []BodyInv
<1>1. Init => BodyInv
  BY DEF Init, BodyInv, GoneIsCheckpointed, MemoryAhead, OneBodyPerSample
<1>2. TypeOK /\ LossInv /\ BodyInv /\ [Next]_vars => BodyInv'
  <2>1. ASSUME BodyInv, UNCHANGED vars PROVE BodyInv'
    <3>1. UNCHANGED <<imported, outbox, checkpoints, memory, rpc, current>>
      BY <2>1 DEF vars, storeVars, runVars
    <3>2. QED
      BY <2>1, <3>1, BodyFrame
  <2>2. QED
    BY <2>1, BodyStep
<1>3. QED
  BY <1>1, <1>2, TypeCorrect, LossInvariant, PTL DEF Spec

\* As long as state.json itself survives, no kill, failed write, lost answer,
\* reset or roll-back of the source makes a second body of a sample.
THEOREM BodyIsStampedOnce ==
    ASSUME "REPORTER_STATE_LOST" \notin Faults PROVE Spec => []OneBodyPerSample
BY BodyInvariant, PTL DEF BodyInv

\* As long as state.json itself survives, no step takes a watermark back.
THEOREM WatermarkIsMonotone ==
    ASSUME "REPORTER_STATE_LOST" \notin Faults PROVE Spec => CheckpointNeverRegresses
<1> DEFINE Kept == \A e \in Epochs :
                      checkpoints[e] # None =>
                         /\ checkpoints'[e] # None
                         /\ checkpoints[e].sample.sequence <= checkpoints'[e].sample.sequence
<1>1. ASSUME TypeOK, UNCHANGED checkpoints PROVE Kept
  BY <1>1, NumbersOfBody DEF TypeOK, StoreTypeOK
<1>2. ASSUME TypeOK, BodyInv, rpc = "acked", checkpoints' = Advanced(current) PROVE Kept
  <2>1. SUFFICES ASSUME NEW e \in Epochs, checkpoints[e] # None
                 PROVE  Behind(checkpoints[e], checkpoints'[e])
    BY DEF Behind
  <2>2. checkpoints[e] \in Body /\ current \in Body /\ memory \in [Epochs -> Body \cup {None}]
    BY <1>2, <2>1 DEF TypeOK, StoreTypeOK, RunTypeOK
  <2>3. Behind(checkpoints[e], memory[e])
    BY <1>2, <2>1 DEF BodyInv, MemoryAhead
  <2>4. QED
    BY <1>2, <2>2, <2>3, AdvancedCovers
<1>3. TypeOK /\ BodyInv /\ [Next]_vars => [Kept]_vars
  <2>1. ASSUME Next
        PROVE  UNCHANGED checkpoints \/ (rpc = "acked" /\ checkpoints' = Advanced(current))
    <3>1. CASE ProducerNext
      BY <3>1, ProducerFrame DEF storeVars
    <3>2. CASE ReporterNext
      BY <3>2 DEF ReporterNext, ReportBegin, PostAcknowledged, PostUnanswered, PostRejected,
           Quarantine, Checkpoint, CheckpointRefuses, CheckpointWriteFails, Unlink, Acquire,
           Fetch, FetchFails, ImportNothing, Import, SecondDrain, ReportEnd, ReporterCrash,
           ReporterCrashInPut, OperatorClears, ReporterStateLost, storeVars
    <3>3. QED
      BY <2>1, <3>1, <3>2 DEF Next
  <2>2. QED
    BY <1>1, <1>2, <2>1
<1>4. QED
  BY <1>3, TypeCorrect, BodyInvariant, PTL DEF Spec, CheckpointNeverRegresses

-----------------------------------------------------------------------------
\* A freshly selected batch starts a drain in order.
LEMMA FreshBatch ==
    ASSUME outbox' \subseteq Body, IsFiniteSet(outbox'), batch' = Pending(outbox'),
           UNCHANGED blocked, rpc' = "drain"
    PROVE  DrainOrder'
BY PendingPrefix DEF DrainOrder, Excluded

\* Steps that only move on, without touching records, checkpoints or the batch.
LEMMA OrderFrame ==
    ASSUME OrderInv, UNCHANGED <<imported, outbox, blocked, checkpoints>>,
           api \subseteq api', UNCHANGED memory \/ rpc' = "idle",
           rpc # "idle" \/ rpc' = "idle", DrainOrder'
    PROVE  OrderInv'
<1>1. MemoryIsExact'
  BY DEF OrderInv, MemoryIsExact, Behind
<1>2. WatermarkIsExact'
  BY DEF OrderInv, WatermarkIsExact
<1>3. QED
  BY <1>1, <1>2 DEF OrderInv

\* An acknowledged record has nothing before it that is neither stored nor
\* quarantined, so the checkpoint may move up to it.
LEMMA CheckpointIsExact ==
    ASSUME TypeOK, LossInv, BodyInv, OrderInv, rpc = "acked"
    PROVE  \A b \in imported :
              Behind(b, Advanced(current)[b.sample.epoch]) => b \in api \cup blocked
<1>1. /\ current \in Body /\ imported \subseteq Body /\ current \in api /\ current \in imported
      /\ memory \in [Epochs -> Body \cup {None}]
  BY DEF TypeOK, StoreTypeOK, RunTypeOK, LossInv, InOutbox, AckedIsStored
<1>2. SUFFICES ASSUME NEW b \in imported, Behind(b, Advanced(current)[b.sample.epoch])
               PROVE  b \in api \cup blocked
  OBVIOUS
<1>3. b.sample.epoch \in Epochs /\ b.sample.sequence \in Nat /\ current.sample.sequence \in Nat
  BY <1>1, NumbersOfBody
<1>4. CASE Behind(b, memory[b.sample.epoch])
  BY <1>4 DEF OrderInv, MemoryIsExact
<1>5. CASE ~Behind(b, memory[b.sample.epoch])
  <2>1. /\ b.sample.epoch = current.sample.epoch
        /\ b.sample.sequence <= current.sample.sequence
    BY <1>1, <1>2, <1>3, <1>5 DEF Advanced, Behind
  <2>2. CASE b.sample.sequence = current.sample.sequence
    BY <1>1, <2>1, <2>2 DEF BodyInv, OneBodyPerSample, SameKey
  <2>3. CASE b.sample.sequence < current.sample.sequence
    <3>1. CASE b \notin outbox
      BY <3>1 DEF LossInv, NoImportedSampleLost
    <3>2. CASE b \in outbox
      <4>1. Before(b, current)
        BY <2>1, <2>3 DEF Before
      <4>2. PICK q \in blocked : SameKey(q, b)
        BY <3>2, <4>1 DEF OrderInv, DrainOrder, Excluded
      <4>3. q = b
        BY <4>2 DEF LossInv, InOutbox, BodyInv, OneBodyPerSample
      <4>4. QED
        BY <4>3
    <3>3. QED
      BY <3>1, <3>2
  <2>4. QED
    BY <1>3, <2>1, <2>2, <2>3
<1>6. QED
  BY <1>4, <1>5

LEMMA OrderPut ==
    ASSUME TypeOK, BodyInv, OrderInv, rpc = "import", IsNew(fetched), NEW t \in ReceiveTimes,
           outbox' = outbox \cup {[sample |-> fetched, receivedAt |-> t]},
           imported' = imported \cup {[sample |-> fetched, receivedAt |-> t]},
           UNCHANGED <<checkpoints, blocked, api>>, UNCHANGED memory \/ rpc' = "idle",
           DrainOrder'
    PROVE  OrderInv'
<1> DEFINE body == [sample |-> fetched, receivedAt |-> t]
<1>1. /\ body \in Body /\ body.sample = fetched
      /\ ~Behind(body, memory[fetched.epoch]) /\ ~Behind(body, checkpoints[fetched.epoch])
  BY NewBody
<1>2. IsFiniteSet(outbox')
  BY FS_AddElement DEF OrderInv
<1>3. MemoryIsExact'
  BY <1>1 DEF OrderInv, MemoryIsExact, Behind
<1>4. WatermarkIsExact'
  BY <1>1 DEF OrderInv, WatermarkIsExact, Behind
<1>5. QED
  BY <1>2, <1>3, <1>4 DEF OrderInv

LEMMA OrderCheckpoint ==
    ASSUME TypeOK, LossInv, BodyInv, OrderInv, rpc = "acked", memory' = Advanced(current),
           checkpoints' \in {checkpoints, memory'},
           UNCHANGED <<imported, outbox, blocked, api>>, DrainOrder'
    PROVE  OrderInv'
<1>1. \A b \in imported : Behind(b, memory'[b.sample.epoch]) => b \in api \cup blocked
  BY CheckpointIsExact
<1>2. MemoryIsExact'
  BY <1>1 DEF MemoryIsExact, Behind
<1>3. WatermarkIsExact'
  BY <1>1 DEF OrderInv, WatermarkIsExact, Behind
<1>4. QED
  BY <1>2, <1>3 DEF OrderInv

LEMMA OrderStep ==
    ASSUME "REPORTER_STATE_LOST" \notin Faults, TypeOK, LossInv, BodyInv, OrderInv, Next
    PROVE  OrderInv'
<1> USE DEF storeVars
<1>a. outbox \subseteq Body /\ IsFiniteSet(outbox)
  BY DEF TypeOK, StoreTypeOK, OrderInv
<1>1. CASE ProducerNext
  <2>1. UNCHANGED <<imported, outbox, blocked, checkpoints, api, memory, rpc, reason, batch,
                    current>>
    BY <1>1, ProducerFrame DEF runVars
  <2>2. DrainOrder'
    BY <2>1 DEF OrderInv, DrainOrder, Excluded
  <2>3. QED
    BY <2>1, <2>2, OrderFrame
<1>2. CASE ReportBegin
  <2>1. /\ UNCHANGED <<imported, outbox, blocked, checkpoints, api>> /\ batch' = Pending(outbox)
        /\ rpc' = "drain" /\ memory' = checkpoints
    BY <1>2 DEF ReportBegin
  <2>2. DrainOrder'
    BY <1>a, <2>1, FreshBatch
  <2>3. MemoryIsExact' /\ WatermarkIsExact'
    BY <2>1 DEF OrderInv, MemoryIsExact, WatermarkIsExact, Behind
  <2>4. QED
    BY <1>a, <2>1, <2>2, <2>3 DEF OrderInv
<1>3. ASSUME NEW b \in batch, PostAcknowledged(b) PROVE OrderInv'
  <2>1. /\ UNCHANGED <<imported, outbox, blocked, checkpoints, memory>> /\ api \subseteq api'
        /\ rpc = "drain" /\ ~reason /\ rpc' = "acked" /\ current' = b
        /\ batch' = batch \ {b} /\ \A c \in batch : ~Before(c, b)
    BY <1>3 DEF PostAcknowledged, Post
  <2>2. DrainOrder'
    BY <2>1 DEF OrderInv, DrainOrder, Excluded
  <2>3. QED
    BY <2>1, <2>2, OrderFrame
<1>4. ASSUME NEW b \in batch, PostUnanswered(b) \/ PostRejected(b) PROVE OrderInv'
  <2>1. /\ UNCHANGED <<imported, outbox, blocked, checkpoints, memory>> /\ api \subseteq api'
        /\ rpc = "drain" /\ (rpc' = "rejected" \/ (rpc' = "drain" /\ reason'))
    BY <1>4 DEF PostUnanswered, PostRejected, Post
  <2>2. DrainOrder'
    BY <2>1 DEF DrainOrder
  <2>3. QED
    BY <2>1, <2>2, OrderFrame
<1>5. CASE Quarantine
  <2>1. /\ UNCHANGED <<imported, outbox, checkpoints, memory, api>> /\ blocked \subseteq blocked'
        /\ rpc = "rejected" /\ rpc' = "drain" /\ reason'
    BY <1>5 DEF Quarantine
  <2>2. DrainOrder'
    BY <2>1 DEF DrainOrder
  <2>3. MemoryIsExact' /\ WatermarkIsExact'
    BY <2>1 DEF OrderInv, MemoryIsExact, WatermarkIsExact, Behind
  <2>4. QED
    BY <1>a, <2>1, <2>2, <2>3 DEF OrderInv
<1>6. CASE Checkpoint
  <2>1. /\ rpc = "acked" /\ rpc' = "checkpointed" /\ memory' = Advanced(current)
        /\ checkpoints' = memory'
        /\ UNCHANGED <<imported, outbox, blocked, api, batch, current>>
    BY <1>6 DEF Checkpoint
  <2>2. DrainOrder'
    BY <2>1 DEF OrderInv, DrainOrder, Excluded
  <2>3. QED
    BY <2>1, <2>2, OrderCheckpoint
<1>7. CASE CheckpointWriteFails
  <2>1. /\ rpc = "acked" /\ rpc' = "drain" /\ reason' /\ memory' = Advanced(current)
        /\ checkpoints' \in {checkpoints, memory'}
        /\ UNCHANGED <<imported, outbox, blocked, api>>
    BY <1>7 DEF CheckpointWriteFails
  <2>2. DrainOrder'
    BY <2>1 DEF DrainOrder
  <2>3. QED
    BY <2>1, <2>2, OrderCheckpoint
<1>8. CASE CheckpointRefuses \/ Acquire \/ Fetch
  <2>1. /\ UNCHANGED <<imported, outbox, blocked, checkpoints, memory, api>>
        /\ rpc # "idle" /\ rpc' \in {"drain", "acquire", "import"} /\ (rpc' = "drain" => reason')
    BY <1>8 DEF CheckpointRefuses, Acquire, DrainEnds, Fetch
  <2>2. DrainOrder'
    BY <2>1 DEF DrainOrder
  <2>3. QED
    BY <2>1, <2>2, OrderFrame
<1>9. CASE Unlink
  <2>1. /\ outbox' = outbox \/ outbox' = outbox \ {current}
        /\ outbox' = outbox \ {current} \/ reason'
        /\ rpc = "checkpointed" /\ rpc' = "drain"
        /\ UNCHANGED <<imported, blocked, checkpoints, memory, api, batch>>
    BY <1>9 DEF Unlink
  <2>2. DrainOrder'
    BY <2>1 DEF OrderInv, DrainOrder, Excluded
  <2>3. MemoryIsExact' /\ WatermarkIsExact'
    BY <2>1 DEF OrderInv, MemoryIsExact, WatermarkIsExact, Behind
  <2>4. IsFiniteSet(outbox')
    BY <1>a, <2>1, FS_Subset
  <2>5. QED
    BY <2>2, <2>3, <2>4 DEF OrderInv
<1>10. CASE FetchFails \/ ImportNothing
  <2>1. /\ UNCHANGED <<imported, outbox, blocked, checkpoints, memory, api>>
        /\ rpc # "idle" /\ rpc' = "drain" /\ batch' = Pending(outbox)
    BY <1>10 DEF FetchFails, ImportNothing, SecondDrain
  <2>2. DrainOrder'
    BY <1>a, <2>1, FreshBatch
  <2>3. QED
    BY <2>1, <2>2, OrderFrame
<1>11. ASSUME NEW t \in ReceiveTimes, Import(t) PROVE OrderInv'
  <2>1. /\ rpc = "import" /\ IsNew(fetched) /\ rpc' = "drain" /\ batch' = Pending(outbox')
        /\ outbox' = outbox \cup {[sample |-> fetched, receivedAt |-> t]}
        /\ imported' = imported \cup {[sample |-> fetched, receivedAt |-> t]}
        /\ UNCHANGED <<checkpoints, blocked, api, memory>>
    BY <1>11 DEF Import, SecondDrain
  <2>2. outbox' \subseteq Body /\ IsFiniteSet(outbox')
    <3>1. [sample |-> fetched, receivedAt |-> t] \in Body
      BY <2>1, NewBody
    <3>2. IsFiniteSet(outbox')
      BY <1>a, <2>1, FS_AddElement
    <3>3. QED
      BY <1>a, <2>1, <3>1, <3>2
  <2>3. DrainOrder'
    BY <2>1, <2>2, FreshBatch
  <2>4. QED
    BY <2>1, <2>3, OrderPut
<1>12. ASSUME NEW t \in ReceiveTimes, ReporterCrashInPut(t) PROVE OrderInv'
  <2>1. /\ rpc = "import" /\ IsNew(fetched) /\ rpc' = "idle"
        /\ outbox' = outbox \cup {[sample |-> fetched, receivedAt |-> t]}
        /\ imported' = imported \cup {[sample |-> fetched, receivedAt |-> t]}
        /\ UNCHANGED <<checkpoints, blocked, api>>
    BY <1>12 DEF ReporterCrashInPut, Stop
  <2>2. DrainOrder'
    BY <2>1 DEF DrainOrder
  <2>3. QED
    BY <2>1, <2>2, OrderPut
<1>13. CASE ReportEnd \/ ReporterCrash \/ OperatorClears
  <2>1. UNCHANGED <<imported, outbox, blocked, checkpoints, api>> /\ rpc' = "idle"
    BY <1>13 DEF ReportEnd, ReporterCrash, Stop, OperatorClears, runVars
  <2>2. DrainOrder'
    BY <2>1 DEF DrainOrder
  <2>3. QED
    BY <2>1, <2>2, OrderFrame
<1>14. CASE ReporterStateLost
  BY <1>14 DEF ReporterStateLost
<1>15. QED
  BY <1>1, <1>2, <1>3, <1>4, <1>5, <1>6, <1>7, <1>8, <1>9, <1>10, <1>11, <1>12, <1>13, <1>14
     DEF Next, ReporterNext

\* As long as state.json itself survives, a checkpoint passes an imported sample
\* only once the API holds it or its rejection is on record.
THEOREM WatermarkNeverSkips ==
    ASSUME "REPORTER_STATE_LOST" \notin Faults PROVE Spec => []WatermarkIsExact
<1>1. Init => OrderInv
  BY FS_EmptySet DEF Init, OrderInv, DrainOrder, MemoryIsExact, WatermarkIsExact
<1>2. TypeOK /\ LossInv /\ BodyInv /\ OrderInv /\ [Next]_vars => OrderInv'
  <2>1. ASSUME OrderInv, UNCHANGED vars PROVE OrderInv'
    <3>1. UNCHANGED <<imported, outbox, blocked, checkpoints, api, memory, rpc, reason, batch,
                      current>>
      BY <2>1 DEF vars, storeVars, runVars
    <3>2. DrainOrder'
      BY <2>1, <3>1 DEF OrderInv, DrainOrder, Excluded
    <3>3. QED
      BY <2>1, <3>1, <3>2, OrderFrame
  <2>2. QED
    BY <2>1, OrderStep
<1>3. OrderInv => WatermarkIsExact
  BY DEF OrderInv
<1>4. QED
  BY <1>1, <1>2, <1>3, TypeCorrect, LossInvariant, BodyInvariant, PTL DEF Spec

-----------------------------------------------------------------------------
(* The sampler's numbers.                                                  *)

\* Published numbers and minutes are behind the reserved ones, strictly so while
\* the sampler holds a number it has not published.
SamplerAhead ==
    pstate # None =>
        /\ pstate.epoch \in epochsUsed
        /\ \A p \in published :
              p.epoch = pstate.epoch =>
                 /\ p.sequence <= pstate.lastSequence /\ p.at <= pstate.minute
                 /\ sampling => p.sequence < pstate.lastSequence /\ p.at < pstate.minute

\* An epoch is used once: a fresh one has nothing published.
EpochsAreFresh == \A p \in published : p.epoch \in epochsUsed

SequenceInv == SamplerAhead /\ EpochsAreFresh /\ SequenceIdentifiesSample

\* Sequences and minutes are numbers.
LEMMA NumbersOfSample ==
    /\ \A p \in Sample : p.epoch \in Epochs /\ p.sequence \in Int /\ p.at \in Int
    /\ \A s \in ProducerState : /\ s.epoch \in Epochs /\ s.lastSequence \in Int
                                /\ s.minute \in Int
<1>1. \A n \in SequenceNumbers \cup Minutes : n \in Int
  BY DEF SequenceNumbers
<1> QED BY <1>1 DEF Sample, ProducerState

LEMMA SequenceStep ==
    ASSUME "PRODUCER_RESTORED" \notin Faults, ProducerTypeOK, SequenceInv, Next
    PROVE  SequenceInv'
<1> USE DEF SequenceInv
<1>0. /\ \A p \in published : p.epoch \in Epochs /\ p.sequence \in Int /\ p.at \in Int
      /\ pstate # None => /\ pstate.epoch \in Epochs /\ pstate.lastSequence \in Int
                          /\ pstate.minute \in Int
  BY NumbersOfSample DEF ProducerTypeOK
<1>1. CASE ReporterNext
  <2>1. UNCHANGED producerVars BY <1>1, ReporterFrame
  <2> QED BY <2>1 DEF producerVars, SamplerAhead, EpochsAreFresh, SequenceIdentifiesSample
<1>2. ASSUME NEW e \in Epochs, NEW m \in Minutes, SampleFirst(e, m) PROVE SequenceInv'
  <2>1. pstate'.epoch = e /\ UNCHANGED published /\ epochsUsed' = epochsUsed \cup {e}
    BY <1>2 DEF SampleFirst
  <2>2. \A p \in published : p.epoch # e
    BY <1>2 DEF SampleFirst, EpochsAreFresh
  <2> QED BY <2>1, <2>2 DEF SamplerAhead, EpochsAreFresh, SequenceIdentifiesSample
<1>3. ASSUME NEW m \in Minutes, SampleReserve(m) PROVE SequenceInv'
  <2>0. pstate \in ProducerState BY <1>3 DEF SampleReserve, ProducerTypeOK
  <2>1. /\ pstate # None /\ pstate'.epoch = pstate.epoch
        /\ pstate'.lastSequence = pstate.lastSequence + 1
        /\ pstate'.minute = m /\ m > pstate.minute /\ m \in Int
        /\ UNCHANGED <<published, epochsUsed>>
    BY <1>3, <2>0 DEF SampleReserve, ProducerState
  <2> QED BY <1>0, <2>1 DEF SamplerAhead, EpochsAreFresh, SequenceIdentifiesSample
<1>4. ASSUME NEW o \in Outcomes, SamplePublish(o) PROVE SequenceInv'
  <2> DEFINE s == [epoch |-> pstate.epoch, sequence |-> pstate.lastSequence,
                   at |-> pstate.minute, outcome |-> o]
  <2>1. /\ sampling /\ pstate # None /\ published' = published \cup {s} /\ sampling' = FALSE
        /\ UNCHANGED <<pstate, epochsUsed>>
    BY <1>4 DEF SamplePublish, ProducerTypeOK
  <2>2. /\ s.epoch = pstate.epoch /\ s.sequence = pstate.lastSequence /\ s.at = pstate.minute
    OBVIOUS
  <2> HIDE DEF s
  <2>3. SamplerAhead' /\ EpochsAreFresh'
    BY <1>0, <2>1, <2>2 DEF SamplerAhead, EpochsAreFresh
  <2>4. \A p \in published : p.epoch = s.epoch => p.sequence < s.sequence /\ p.at < s.at
    BY <2>1, <2>2 DEF SamplerAhead
  <2>5. SequenceIdentifiesSample'
    BY <1>0, <2>1, <2>2, <2>4 DEF SequenceIdentifiesSample
  <2> QED BY <2>3, <2>5
<1>5. CASE SamplerCrash
  BY <1>5 DEF SamplerCrash, SamplerAhead, EpochsAreFresh, SequenceIdentifiesSample
<1>6. CASE ProducerReset \/ ProducerStateLost
  BY <1>6 DEF ProducerReset, ProducerStateLost, SamplerAhead, EpochsAreFresh,
              SequenceIdentifiesSample
<1>7. ~ProducerRestored
  BY DEF ProducerRestored
<1> QED BY <1>1, <1>2, <1>3, <1>4, <1>5, <1>6, <1>7 DEF Next, ProducerNext

\* As long as the source's directory does not come back from an older copy, the
\* published numbers of an epoch name one sample each and order them by minute.
THEOREM NumbersNameOneSample ==
    ASSUME "PRODUCER_RESTORED" \notin Faults PROVE Spec => []SequenceIdentifiesSample
<1>1. Init => SequenceInv
  BY DEF Init, SequenceInv, SamplerAhead, EpochsAreFresh, SequenceIdentifiesSample
<1>2. TypeOK /\ SequenceInv /\ [Next]_vars => SequenceInv'
  <2>1. ASSUME SequenceInv, UNCHANGED vars PROVE SequenceInv'
    BY <2>1 DEF vars, producerVars, SequenceInv, SamplerAhead, EpochsAreFresh,
                SequenceIdentifiesSample
  <2> QED BY <2>1, SequenceStep DEF TypeOK
<1>3. SequenceInv => SequenceIdentifiesSample
  BY DEF SequenceInv
<1> QED BY <1>1, <1>2, <1>3, TypeCorrect, PTL DEF Spec

-----------------------------------------------------------------------------
(* The limits of the reporter's store.                                     *)

\* A finite set within its limit.
Within(S, limit) == IsFiniteSet(S) /\ Cardinality(S) <= limit

EpochsOf(c) == {e \in Epochs : c[e] # None}

\* The limits of the store, of the run's own copy of its checkpoints, and of the
\* quarantine a rejected record is about to enter.
LimitInv ==
    /\ Within(EpochsOf(checkpoints), MaxCheckpoints)
    /\ Within(EpochsOf(memory), MaxCheckpoints)
    /\ Within(blocked, MaxBlocked) /\ Within(outbox, MaxPendingSamples)
    /\ rpc = "rejected" => Cardinality(blocked) < MaxBlocked

LEMMA EmptyWithin == ASSUME NEW n \in Nat PROVE Within({}, n)
BY FS_EmptySet DEF Within

LEMMA AddedWithin ==
    ASSUME NEW S, NEW n \in Nat, Within(S, n), NEW x, x \in S \/ Cardinality(S) < n
    PROVE  Within(S \cup {x}, n)
<1>1. Cardinality(S) \in Nat BY FS_CardinalityType DEF Within
<1>2. /\ IsFiniteSet(S) => IsFiniteSet(S \cup {x})
      /\ IsFiniteSet(S) => Cardinality(S \cup {x}) =
                             IF x \in S THEN Cardinality(S) ELSE Cardinality(S) + 1
  BY FS_AddElement
<1> QED BY <1>1, <1>2 DEF Within

LEMMA RemovedWithin ==
    ASSUME NEW S, NEW n \in Nat, Within(S, n), NEW x
    PROVE  Within(S \ {x}, n)
<1>1. Cardinality(S) \in Nat BY FS_CardinalityType DEF Within
<1>2. /\ IsFiniteSet(S) => IsFiniteSet(S \ {x})
      /\ IsFiniteSet(S) => Cardinality(S \ {x}) =
                             IF x \in S THEN Cardinality(S) - 1 ELSE Cardinality(S)
  BY FS_RemoveElement
<1> QED BY <1>1, <1>2 DEF Within

LEMMA AdvancedWithin ==
    ASSUME TypeOK, LimitInv, rpc = "acked", ~CheckpointRefused(current)
    PROVE  Within(EpochsOf(Advanced(current)), MaxCheckpoints)
<1>1. /\ current \in Body /\ memory \in [Epochs -> Body \cup {None}]
      /\ current.sample.epoch \in Epochs /\ current # None
  BY NumbersOfBody DEF TypeOK, RunTypeOK
<1>2. Within(EpochsOf(memory), MaxCheckpoints) /\ CheckpointEpochs = EpochsOf(memory)
  BY DEF LimitInv, CheckpointEpochs, EpochsOf
<1>3. CASE memory[current.sample.epoch] = None
  <2>1. EpochsOf(Advanced(current)) = EpochsOf(memory) \cup {current.sample.epoch}
    BY <1>1, <1>3 DEF Advanced, EpochsOf
  <2>2. Cardinality(EpochsOf(memory)) < MaxCheckpoints
    <3>1. Cardinality(EpochsOf(memory)) \in Nat
      BY <1>2, FS_CardinalityType DEF Within
    <3> QED BY <1>2, <1>3, <3>1 DEF CheckpointRefused
  <2> QED BY <1>2, <2>1, <2>2, AddedWithin
<1>4. CASE memory[current.sample.epoch] # None
  <2>1. EpochsOf(Advanced(current)) = EpochsOf(memory)
    BY <1>1, <1>4 DEF Advanced, EpochsOf
  <2> QED BY <1>2, <2>1
<1> QED BY <1>3, <1>4

\* What a reporter step does to the store, as far as its limits are concerned.
LEMMA LimitStep ==
    ASSUME TypeOK, LimitInv, Next PROVE LimitInv'
<1> USE DEF LimitInv
<1>0. EpochsOf([e \in Epochs |-> None]) = {}
  BY DEF EpochsOf
<1>1. ASSUME UNCHANGED <<checkpoints, memory, blocked, outbox>>, rpc' \in {rpc, "acked", "drain",
             "checkpointed", "acquire", "import"}
      PROVE  LimitInv'
  BY <1>1
<1>2. CASE ProducerNext
  BY <1>2, <1>1, ProducerFrame DEF storeVars, runVars
<1>3. CASE ReportBegin
  BY <1>3 DEF ReportBegin
<1>4. ASSUME NEW b \in batch, PostAcknowledged(b) \/ PostUnanswered(b) PROVE LimitInv'
  BY <1>4, <1>1 DEF PostAcknowledged, PostUnanswered, storeVars
<1>5. ASSUME NEW b \in batch, PostRejected(b) PROVE LimitInv'
  <2>1. Cardinality(blocked) \in Nat BY FS_CardinalityType DEF Within
  <2> QED BY <1>5, <2>1 DEF PostRejected, storeVars
<1>6. CASE Quarantine
  <2>1. Within(blocked \cup {current}, MaxBlocked)
    BY <1>6, AddedWithin DEF Quarantine
  <2> QED BY <1>6, <2>1 DEF Quarantine
<1>7. CASE Checkpoint
  BY <1>7, AdvancedWithin DEF Checkpoint
<1>8. CASE CheckpointWriteFails
  BY <1>8, AdvancedWithin DEF CheckpointWriteFails
<1>9. CASE CheckpointRefuses
  BY <1>9, <1>1 DEF CheckpointRefuses, storeVars
<1>10. CASE Unlink
  <2>1. Within(outbox \ {current}, MaxPendingSamples)
    BY RemovedWithin
  <2> QED BY <1>10, <2>1 DEF Unlink
<1>11. CASE Acquire \/ Fetch \/ FetchFails
  BY <1>11, <1>1 DEF Acquire, Fetch, FetchFails, storeVars
<1>12. CASE ImportNothing
  BY <1>12, <1>1 DEF ImportNothing, SecondDrain
<1>13. ASSUME NEW t \in ReceiveTimes, Import(t) \/ ReporterCrashInPut(t) PROVE LimitInv'
  <2> DEFINE body == [sample |-> fetched, receivedAt |-> t]
  <2>1. ~StoreFull /\ outbox' = outbox \cup {body}
    BY <1>13 DEF Import, ReporterCrashInPut
  <2>2. Cardinality(outbox) < MaxPendingSamples
    BY <2>1, FS_CardinalityType DEF StoreFull, Within
  <2>3. Within(outbox', MaxPendingSamples)
    <3> HIDE DEF body
    <3> QED BY <2>1, <2>2, AddedWithin
  <2>4. UNCHANGED <<checkpoints, blocked>> /\ rpc' \in {"drain", "idle"}
        /\ memory' \in {memory, [e \in Epochs |-> None]}
    BY <1>13 DEF Import, ReporterCrashInPut, SecondDrain, Stop
  <2>5. Within(EpochsOf(memory'), MaxCheckpoints)
    BY <1>0, <2>4, EmptyWithin
  <2> QED BY <2>3, <2>4, <2>5
<1>14. CASE ReportEnd \/ ReporterCrash
  <2>1. /\ UNCHANGED <<checkpoints, blocked, outbox>> /\ rpc' = "idle"
        /\ memory' = [e \in Epochs |-> None]
    BY <1>14 DEF ReportEnd, ReporterCrash, Stop, storeVars
  <2> QED BY <1>0, <2>1, EmptyWithin
<1>15. CASE OperatorClears
  BY <1>15, <1>1 DEF OperatorClears, runVars
<1>16. CASE ReporterStateLost
  <2>1. /\ UNCHANGED <<memory, rpc, outbox>> /\ rpc = "idle"
        /\ checkpoints' = [e \in Epochs |-> None] /\ blocked' = {}
    BY <1>16 DEF ReporterStateLost, runVars
  <2> QED BY <1>0, <2>1, EmptyWithin
<1> QED
  BY <1>2, <1>3, <1>4, <1>5, <1>6, <1>7, <1>8, <1>9, <1>10, <1>11, <1>12, <1>13, <1>14, <1>15,
     <1>16 DEF Next, ReporterNext

\* The reporter never leaves a store its next run refuses to load, whatever fails,
\* is killed or is lost: no limit of reporter_state() or _entries() is passed.
THEOREM StoreLoads == Spec => []StoreStaysLoadable
<1>1. Init => LimitInv
  <2>1. EpochsOf([e \in Epochs |-> None]) = {}
    BY DEF EpochsOf
  <2> QED BY <2>1, EmptyWithin DEF Init, LimitInv
<1>2. TypeOK /\ LimitInv /\ [Next]_vars => LimitInv'
  <2>1. ASSUME LimitInv, UNCHANGED vars PROVE LimitInv'
    BY <2>1 DEF vars, storeVars, runVars, LimitInv
  <2> QED BY <2>1, LimitStep
<1>3. LimitInv => StoreStaysLoadable
  BY DEF LimitInv, Within, EpochsOf, StoreStaysLoadable
<1> QED BY <1>1, <1>2, <1>3, TypeCorrect, PTL DEF Spec

=============================================================================
