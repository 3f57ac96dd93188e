------------------------- MODULE ObservationPipeline -------------------------
(***************************************************************************)
(* One inference-observation source and its reporter                       *)
(* (scripts/lib/observation_runtime.py over observation_spool.py).         *)
(*                                                                         *)
(* The sampler on the model host reserves a sequence number in state.json, *)
(* probes, and publishes latest.json.  The reporter on the monitor host    *)
(* reads latest.json over SSH, stores the sample with its own receive time *)
(* in an outbox, POSTs outbox records to the API in (epoch, sequence)      *)
(* order, writes a checkpoint for an acknowledged record and then unlinks  *)
(* it.  Each store is held under an exclusive flock for a whole run, so a  *)
(* process interleaves with the other host, with the API and with crashes, *)
(* never with a second copy of itself.                                     *)
(***************************************************************************)
EXTENDS Integers, FiniteSets

CONSTANTS
    Epochs,             \* producer epochs (uuid4); numbers stand for their string order
    MaxSequence,        \* MAX_SEQUENCE of observation_spool.py
    Minutes,            \* UTC minutes the sampler's clock may show, in any order
    Outcomes,           \* what a probe may yield: OBSERVED or SOURCE_FAILED
    ReceiveTimes,       \* values of the reporter's clock at import
    MaxPendingSamples,  \* max_pending_samples of the reporter's configuration
    MaxExports,         \* max_exports_per_run
    MaxCheckpoints,     \* MAX_CHECKPOINTS
    MaxBlocked,         \* the 64 quarantined records of reporter_state
    None,               \* no record, no file
    Faults              \* kills, write errors and store losses that may happen

ASSUME ConstantsAssumption ==
    /\ Epochs \subseteq Nat /\ Minutes \subseteq Nat
    /\ Outcomes \subseteq {"OBSERVED", "SOURCE_FAILED"}
    /\ MaxSequence \in Nat
    /\ MaxExports \in Nat \ {0}
    /\ MaxPendingSamples \in Nat \ {0}
    /\ MaxCheckpoints \in Nat /\ MaxBlocked \in Nat
    /\ Faults \subseteq {"KILLED", "WRITE_FAILED", "PRODUCER_RESET", "PRODUCER_STATE_LOST",
                         "PRODUCER_RESTORED", "REPORTER_STATE_LOST"}

SequenceNumbers == 0..MaxSequence

\* A sample is what the producer writes; a body is a sample stamped by the reporter.
Sample == [epoch : Epochs, sequence : SequenceNumbers, at : Minutes, outcome : Outcomes]
Body == [sample : Sample, receivedAt : ReceiveTimes]

ProducerState == [epoch : Epochs, lastSequence : SequenceNumbers, minute : Minutes]

ASSUME NoneAssumption == None \notin Body \cup Sample \cup ProducerState

VARIABLES
    \* the producer's store
    pstate,        \* state.json: epoch, last reserved sequence and minute
    latest,        \* latest.json
    sampling,      \* the sampler has reserved a sequence and is probing
    pstray,        \* a temporary file a killed writer left in the store
    \* the reporter's store
    known,         \* state.json exists
    checkpoints,   \* its checkpoints: the acknowledged body, per epoch
    blocked,       \* its quarantined bodies
    outbox,        \* the sample-*.json records
    rstray,        \* a temporary file a killed writer left in the store
    \* the reporter's process
    memory,        \* the checkpoints in the run's own copy of state.json
    rpc, round, batch, attempts, reason, current, fetched,
    \* the API's table, and the histories the properties speak of
    api, published, imported, epochsUsed

producerVars == <<pstate, latest, sampling, pstray, published, epochsUsed>>
storeVars == <<known, checkpoints, blocked, outbox, rstray>>
runVars == <<memory, rpc, round, batch, attempts, reason, current, fetched>>
vars == <<producerVars, storeVars, runVars, api, imported>>

SameKey(a, b) == /\ a.sample.epoch = b.sample.epoch
                 /\ a.sample.sequence = b.sample.sequence

\* Mutant: the newest record first.
BeforeNewestFirst(a, b) ==
    \/ a.sample.epoch < b.sample.epoch
    \/ /\ a.sample.epoch = b.sample.epoch
       /\ a.sample.sequence > b.sample.sequence

\* Records are sorted by epoch, then sequence (ObservationStore._entries).
Before(a, b) ==
    \/ a.sample.epoch < b.sample.epoch
    \/ /\ a.sample.epoch = b.sample.epoch
       /\ a.sample.sequence < b.sample.sequence

\* ObservationStore.pending: the first MaxExports records that are not quarantined.
Pending(records) ==
    LET free == {b \in records : ~\E q \in blocked : SameKey(q, b)}
    IN  {b \in free : Cardinality({c \in free : Before(c, b)}) < MaxExports}

Init ==
    /\ pstate = None /\ latest = None /\ sampling = FALSE /\ pstray = FALSE
    /\ known = FALSE /\ checkpoints = [e \in Epochs |-> None] /\ blocked = {}
    /\ outbox = {} /\ rstray = FALSE
    /\ memory = [e \in Epochs |-> None]
    /\ rpc = "idle" /\ round = 1 /\ batch = {} /\ attempts = 0 /\ reason = FALSE
    /\ current = None /\ fetched = None
    /\ api = {} /\ published = {} /\ imported = {} /\ epochsUsed = {}

-----------------------------------------------------------------------------
(* The sampler.  Runs that return WAITING or raise before the reservation  *)
(* (same minute, clock moved back, sequence exhausted, state.json missing  *)
(* beside latest.json) change nothing and are stuttering steps.            *)

\* The first run creates the epoch and reserves the current minute.
SampleFirst(e, m) ==
    /\ ~sampling /\ pstate = None
    /\ latest = None /\ ~pstray
    /\ e \notin epochsUsed
    /\ pstate' = [epoch |-> e, lastSequence |-> 0, minute |-> m]
    /\ epochsUsed' = epochsUsed \cup {e}
    /\ UNCHANGED <<latest, sampling, pstray, published, storeVars, runVars, api, imported>>

\* Mutant: the clock may stand still or move back.
SampleReserveAnyMinute(m) ==
    /\ ~sampling /\ pstate # None
    /\ pstate.lastSequence < MaxSequence
    /\ pstate' = [pstate EXCEPT !.lastSequence = @ + 1, !.minute = m]
    /\ sampling' = TRUE
    /\ UNCHANGED <<latest, pstray, published, epochsUsed, storeVars, runVars, api, imported>>

\* Mutant: the counter runs past MAX_SEQUENCE.
SampleReserveUnbounded(m) ==
    /\ ~sampling /\ pstate # None
    /\ m > pstate.minute
    /\ pstate' = [pstate EXCEPT !.lastSequence = @ + 1, !.minute = m]
    /\ sampling' = TRUE
    /\ UNCHANGED <<latest, pstray, published, epochsUsed, storeVars, runVars, api, imported>>

\* The sequence is made durable before anything is probed.
SampleReserve(m) ==
    /\ ~sampling /\ pstate # None
    /\ m > pstate.minute
    /\ pstate.lastSequence < MaxSequence
    /\ pstate' = [pstate EXCEPT !.lastSequence = @ + 1, !.minute = m]
    /\ sampling' = TRUE
    /\ UNCHANGED <<latest, pstray, published, epochsUsed, storeVars, runVars, api, imported>>

\* A failed probe is published too, as SOURCE_FAILED.
SamplePublish(o) ==
    /\ sampling
    /\ LET s == [epoch |-> pstate.epoch, sequence |-> pstate.lastSequence,
                 at |-> pstate.minute, outcome |-> o]
       IN  latest' = s /\ published' = published \cup {s}
    /\ sampling' = FALSE
    /\ UNCHANGED <<pstate, pstray, epochsUsed, storeVars, runVars, api, imported>>

\* systemd kills the sampler (TimeoutStartSec) or the host restarts: after the
\* reservation the number is skipped, and a kill inside a write leaves the
\* temporary file behind.
SamplerCrash ==
    /\ "KILLED" \in Faults
    /\ sampling \/ ~pstray
    /\ sampling' = FALSE
    /\ pstray' \in {pstray, TRUE}
    /\ UNCHANGED <<pstate, latest, published, epochsUsed, storeVars, runVars, api, imported>>

\* The directory is emptied, or a stray temporary file is cleared, by an operator.
ProducerReset ==
    /\ ~sampling
    /\ "PRODUCER_RESET" \in Faults \/ pstate = None
    /\ pstate # None \/ latest # None \/ pstray
    /\ pstate' = None /\ latest' = None /\ pstray' = FALSE
    /\ UNCHANGED <<sampling, published, epochsUsed, storeVars, runVars, api, imported>>

\* Only state.json is lost: sample() refuses from then on (PRODUCER_STATE_LOST).
ProducerStateLost ==
    /\ ~sampling /\ "PRODUCER_STATE_LOST" \in Faults
    /\ pstate # None
    /\ pstate' = None
    /\ UNCHANGED <<latest, sampling, pstray, published, epochsUsed, storeVars, runVars, api, imported>>

\* The directory comes back from an older copy: sequences are rolled back.
ProducerRestored ==
    /\ ~sampling /\ "PRODUCER_RESTORED" \in Faults
    /\ pstate # None
    /\ \E s \in {p \in published : /\ p.epoch = pstate.epoch
                                   /\ p.sequence < pstate.lastSequence} :
         /\ pstate' = [pstate EXCEPT !.lastSequence = s.sequence, !.minute = s.at]
         /\ latest' = s
    /\ UNCHANGED <<sampling, pstray, published, epochsUsed, storeVars, runVars, api, imported>>

-----------------------------------------------------------------------------
(* The reporter.  A run that finds the store locked, a stray entry in it   *)
(* (STORE_ENTRY_INVALID) or records without state.json                     *)
(* (REPORTER_STATE_LOST) ends without a change: a stuttering step.         *)

ReportBegin ==
    /\ rpc = "idle" /\ ~rstray
    /\ known \/ outbox = {}
    /\ known' = TRUE
    /\ rpc' = "drain" /\ round' = 1 /\ batch' = Pending(outbox)
    /\ attempts' = 0 /\ reason' = FALSE /\ memory' = checkpoints
    /\ UNCHANGED <<producerVars, checkpoints, blocked, outbox, rstray, current, fetched,
                   api, imported>>

\* drain() takes the records of the batch in order while nothing has failed.
Post(b) ==
    /\ rpc = "drain" /\ ~reason /\ attempts < MaxExports
    /\ b \in batch /\ \A c \in batch : ~Before(c, b)
    /\ batch' = batch \ {b}
    /\ attempts' = attempts + 1

\* The API keeps the first body of a key.
Accepts(b) == \A a \in api : SameKey(a, b) => a = b

\* ACCEPTED or DUPLICATE with the hash of the bytes sent (verify_ack).
PostAcknowledged(b) ==
    /\ Post(b) /\ Accepts(b)
    /\ api' = api \cup {b}
    /\ rpc' = "acked" /\ current' = b
    /\ UNCHANGED <<producerVars, storeVars, memory, round, reason, fetched, imported>>

\* Mutant: a lost answer is taken for an acknowledgement.
PostUnansweredTaken(b) ==
    /\ Post(b)
    /\ rpc' = "acked" /\ current' = b
    /\ UNCHANGED <<producerVars, storeVars, memory, round, reason, fetched, api, imported>>

\* The request or its answer is lost: the API may hold the record or not.
PostUnanswered(b) ==
    /\ Post(b)
    /\ api' \in {api} \cup (IF Accepts(b) THEN {api \cup {b}} ELSE {})
    /\ reason' = TRUE
    /\ UNCHANGED <<producerVars, storeVars, memory, rpc, round, current, fetched, imported>>

\* 409 for a different body of the key, 422 for one the API finds too old.
\* With the quarantine full the record stays pending (QUARANTINE_LIMIT).
PostRejected(b) ==
    /\ Post(b)
    /\ ~Accepts(b) \/ b \notin api
    /\ IF Cardinality(blocked) >= MaxBlocked
         THEN reason' = TRUE /\ UNCHANGED <<rpc, current>>
         ELSE rpc' = "rejected" /\ current' = b /\ UNCHANGED reason
    /\ UNCHANGED <<producerVars, storeVars, memory, round, fetched, api, imported>>

\* Mutant: the rejection is reported but not remembered.
QuarantineForgotten ==
    /\ rpc = "rejected"
    /\ rpc' = "drain" /\ reason' = TRUE /\ current' = None
    /\ UNCHANGED <<producerVars, storeVars, memory, round, batch, attempts, fetched, api, imported>>

\* The record is kept and named in state.json, unless that write fails.
Quarantine ==
    /\ rpc = "rejected"
    /\ \/ blocked' = blocked \cup {current}
       \/ "WRITE_FAILED" \in Faults /\ UNCHANGED blocked
    /\ rpc' = "drain" /\ reason' = TRUE /\ current' = None
    /\ UNCHANGED <<producerVars, known, checkpoints, outbox, rstray, memory, round, batch,
                   attempts, fetched, api, imported>>

CheckpointEpochs == {e \in Epochs : memory[e] # None}

\* Mutant: the number of epochs is not limited.
CheckpointRefusedOnConflict(b) ==
    LET previous == memory[b.sample.epoch]
    IN  previous # None /\ b.sample.sequence = previous.sample.sequence /\ b # previous

\* CHECKPOINT_LIMIT or CHECKPOINT_CONFLICT: the acknowledged record stays.
CheckpointRefused(b) ==
    LET previous == memory[b.sample.epoch]
    IN  IF previous = None
          THEN Cardinality(CheckpointEpochs) >= MaxCheckpoints
          ELSE b.sample.sequence = previous.sample.sequence /\ b # previous

\* The checkpoints after an acknowledgement; an older record changes nothing.
Advanced(b) ==
    LET previous == memory[b.sample.epoch]
    IN  IF previous # None /\ b.sample.sequence < previous.sample.sequence
          THEN memory
          ELSE [memory EXCEPT ![b.sample.epoch] = b]

\* The acknowledgement is made durable before the record goes away.
Checkpoint ==
    /\ rpc = "acked" /\ ~CheckpointRefused(current)
    /\ memory' = Advanced(current) /\ checkpoints' = memory'
    /\ rpc' = "checkpointed"
    /\ UNCHANGED <<producerVars, known, blocked, outbox, rstray, round, batch, attempts, reason,
                   current, fetched, api, imported>>

CheckpointRefuses ==
    /\ rpc = "acked" /\ CheckpointRefused(current)
    /\ rpc' = "drain" /\ reason' = TRUE /\ current' = None
    /\ UNCHANGED <<producerVars, storeVars, memory, round, batch, attempts, fetched, api, imported>>

\* Mutant: state.json is written in place, and a failed write tears it.
CheckpointWriteFailsTorn ==
    /\ rpc = "acked" /\ ~CheckpointRefused(current) /\ "WRITE_FAILED" \in Faults
    /\ memory' = Advanced(current) /\ checkpoints' = [e \in Epochs |-> None]
    /\ rpc' = "drain" /\ reason' = TRUE /\ current' = None
    /\ UNCHANGED <<producerVars, known, blocked, outbox, rstray, round, batch, attempts,
                   fetched, api, imported>>

\* A failed write may have replaced state.json or not; the run's own copy has moved.
CheckpointWriteFails ==
    /\ rpc = "acked" /\ ~CheckpointRefused(current) /\ "WRITE_FAILED" \in Faults
    /\ memory' = Advanced(current) /\ checkpoints' \in {checkpoints, memory'}
    /\ rpc' = "drain" /\ reason' = TRUE /\ current' = None
    /\ UNCHANGED <<producerVars, known, blocked, outbox, rstray, round, batch, attempts,
                   fetched, api, imported>>

\* ObservationStore.ack
Unlink ==
    /\ rpc = "checkpointed"
    /\ \/ outbox' = outbox \ {current} /\ UNCHANGED reason
       \/ /\ "WRITE_FAILED" \in Faults
          /\ outbox' \in {outbox, outbox \ {current}} /\ reason' = TRUE
    /\ rpc' = "drain" /\ current' = None
    /\ UNCHANGED <<producerVars, known, checkpoints, blocked, rstray, memory, round, batch,
                   attempts, fetched, api, imported>>

DrainEnds ==
    /\ rpc = "drain"
    /\ batch = {} \/ reason \/ attempts >= MaxExports

\* After the first drain the run turns to the source, after the second it ends.
Acquire ==
    /\ DrainEnds /\ round = 1
    /\ rpc' = "acquire" /\ batch' = {}
    /\ UNCHANGED <<producerVars, storeVars, memory, round, attempts, reason, current, fetched,
                   api, imported>>

\* read_latest under a shared lock, through the fixed SSH command.
Fetch ==
    /\ rpc = "acquire"
    /\ ~sampling /\ pstate # None /\ latest # None
    /\ latest.epoch = pstate.epoch /\ latest.sequence <= pstate.lastSequence
    /\ fetched' = latest /\ rpc' = "import"
    /\ UNCHANGED <<producerVars, storeVars, memory, round, batch, attempts, reason, current,
                   api, imported>>

FetchFails ==
    /\ rpc = "acquire"
    /\ reason' = TRUE
    /\ rpc' = "drain" /\ round' = 2 /\ batch' = Pending(outbox)
    /\ UNCHANGED <<producerVars, storeVars, memory, attempts, current, fetched, api, imported>>

-----------------------------------------------------------------------------
\* Whether the fetched sample is behind its epoch's checkpoint.
Checkpointed(s) == /\ memory[s.epoch] # None
                   /\ s.sequence <= memory[s.epoch].sample.sequence

Stored(s) == {b \in outbox : b.sample.epoch = s.epoch /\ b.sample.sequence = s.sequence}

\* Mutant: only the outbox is asked.
IsNewToOutbox(s) == Stored(s) = {}

\* Neither acknowledged nor waiting: only then is a body made of the sample.
IsNew(s) == ~Checkpointed(s) /\ Stored(s) = {}

\* Same number, other content, or a number below the checkpoint.
Conflicts(s) ==
    IF Checkpointed(s) THEN memory[s.epoch].sample # s
                       ELSE \E b \in Stored(s) : b.sample # s

StoreFull == Cardinality(outbox) >= MaxPendingSamples

\* Back to drain() with what the source part left in the outbox.
SecondDrain ==
    /\ rpc' = "drain" /\ round' = 2 /\ batch' = Pending(outbox')
    /\ fetched' = None
    /\ UNCHANGED <<producerVars, known, checkpoints, blocked, memory, attempts, current, api>>

\* The first body of a sample is stamped with the run's clock and stored.
Import(t) ==
    /\ rpc = "import" /\ IsNew(fetched) /\ ~StoreFull
    /\ LET body == [sample |-> fetched, receivedAt |-> t]
       IN  /\ outbox' = outbox \cup {body} /\ imported' = imported \cup {body}
           /\ reason' \in {reason} \cup (IF "WRITE_FAILED" \in Faults THEN {TRUE} ELSE {})
    /\ SecondDrain /\ UNCHANGED rstray

\* Known already, in conflict, no room, or the write failed before the link.
ImportNothing ==
    /\ rpc = "import"
    /\ ~IsNew(fetched) \/ StoreFull \/ "WRITE_FAILED" \in Faults
    /\ reason' = (reason \/ Conflicts(fetched) \/ IsNew(fetched))
    /\ UNCHANGED <<outbox, imported, rstray>>
    /\ SecondDrain

Stop == /\ memory' = [e \in Epochs |-> None]
        /\ rpc' = "idle" /\ round' = 1 /\ batch' = {} /\ attempts' = 0 /\ reason' = FALSE
        /\ current' = None /\ fetched' = None

\* The end of the run, which saves status.json.
ReportEnd ==
    /\ DrainEnds /\ round = 2
    /\ Stop
    /\ UNCHANGED <<producerVars, storeVars, api, imported>>

\* A kill may strike between any two steps, and inside a write it leaves the
\* temporary file behind: the first state.json, a checkpoint, a quarantine
\* entry, a record or status.json.
ReporterCrash ==
    /\ "KILLED" \in Faults
    /\ \/ rpc # "idle" /\ UNCHANGED rstray
       \/ rpc = "idle" /\ ~known /\ outbox = {} /\ rstray' = TRUE
       \/ rpc \in {"acked", "rejected", "import"} /\ rstray' = TRUE
       \/ DrainEnds /\ round = 2 /\ rstray' = TRUE
    /\ Stop
    /\ UNCHANGED <<producerVars, known, checkpoints, blocked, outbox, api, imported>>

\* A kill between link and unlink of put(): the record and the temporary file exist.
ReporterCrashInPut(t) ==
    /\ "KILLED" \in Faults
    /\ rpc = "import" /\ IsNew(fetched) /\ ~StoreFull
    /\ LET body == [sample |-> fetched, receivedAt |-> t]
       IN  outbox' = outbox \cup {body} /\ imported' = imported \cup {body}
    /\ rstray' = TRUE
    /\ Stop
    /\ UNCHANGED <<producerVars, known, checkpoints, blocked, api>>

\* Nothing in the program removes a stray entry: an operator does.
OperatorClears ==
    /\ rpc = "idle" /\ rstray
    /\ rstray' = FALSE
    /\ UNCHANGED <<producerVars, known, checkpoints, blocked, outbox, runVars, api, imported>>

ReporterStateLost ==
    /\ rpc = "idle" /\ known /\ "REPORTER_STATE_LOST" \in Faults
    /\ known' = FALSE
    /\ checkpoints' = [e \in Epochs |-> None] /\ blocked' = {}
    /\ UNCHANGED <<producerVars, outbox, rstray, runVars, api, imported>>

-----------------------------------------------------------------------------
ProducerNext ==
    \/ \E e \in Epochs, m \in Minutes : SampleFirst(e, m)
    \/ \E m \in Minutes : SampleReserve(m)
    \/ \E o \in Outcomes : SamplePublish(o)
    \/ SamplerCrash
    \/ ProducerReset \/ ProducerStateLost \/ ProducerRestored

ReporterNext ==
    \/ ReportBegin
    \/ \E b \in batch : PostAcknowledged(b) \/ PostUnanswered(b) \/ PostRejected(b)
    \/ Quarantine \/ Checkpoint \/ CheckpointRefuses \/ CheckpointWriteFails \/ Unlink
    \/ Acquire \/ Fetch \/ FetchFails \/ ImportNothing \/ ReportEnd
    \/ \E t \in ReceiveTimes : Import(t) \/ ReporterCrashInPut(t)
    \/ ReporterCrash \/ OperatorClears \/ ReporterStateLost

Next == ProducerNext \/ ReporterNext

Spec == Init /\ [][Next]_vars

\* The timer starts a run again and again, a run goes on unless it is killed,
\* and an operator clears a stray file.  A step that kills or lost answers can
\* pre-empt is taken if it is possible again and again: the API is reachable and
\* the host stays up often enough for each step of a delivery.
Fairness ==
    /\ WF_vars(ReportBegin) /\ WF_vars(OperatorClears)
    /\ WF_vars(Acquire \/ FetchFails \/ ImportNothing \/ ReportEnd)
    /\ WF_vars(\E t \in ReceiveTimes : Import(t))
    /\ SF_vars(\E b \in batch : PostAcknowledged(b) \/ PostRejected(b))
    /\ SF_vars(Quarantine /\ blocked' # blocked)
    /\ SF_vars(Checkpoint) /\ SF_vars(Unlink /\ outbox' # outbox)

FairSpec == Spec /\ Fairness

-----------------------------------------------------------------------------
FlagsOK == /\ sampling \in BOOLEAN /\ pstray \in BOOLEAN
           /\ known \in BOOLEAN /\ rstray \in BOOLEAN /\ reason \in BOOLEAN

ProducerTypeOK ==
    /\ pstate \in ProducerState \cup {None}
    /\ latest \in Sample \cup {None}
    /\ published \subseteq Sample /\ epochsUsed \subseteq Epochs
    /\ sampling => pstate # None

StoreTypeOK ==
    /\ checkpoints \in [Epochs -> Body \cup {None}]
    /\ blocked \subseteq Body /\ outbox \subseteq Body
    /\ api \subseteq Body /\ imported \subseteq Body

\* A step that needs a record or a fetched sample has one.
RunTypeOK ==
    /\ memory \in [Epochs -> Body \cup {None}]
    /\ rpc \in {"idle", "drain", "rejected", "acked", "checkpointed", "acquire", "import"}
    /\ round \in {1, 2} /\ attempts \in 0..MaxExports
    /\ batch \subseteq Body
    /\ current \in Body \cup {None} /\ fetched \in Sample \cup {None}
    /\ rpc \in {"rejected", "acked", "checkpointed"} => current # None
    /\ rpc = "import" => fetched # None

\* Every variable has its type, and whoever is about to checkpoint, quarantine,
\* unlink, import or publish has what it needs in hand.
TypeOK == FlagsOK /\ ProducerTypeOK /\ StoreTypeOK /\ RunTypeOK

\* A sample is stamped with a receive time once: whatever is killed, retried,
\* rolled back or written twice, no second body is ever made for its number, so
\* the API never sees two contents of one (epoch, sequence) from this reporter.
OneBodyPerSample == \A a, b \in imported : SameKey(a, b) => a = b

\* A sample that reached the outbox is in the outbox or in the API's table:
\* no crash between POST, checkpoint and unlink loses it.
NoImportedSampleLost == imported \subseteq outbox \cup api

\* The checkpoint of an epoch is a watermark: it passes an imported sample only
\* when the API holds it or its rejection is on record.
WatermarkIsExact ==
    \A b \in imported :
        LET previous == checkpoints[b.sample.epoch]
        IN  (previous # None /\ b.sample.sequence <= previous.sample.sequence)
                => b \in api \cup blocked

\* No step, killed or failing, takes back the watermark of any epoch.
CheckpointNeverRegresses ==
    [][\A e \in Epochs :
         checkpoints[e] # None =>
            /\ checkpoints'[e] # None
            /\ checkpoints[e].sample.sequence <= checkpoints'[e].sample.sequence]_vars

\* The reporter's store stays within the limits that its own next run enforces:
\* reporter_state() rejects too many checkpoints or quarantined keys, _entries()
\* too many records.
StoreStaysLoadable ==
    /\ Cardinality({e \in Epochs : checkpoints[e] # None}) <= MaxCheckpoints
    /\ Cardinality(blocked) <= MaxBlocked
    /\ Cardinality(outbox) <= MaxPendingSamples

\* Within an epoch the published numbers order the samples by minute and never
\* name two samples, however the sampler is killed between reserving a number
\* and publishing it, and whatever its clock does.
SequenceIdentifiesSample ==
    \A a, b \in published :
        a.epoch = b.epoch =>
            /\ a.sequence = b.sequence => a = b
            /\ a.sequence < b.sequence => a.at < b.at

\* Every stored sample is in the end delivered or quarantined; in particular a
\* rejected sample is not POSTed for ever and does not hold up the ones behind it.
EveryImportIsSettled ==
    \A b \in Body : b \in outbox ~> (b \notin outbox \/ b \in blocked)

=============================================================================
