------------------------ MODULE DatabaseBackupProofs ------------------------
(***************************************************************************)
(* The database's recovery points, for every retention, every clock and    *)
(* any number of kills, clock steps and changes on the server: the         *)
(* checkpoint can be restored, and the readers' answers are true.          *)
(***************************************************************************)
EXTENDS DatabaseBackup, FiniteSetTheorems, TLAPS

-----------------------------------------------------------------------------
(* Types.                                                                  *)

Epochs == 1 .. MaxEpoch
DataT == [body : {"ok", "cut", "rot"}, print : Nat, failed : BOOLEAN]
ProofT == [print : Nat, verified : Nat]
Pcs == {"idle", "clean", "make", "named", "dumped", "uploaded", "verified", "published",
        "saved", "prune", "done"}

Nameless == {"idle", "clean", "make"}

ServerTypes ==
    /\ now \in Epochs /\ harm \in Nat
    /\ DOMAIN data \subseteq Epochs /\ data \in [DOMAIN data -> DataT]
    /\ DOMAIN proofs \subseteq Epochs /\ proofs \in [DOMAIN proofs -> ProofT]

\* The attempt's number and the epoch a reader looks at are what CHOOSE and Max give.
JobTypes ==
    /\ backup \in [pc : Pcs, id : {backup.id}, epoch : 0 .. MaxEpoch, print : Nat,
                   remove : SUBSET Epochs, pairs : SUBSET Epochs]
    /\ backup.pc \notin Nameless => backup.epoch \in Epochs

ReaderTypes ==
    reader \in [who : Readers \cup {"none"}, pc : {"idle", "proofs", "listed", "receipt", "restored"},
                epoch : {reader.epoch}, receipt : ProofT,
                result : {"none", "FAILED", "WARNING", "HEALTHY", "VERIFIED"}, harm : Nat]

-----------------------------------------------------------------------------
(* The inductive invariant.                                                *)

\* The manifest that was read back is of whole data; the job's own point is on the
\* server unless others took it; what retention is about to remove is not that point,
\* and a proof goes only when its data has gone.
JobInv ==
    /\ (/\ backup.pc = "verified" /\ backup.epoch \in DOMAIN data
        /\ data[backup.epoch].print = backup.print) => data[backup.epoch].body # "cut"
    /\ (backup.pc \in {"uploaded", "verified", "published", "saved", "prune"} /\ harm = 0)
         => backup.epoch \in DOMAIN data
    /\ backup.pc \in {"saved", "prune"} => checkpoint = backup.epoch
    /\ backup.pc = "prune" =>
         /\ backup.epoch \notin backup.remove /\ backup.pairs \subseteq backup.remove
         /\ \A e \in backup.remove \ backup.pairs : e \notin DOMAIN data

\* A proof is of whole data, and the checkpoint's point is there.
PointInv ==
    /\ \A e \in DOMAIN proofs \cap DOMAIN data :
          data[e].print = proofs[e].print => data[e].body # "cut"
    /\ (checkpoint # 0 /\ harm = 0) =>
          checkpoint \in DOMAIN proofs /\ checkpoint \in DOMAIN data

\* A run begins with the newest attempt at most.
SpoolInv ==
    /\ IsFiniteSet(spool) /\ Cardinality(spool) <= 2
    /\ backup.pc = "make" => Cardinality(spool) <= 1

\* Data that agrees with the receipt in the reader's hand still has that proof, and what
\* the verifier has restored is what is there.
ReaderInv ==
    /\ reader.pc # "idle" => reader.result = "none" /\ reader.harm <= harm
    /\ reader.pc = "restored" => reader.who = "verifier"
    /\ (/\ reader.pc \in {"receipt", "restored"} /\ reader.epoch \in DOMAIN data
        /\ data[reader.epoch].print = reader.receipt.print) =>
          reader.epoch \in DOMAIN proofs /\ proofs[reader.epoch].print = reader.receipt.print
    /\ (/\ reader.pc = "restored" /\ reader.harm = harm /\ reader.epoch \in DOMAIN data
        /\ data[reader.epoch].print = reader.receipt.print) => data[reader.epoch].body = "ok"


Types == ServerTypes /\ JobTypes /\ ReaderTypes
BInv == Types /\ JobInv /\ PointInv /\ SpoolInv /\ ReaderInv

-----------------------------------------------------------------------------
(* A manifest nobody has seen exists.                                      *)

LEMMA ImageSize ==
    ASSUME NEW S, IsFiniteSet(S), NEW g, g = [x \in S |-> g[x]]
    PROVE  IsFiniteSet({g[x] : x \in S}) /\ Cardinality({g[x] : x \in S}) <= Cardinality(S)
<1>1. g \in Surjection(S, {g[x] : x \in S})
  BY DEF Surjection
<1> QED BY <1>1, FS_Surjection

LEMMA OneMore ==
    ASSUME NEW S, IsFiniteSet(S), NEW n \in Nat, Cardinality(S) <= n, NEW x
    PROVE  /\ IsFiniteSet(S \cup {x}) /\ Cardinality(S \cup {x}) \in Nat
           /\ Cardinality(S \cup {x}) <= n + 1
<1>1. IsFiniteSet(S \cup {x}) /\ Cardinality(S \cup {x}) \in {Cardinality(S), Cardinality(S) + 1}
  BY FS_AddElement
<1>2. Cardinality(S) \in Nat
  BY FS_CardinalityType
<1> QED BY <1>1, <1>2

\* Epochs number the snapshots, so a listing has no more prints than epochs.
LEMMA PrintsOfListing ==
    ASSUME NEW s, DOMAIN s \subseteq Epochs
    PROVE  /\ IsFiniteSet({s[e].print : e \in DOMAIN s})
           /\ Cardinality({s[e].print : e \in DOMAIN s}) \in Nat
           /\ Cardinality({s[e].print : e \in DOMAIN s}) <= MaxEpoch
<1> DEFINE g == [e \in DOMAIN s |-> s[e].print]
           P == {g[e] : e \in DOMAIN s}
<1>1. {s[e].print : e \in DOMAIN s} = P
  OBVIOUS
<1>2. IsFiniteSet(Epochs) /\ Cardinality(Epochs) = MaxEpoch
  <2>1. MaxEpoch \in Int /\ 1 \in Int /\ ~(1 > MaxEpoch) /\ MaxEpoch - 1 + 1 = MaxEpoch
    BY BackupAssumption
  <2> QED BY <2>1, FS_Interval DEF Epochs
<1>3. IsFiniteSet(DOMAIN s) /\ Cardinality(DOMAIN s) <= MaxEpoch
  BY <1>2, FS_Subset
<1>4. IsFiniteSet(P) /\ Cardinality(P) <= Cardinality(DOMAIN s)
  <2>1. g = [e \in DOMAIN s |-> g[e]] OBVIOUS
  <2> HIDE DEF g
  <2> QED BY <1>3, <2>1, ImageSize
<1> HIDE DEF P
<1>5. Cardinality(P) \in Nat /\ Cardinality(DOMAIN s) \in Nat
  BY <1>3, <1>4, FS_CardinalityType
<1>6. Cardinality(P) <= MaxEpoch
  BY <1>3, <1>4, <1>5, BackupAssumption
<1> QED BY <1>1, <1>4, <1>5, <1>6

\* The prints on the server and in hand are fewer than the prints to choose from.
LEMMA FreshPrintIsNew ==
    ASSUME ServerTypes
    PROVE  /\ FreshPrint \in Nat
           /\ \A e \in DOMAIN data : data[e].print # FreshPrint
           /\ \A e \in DOMAIN proofs : proofs[e].print # FreshPrint
           /\ FreshPrint # backup.print /\ FreshPrint # reader.receipt.print
<1> DEFINE A == {data[e].print : e \in DOMAIN data}
           B == {proofs[e].print : e \in DOMAIN proofs}
           C == (A \cup B) \cup {backup.print}
           D == C \cup {reader.receipt.print}
           N == 2 * MaxEpoch + 3
<1>1. /\ IsFiniteSet(A) /\ Cardinality(A) \in Nat /\ Cardinality(A) <= MaxEpoch
      /\ IsFiniteSet(B) /\ Cardinality(B) \in Nat /\ Cardinality(B) <= MaxEpoch
  BY PrintsOfListing DEF ServerTypes
<1>2. IsFiniteSet(A \cup B) /\ Cardinality(A \cup B) \in Nat
      /\ Cardinality(A \cup B) <= 2 * MaxEpoch
  <2> HIDE DEF A, B
  <2>1. IsFiniteSet(A \cup B)
        /\ Cardinality(A \cup B) = Cardinality(A) + Cardinality(B) - Cardinality(A \cap B)
    BY <1>1, FS_Union
  <2>2. IsFiniteSet(A \cap B)
    <3>1. A \cap B \in SUBSET A OBVIOUS
    <3> QED BY <1>1, <3>1, FS_Subset
  <2>3. Cardinality(A \cap B) \in Nat /\ Cardinality(A \cup B) \in Nat
    BY <2>1, <2>2, FS_CardinalityType
  <2> QED BY <1>1, <2>1, <2>3, BackupAssumption
<1>3. IsFiniteSet(C) /\ Cardinality(C) \in Nat /\ Cardinality(C) <= 2 * MaxEpoch + 1
  <2> HIDE DEF A, B
  <2>1. 2 * MaxEpoch \in Nat BY BackupAssumption
  <2> QED BY <1>2, <2>1, OneMore
<1>4. IsFiniteSet(D) /\ Cardinality(D) \in Nat /\ Cardinality(D) <= 2 * MaxEpoch + 2
  <2> HIDE DEF C
  <2>1. 2 * MaxEpoch + 1 \in Nat /\ (2 * MaxEpoch + 1) + 1 = 2 * MaxEpoch + 2
    BY BackupAssumption
  <2> QED BY <1>3, <2>1, OneMore
<1>5. N \in Nat /\ IsFiniteSet(1..N) /\ Cardinality(1..N) = N
  <2>1. N \in Nat /\ N \in Int /\ 1 \in Int /\ ~(1 > N) /\ N - 1 + 1 = N
    BY BackupAssumption
  <2> HIDE DEF N
  <2> QED BY <2>1, FS_Interval
<1>6. ~(1..N \subseteq D)
  <2> HIDE DEF D
  <2> SUFFICES ASSUME 1..N \subseteq D PROVE FALSE OBVIOUS
  <2>1. Cardinality(1..N) <= Cardinality(D)
    <3>1. 1..N \in SUBSET D OBVIOUS
    <3> QED BY <1>4, <3>1, FS_Subset
  <2> QED BY <1>4, <1>5, <2>1, BackupAssumption
<1>7. PICK p \in 1..N : p \notin D
  BY <1>6
<1>8. \E q \in 1..N : /\ \A e \in DOMAIN data : data[e].print # q
                      /\ \A e \in DOMAIN proofs : proofs[e].print # q
                      /\ q \notin {backup.print, reader.receipt.print}
  <2>1. /\ \A e \in DOMAIN data : data[e].print # p
        /\ \A e \in DOMAIN proofs : proofs[e].print # p
        /\ p \notin {backup.print, reader.receipt.print}
    BY <1>7
  <2> QED BY <2>1
<1>9. /\ FreshPrint \in 1..N
      /\ \A e \in DOMAIN data : data[e].print # FreshPrint
      /\ \A e \in DOMAIN proofs : proofs[e].print # FreshPrint
      /\ FreshPrint \notin {backup.print, reader.receipt.print}
  BY <1>8 DEF FreshPrint
<1> QED BY <1>9

-----------------------------------------------------------------------------
(* The listings.                                                           *)

LEMMA WithoutListing ==
    ASSUME NEW s, NEW e
    PROVE  /\ DOMAIN Without(s, e) = DOMAIN s \ {e}
           /\ \A x \in DOMAIN s \ {e} : Without(s, e)[x] = s[x]
BY DEF Without, Restrict

LEMMA ListingTypes ==
    ASSUME NEW T, NEW s, DOMAIN s \subseteq Epochs, s \in [DOMAIN s -> T], NEW e
    PROVE  /\ \A v \in T : e \in Epochs =>
                 /\ DOMAIN Stored(s, e, v) \subseteq Epochs
                 /\ Stored(s, e, v) \in [DOMAIN Stored(s, e, v) -> T]
           /\ DOMAIN Without(s, e) \subseteq Epochs
           /\ Without(s, e) \in [DOMAIN Without(s, e) -> T]
<1>1. Without(s, e) \in [DOMAIN s \ {e} -> T] /\ DOMAIN Without(s, e) = DOMAIN s \ {e}
  BY DEF Without, Restrict
<1>2. ASSUME NEW v \in T PROVE Stored(s, e, v) \in [DOMAIN s \cup {e} -> T]
                               /\ DOMAIN Stored(s, e, v) = DOMAIN s \cup {e}
  BY <1>2 DEF Stored
<1> QED BY <1>1, <1>2

-----------------------------------------------------------------------------
(* The spool.                                                              *)

LEMMA SpoolSets ==
    ASSUME SpoolInv
    PROVE  /\ \A s : IsFiniteSet(Marked(s)) /\ Cardinality(Marked(s)) <= 2
           /\ LET torn == {IF a = NewestAttempt THEN a ELSE [a EXCEPT !.status = "NONE"] : a \in spool}
              IN  IsFiniteSet(torn) /\ Cardinality(torn) <= 2
           /\ LET left == {a \in spool : a.id # backup.id}
              IN  IsFiniteSet(left) /\ Cardinality(left) <= 2
           /\ LET kept == IF spool = {} THEN {} ELSE {NewestAttempt}
              IN  IsFiniteSet(kept) /\ Cardinality(kept) <= 1
           /\ \A x : backup.pc = "make" =>
                 IsFiniteSet(spool \cup {x}) /\ Cardinality(spool \cup {x}) <= 2
<1>1. IsFiniteSet(spool) /\ Cardinality(spool) \in Nat /\ Cardinality(spool) <= 2
  BY FS_CardinalityType DEF SpoolInv
<1>2. ASSUME NEW g, g = [a \in spool |-> g[a]]
      PROVE  IsFiniteSet({g[a] : a \in spool}) /\ Cardinality({g[a] : a \in spool}) <= 2
  <2> DEFINE G == {g[a] : a \in spool}
  <2>1. IsFiniteSet(G) /\ Cardinality(G) <= Cardinality(spool)
    BY <1>1, <1>2, ImageSize
  <2> HIDE DEF G
  <2>2. Cardinality(G) \in Nat
    BY <2>1, FS_CardinalityType
  <2>3. IsFiniteSet(G) /\ Cardinality(G) <= 2
    BY <1>1, <2>1, <2>2
  <2> QED BY <2>3 DEF G
<1>3. ASSUME NEW s PROVE IsFiniteSet(Marked(s)) /\ Cardinality(Marked(s)) <= 2
  <2> DEFINE g == [a \in spool |-> IF a.id = backup.id THEN [a EXCEPT !.status = s] ELSE a]
  <2>1. g = [a \in spool |-> g[a]] /\ Marked(s) = {g[a] : a \in spool}
    BY DEF Marked
  <2> HIDE DEF g
  <2> QED BY <1>2, <2>1
<1>4. LET torn == {IF a = NewestAttempt THEN a ELSE [a EXCEPT !.status = "NONE"] : a \in spool}
      IN  IsFiniteSet(torn) /\ Cardinality(torn) <= 2
  <2> DEFINE g == [a \in spool |-> IF a = NewestAttempt THEN a ELSE [a EXCEPT !.status = "NONE"]]
  <2>1. g = [a \in spool |-> g[a]]
        /\ {IF a = NewestAttempt THEN a ELSE [a EXCEPT !.status = "NONE"] : a \in spool}
             = {g[a] : a \in spool}
    OBVIOUS
  <2> HIDE DEF g
  <2> QED BY <1>2, <2>1
<1>5. LET left == {a \in spool : a.id # backup.id}
      IN  IsFiniteSet(left) /\ Cardinality(left) <= 2
  <2> DEFINE L == {a \in spool : a.id # backup.id}
  <2>1. L \in SUBSET spool OBVIOUS
  <2> HIDE DEF L
  <2>2. IsFiniteSet(L) /\ Cardinality(L) <= Cardinality(spool)
    BY <1>1, <2>1, FS_Subset
  <2>3. Cardinality(L) \in Nat
    BY <2>2, FS_CardinalityType
  <2>4. IsFiniteSet(L) /\ Cardinality(L) <= 2
    BY <1>1, <2>2, <2>3
  <2> QED BY <2>4 DEF L
<1>6. LET kept == IF spool = {} THEN {} ELSE {NewestAttempt}
      IN  IsFiniteSet(kept) /\ Cardinality(kept) <= 1
  <2>1. IsFiniteSet({}) /\ Cardinality({}) = 0
    BY FS_EmptySet
  <2>2. IsFiniteSet({NewestAttempt}) /\ Cardinality({NewestAttempt}) = 1
    BY FS_Singleton
  <2> QED BY <2>1, <2>2
<1>7. ASSUME NEW x, backup.pc = "make"
      PROVE  IsFiniteSet(spool \cup {x}) /\ Cardinality(spool \cup {x}) <= 2
  <2>1. 1 \in Nat /\ 1 + 1 = 2 /\ Cardinality(spool) <= 1
    BY <1>7 DEF SpoolInv
  <2> QED BY <1>1, <2>1, OneMore
<1> QED BY <1>3, <1>4, <1>5, <1>6, <1>7

-----------------------------------------------------------------------------
(* The job.                                                                *)

LEMMA Initially == BackupInit => BInv
<1> SUFFICES ASSUME BackupInit PROVE BInv OBVIOUS
<1> USE DEF BackupInit, NoBackup, NoReader, NoReceipt
<1>1. DOMAIN data = {} /\ DOMAIN proofs = {} /\ data = [e \in {} |-> 0] /\ proofs = [e \in {} |-> 0]
  OBVIOUS
<1>2. Types
  <2>1. ServerTypes BY <1>1, BackupAssumption DEF ServerTypes, Epochs
  <2>2. JobTypes BY BackupAssumption DEF JobTypes, Pcs, Epochs, Nameless
  <2>3. ReaderTypes BY DEF ReaderTypes, ProofT
  <2> QED BY <2>1, <2>2, <2>3 DEF Types
<1>3. JobInv /\ PointInv /\ ReaderInv
  BY <1>1 DEF JobInv, PointInv, ReaderInv
<1>4. SpoolInv
  BY FS_EmptySet DEF SpoolInv
<1> QED BY <1>2, <1>3, <1>4 DEF BInv

\* What a step of the job leaves alone.
Quiet == UNCHANGED <<now, data, proofs, checkpoint, reader, harm>>

LEMMA QuietStep ==
    ASSUME BInv, Quiet, JobTypes', JobInv', SpoolInv'
    PROVE  BInv'
BY DEF BInv, Types, Quiet, ServerTypes, ReaderTypes, PointInv, ReaderInv

\* A step that only moves the job where its invariant asks nothing of it.
LEMMA OrdinaryStep ==
    ASSUME BInv, Quiet, JobTypes', backup'.pc \in {"idle", "clean", "make", "named", "dumped", "done"},
           IsFiniteSet(spool'), Cardinality(spool') <= 2,
           backup'.pc = "make" => Cardinality(spool') <= 1
    PROVE  BInv'
<1>1. JobInv' BY DEF JobInv
<1>2. SpoolInv' BY DEF SpoolInv
<1> QED BY <1>1, <1>2, QuietStep

LEMMA IdleJob == backup' = NoBackup => JobTypes' /\ backup'.pc = "idle"
BY BackupAssumption DEF JobTypes, NoBackup, Pcs, Nameless

LEMMA MovedJob ==
    ASSUME JobTypes, NEW p \in Pcs, backup' = [backup EXCEPT !.pc = p],
           p \in Nameless \/ backup.pc \notin Nameless
    PROVE  JobTypes' /\ backup'.pc = p
BY DEF JobTypes, Pcs

LEMMA AttemptSteps ==
    ASSUME BInv, \/ BackupBegins \/ CleanOwnedFailedSpool \/ MakeAttempt \/ DumpDatabase
                 \/ EndRetention \/ RemoveAttempt \/ BackupFails
                 \/ \E t \in BOOLEAN : BackupKilled(t)
    PROVE  BInv'
<1> USE DEF KeepServer, KeepOthers, Quiet
<1>0. /\ JobTypes /\ SpoolInv /\ IsFiniteSet(spool) /\ Cardinality(spool) <= 2
  BY DEF BInv, Types, SpoolInv
<1>1. CASE BackupBegins
  <2>1. Quiet /\ spool' = spool /\ JobTypes' /\ backup'.pc = "clean"
    BY <1>0, <1>1, MovedJob DEF BackupBegins, Step, Pcs, Nameless
  <2> QED BY <1>0, <2>1, OrdinaryStep
<1>2. CASE CleanOwnedFailedSpool
  <2>1. Quiet /\ JobTypes' /\ backup'.pc = "make"
    BY <1>0, <1>2, MovedJob DEF CleanOwnedFailedSpool, Step, Pcs, Nameless
  <2>2. IsFiniteSet(spool') /\ Cardinality(spool') <= 1 /\ Cardinality(spool') \in Nat
    BY <1>0, <1>2, SpoolSets, FS_CardinalityType DEF CleanOwnedFailedSpool
  <2>3. Cardinality(spool') <= 2
    BY <2>2
  <2> QED BY <2>1, <2>2, <2>3, OrdinaryStep
<1>3. CASE MakeAttempt
  <2>1. PICK id : /\ backup' = [NoBackup EXCEPT !.pc = "named", !.id = id, !.epoch = now]
                  /\ spool' = spool \cup {[id |-> id, epoch |-> now, status |-> "NONE"]}
    BY <1>3 DEF MakeAttempt
  <2>2. JobTypes' /\ backup'.pc = "named"
    <3>1. now \in 0 .. MaxEpoch /\ now \in Epochs BY BackupAssumption DEF BInv, Types, ServerTypes, Epochs
    <3> QED BY <2>1, <3>1 DEF JobTypes, NoBackup, Pcs, Nameless
  <2>3. Quiet /\ backup.pc = "make"
    BY <1>3 DEF MakeAttempt
  <2> QED BY <1>0, <2>1, <2>2, <2>3, SpoolSets, OrdinaryStep
<1>4. CASE DumpDatabase
  <2>1. Quiet /\ JobTypes' /\ backup'.pc = "dumped"
    BY <1>0, <1>4, MovedJob DEF DumpDatabase, Step, Pcs, Nameless
  <2>2. spool' = Marked("STARTED")
    BY <1>4 DEF DumpDatabase
  <2> QED BY <1>0, <2>1, <2>2, SpoolSets, OrdinaryStep
<1>5. CASE EndRetention
  <2>1. Quiet /\ spool' = spool
    BY <1>5 DEF EndRetention
  <2>2. JobTypes' /\ backup'.pc = "done"
    BY <1>0, <1>5 DEF EndRetention, JobTypes, Pcs, Nameless
  <2> QED BY <1>0, <2>1, <2>2, OrdinaryStep
<1>6. CASE RemoveAttempt
  <2>1. Quiet /\ backup' = NoBackup /\ spool' = {a \in spool : a.id # backup.id}
    BY <1>6 DEF RemoveAttempt
  <2> QED BY <1>0, <2>1, IdleJob, SpoolSets, OrdinaryStep
<1>7. CASE BackupFails
  <2>1. Quiet /\ backup' = NoBackup /\ spool' = Marked("FAILED_OR_UNCONFIRMED")
    BY <1>7 DEF BackupFails
  <2> QED BY <1>0, <2>1, IdleJob, SpoolSets, OrdinaryStep
<1>8. CASE \E t \in BOOLEAN : BackupKilled(t)
  <2>1. Quiet /\ backup' = NoBackup
    BY <1>8 DEF BackupKilled
  <2>2. IsFiniteSet(spool') /\ Cardinality(spool') <= 2
    <3>1. PICK t \in BOOLEAN : BackupKilled(t) BY <1>8
    <3> DEFINE T == {IF a = NewestAttempt THEN a ELSE [a EXCEPT !.status = "NONE"] : a \in spool}
    <3>2. spool' = spool \/ spool' = Marked("NONE") \/ spool' = T
      BY <3>1 DEF BackupKilled
    <3>3. IsFiniteSet(T) /\ Cardinality(T) <= 2
      BY <1>0, SpoolSets
    <3> HIDE DEF T
    <3> QED BY <1>0, <3>2, <3>3, SpoolSets
  <2> QED BY <2>1, <2>2, IdleJob, OrdinaryStep
<1> QED BY <1>1, <1>2, <1>3, <1>4, <1>5, <1>6, <1>7, <1>8

LEMMA RecordSteps ==
    ASSUME BInv, ReadBack \/ PrunePreview
    PROVE  BInv'
<1> USE DEF KeepServer, KeepOthers, Quiet
<1>0. JobTypes /\ ServerTypes /\ JobInv /\ SpoolInv BY DEF BInv, Types
<1>1. CASE ReadBack
  <2>1. Quiet /\ spool' = spool BY <1>1 DEF ReadBack
  <2>2. JobTypes'
    BY <1>0, <1>1 DEF ReadBack, JobTypes, ServerTypes, DataT, Pcs, Nameless
  <2>3. backup'.pc = "verified" /\ backup'.epoch = backup.epoch
    BY <1>0, <1>1 DEF ReadBack, JobTypes
  <2>4. JobInv'
    BY <1>0, <1>1, <2>3 DEF ReadBack, JobInv
  <2>5. SpoolInv' BY <1>0, <2>1, <2>3 DEF SpoolInv
  <2> QED BY <2>1, <2>2, <2>4, <2>5, QuietStep
<1>2. CASE PrunePreview
  <2> DEFINE R == DOMAIN proofs \ Newest(DOMAIN proofs)
  <2>1. Quiet /\ spool' = spool BY <1>2 DEF PrunePreview
  <2>2. backup' = [backup EXCEPT !.pc = "prune", !.remove = R, !.pairs = R \cap DOMAIN data]
    BY <1>2 DEF PrunePreview
  <2>3. R \subseteq Epochs /\ backup.epoch \notin R /\ backup.pc = "saved"
    BY <1>0, <1>2 DEF PrunePreview, ServerTypes
  <2> HIDE DEF R
  <2>4. JobTypes'
    BY <1>0, <2>2, <2>3 DEF JobTypes, Pcs, Nameless
  <2>5. /\ backup'.pc = "prune" /\ backup'.epoch = backup.epoch /\ backup'.remove = R
        /\ backup'.pairs = R \cap DOMAIN data
    BY <1>0, <2>2 DEF JobTypes
  <2>6. JobInv'
    BY <1>0, <2>1, <2>3, <2>5 DEF JobInv
  <2>7. SpoolInv' BY <1>0, <2>1, <2>5 DEF SpoolInv
  <2> QED BY <2>1, <2>4, <2>6, <2>7, QuietStep
<1> QED BY <1>1, <1>2

-----------------------------------------------------------------------------
(* The server.                                                             *)

LEMMA UploadStep ==
    ASSUME BInv, NEW b \in {"ok", "cut"}, UploadData(b)
    PROVE  BInv'
<1> DEFINE v == [body |-> b, print |-> FreshPrint, failed |-> FALSE]
<1> USE DEF KeepOthers
<1>0. JobTypes /\ ServerTypes /\ ReaderTypes /\ JobInv /\ PointInv /\ SpoolInv /\ ReaderInv
  BY DEF BInv, Types
<1>1. /\ backup.pc = "dumped" /\ backup.epoch \notin DOMAIN data
      /\ data' = Stored(data, backup.epoch, v)
      /\ UNCHANGED <<proofs, checkpoint, spool, now, reader, harm>>
  BY DEF UploadData, Step
<1>2. JobTypes' /\ backup'.pc = "uploaded" /\ backup'.epoch = backup.epoch
  BY <1>0, MovedJob DEF UploadData, Step, Pcs, JobTypes, Nameless
<1>3. /\ v \in DataT /\ v.print = FreshPrint
      /\ \A e \in DOMAIN proofs : proofs[e].print # v.print
      /\ v.print # backup.print /\ v.print # reader.receipt.print
  BY <1>0, FreshPrintIsNew DEF DataT
<1> HIDE DEF v
<1>4. /\ DOMAIN data' = DOMAIN data \cup {backup.epoch} /\ data'[backup.epoch] = v
      /\ \A x \in DOMAIN data : data'[x] = data[x]
  <2>1. \A x \in DOMAIN data : x # backup.epoch BY <1>1
  <2> QED BY <1>1, <2>1 DEF Stored
<1>5. backup.epoch \in Epochs
  BY <1>0, <1>1 DEF JobTypes, Nameless
<1>6. ServerTypes'
  BY <1>0, <1>1, <1>3, <1>5, ListingTypes DEF ServerTypes
<1>7. ReaderTypes' BY <1>0, <1>1 DEF ReaderTypes
<1>8. JobInv' BY <1>2, <1>4 DEF JobInv
<1>9. PointInv' BY <1>0, <1>1, <1>3, <1>4 DEF PointInv
<1>10. SpoolInv' BY <1>0, <1>1, <1>2 DEF SpoolInv
<1>11. ReaderInv' BY <1>0, <1>1, <1>3, <1>4 DEF ReaderInv
<1> QED BY <1>2, <1>6, <1>7, <1>8, <1>9, <1>10, <1>11 DEF BInv, Types

LEMMA PublishStep ==
    ASSUME BInv, PublishProof
    PROVE  BInv'
<1> DEFINE v == [print |-> backup.print, verified |-> now]
<1> USE DEF KeepOthers
<1>0. JobTypes /\ ServerTypes /\ ReaderTypes /\ JobInv /\ PointInv /\ SpoolInv /\ ReaderInv
  BY DEF BInv, Types
<1>1. /\ backup.pc = "verified" /\ backup.epoch \notin DOMAIN proofs
      /\ proofs' = Stored(proofs, backup.epoch, v)
      /\ UNCHANGED <<data, checkpoint, spool, now, reader, harm>>
  BY DEF PublishProof, Step
<1>2. JobTypes' /\ backup'.pc = "published" /\ backup'.epoch = backup.epoch
  BY <1>0, MovedJob DEF PublishProof, Step, Pcs, JobTypes, Nameless
<1>3. v \in ProofT /\ v.print = backup.print
  BY <1>0 DEF ProofT, JobTypes, ServerTypes, Epochs
<1> HIDE DEF v
<1>4. /\ DOMAIN proofs' = DOMAIN proofs \cup {backup.epoch} /\ proofs'[backup.epoch] = v
      /\ \A x \in DOMAIN proofs : proofs'[x] = proofs[x]
  <2>1. \A x \in DOMAIN proofs : x # backup.epoch BY <1>1
  <2> QED BY <1>1, <2>1 DEF Stored
<1>5. backup.epoch \in Epochs
  BY <1>0, <1>1 DEF JobTypes, Nameless
<1>6. ServerTypes'
  BY <1>0, <1>1, <1>3, <1>5, ListingTypes DEF ServerTypes
<1>7. ReaderTypes' BY <1>0, <1>1 DEF ReaderTypes
<1>8. JobInv' BY <1>0, <1>1, <1>2 DEF JobInv
<1>9. PointInv' BY <1>0, <1>1, <1>3, <1>4 DEF PointInv, JobInv
<1>10. SpoolInv' BY <1>0, <1>1, <1>2 DEF SpoolInv
<1>11. ReaderInv' BY <1>0, <1>1, <1>4 DEF ReaderInv
<1> QED BY <1>2, <1>6, <1>7, <1>8, <1>9, <1>10, <1>11 DEF BInv, Types

LEMMA CheckpointStep ==
    ASSUME BInv, SaveCheckpoint
    PROVE  BInv'
<1> USE DEF KeepServer, KeepOthers
<1>0. JobTypes /\ ServerTypes /\ ReaderTypes /\ JobInv /\ PointInv /\ SpoolInv /\ ReaderInv
  BY DEF BInv, Types
<1>1. /\ backup.pc = "published" /\ backup.epoch \in DOMAIN proofs /\ checkpoint' = backup.epoch
      /\ UNCHANGED <<data, proofs, spool, now, reader, harm>>
  BY DEF SaveCheckpoint, Step
<1>2. JobTypes' /\ backup'.pc = "saved" /\ backup'.epoch = backup.epoch
  BY <1>0, MovedJob DEF SaveCheckpoint, Step, Pcs, JobTypes, Nameless
<1>3. ServerTypes' /\ ReaderTypes'
  BY <1>0, <1>1 DEF ServerTypes, ReaderTypes
<1>4. JobInv' BY <1>0, <1>1, <1>2 DEF JobInv
<1>5. PointInv' BY <1>0, <1>1 DEF PointInv, JobInv
<1>6. SpoolInv' BY <1>0, <1>1, <1>2 DEF SpoolInv
<1>7. ReaderInv' BY <1>0, <1>1 DEF ReaderInv
<1> QED BY <1>2, <1>3, <1>4, <1>5, <1>6, <1>7 DEF BInv, Types

LEMMA ForgetDataStep ==
    ASSUME BInv, NEW e, ForgetData(e)
    PROVE  BInv'
<1> USE DEF KeepOthers
<1>0. JobTypes /\ ServerTypes /\ ReaderTypes /\ JobInv /\ PointInv /\ SpoolInv /\ ReaderInv
  BY DEF BInv, Types
<1>1. /\ backup.pc = "prune" /\ e \in backup.pairs /\ data' = Without(data, e)
      /\ backup' = [backup EXCEPT !.pairs = backup.pairs \ {e}]
      /\ UNCHANGED <<proofs, checkpoint, spool, now, reader, harm>>
  BY DEF ForgetData
<1>2. /\ JobTypes' /\ backup'.pc = "prune" /\ backup'.epoch = backup.epoch
      /\ backup'.remove = backup.remove /\ backup'.pairs = backup.pairs \ {e}
  BY <1>0, <1>1 DEF JobTypes
<1>3. DOMAIN data' = DOMAIN data \ {e} /\ \A x \in DOMAIN data \ {e} : data'[x] = data[x]
  BY <1>1, WithoutListing
<1>4. ServerTypes' BY <1>0, <1>1, ListingTypes DEF ServerTypes
<1>5. ReaderTypes' BY <1>0, <1>1 DEF ReaderTypes
<1>6. backup.epoch # e /\ checkpoint = backup.epoch
  BY <1>0, <1>1 DEF JobInv
<1>7. JobInv' BY <1>0, <1>1, <1>2, <1>3, <1>6 DEF JobInv
<1>8. PointInv' BY <1>0, <1>1, <1>3, <1>6 DEF PointInv
<1>9. SpoolInv' BY <1>0, <1>1, <1>2 DEF SpoolInv
<1>10. ReaderInv' BY <1>0, <1>1, <1>3 DEF ReaderInv
<1> QED BY <1>2, <1>4, <1>5, <1>7, <1>8, <1>9, <1>10 DEF BInv, Types

LEMMA ForgetProofStep ==
    ASSUME BInv, NEW e, ForgetProof(e)
    PROVE  BInv'
<1> USE DEF KeepOthers
<1>0. JobTypes /\ ServerTypes /\ ReaderTypes /\ JobInv /\ PointInv /\ SpoolInv /\ ReaderInv
  BY DEF BInv, Types
<1>1. /\ backup.pc = "prune" /\ e \in backup.remove \ backup.pairs /\ proofs' = Without(proofs, e)
      /\ backup' = [backup EXCEPT !.remove = backup.remove \ {e}]
      /\ UNCHANGED <<data, checkpoint, spool, now, reader, harm>>
  BY DEF ForgetProof
<1>2. /\ JobTypes' /\ backup'.pc = "prune" /\ backup'.epoch = backup.epoch
      /\ backup'.remove = backup.remove \ {e} /\ backup'.pairs = backup.pairs
  BY <1>0, <1>1 DEF JobTypes
<1>3. DOMAIN proofs' = DOMAIN proofs \ {e} /\ \A x \in DOMAIN proofs \ {e} : proofs'[x] = proofs[x]
  BY <1>1, WithoutListing
<1>4. ServerTypes' BY <1>0, <1>1, ListingTypes DEF ServerTypes
<1>5. ReaderTypes' BY <1>0, <1>1 DEF ReaderTypes
<1>6. backup.epoch # e /\ checkpoint = backup.epoch /\ e \notin DOMAIN data
  BY <1>0, <1>1 DEF JobInv
<1>7. JobInv' BY <1>0, <1>1, <1>2, <1>6 DEF JobInv
<1>8. PointInv' BY <1>0, <1>1, <1>3, <1>6 DEF PointInv
<1>9. SpoolInv' BY <1>0, <1>1, <1>2 DEF SpoolInv
<1>10. ReaderInv' BY <1>0, <1>1, <1>3, <1>6 DEF ReaderInv
<1> QED BY <1>2, <1>4, <1>5, <1>7, <1>8, <1>9, <1>10 DEF BInv, Types

LEMMA HarmStep ==
    ASSUME BInv, NEW e \in DOMAIN data,
           \/ ServerHarm(e, TRUE, data[e])
           \/ ServerHarm(e, FALSE, [data[e] EXCEPT !.body = "rot"])
           \/ ServerHarm(e, FALSE, [data[e] EXCEPT !.print = FreshPrint])
           \/ ServerHarm(e, FALSE, [data[e] EXCEPT !.failed = TRUE])
    PROVE  BInv'
<1>0. JobTypes /\ ServerTypes /\ ReaderTypes /\ JobInv /\ PointInv /\ SpoolInv /\ ReaderInv
  BY DEF BInv, Types
<1>1. harm' = harm + 1 /\ UNCHANGED <<now, proofs, checkpoint, spool, backup, reader>>
  BY DEF ServerHarm
<1>2. data[e] \in DataT BY <1>0 DEF ServerTypes
<1>3. /\ DOMAIN data' \subseteq DOMAIN data
      /\ \A x \in DOMAIN data' : x # e => data'[x] = data[x]
      /\ e \in DOMAIN data' =>
           /\ data'[e] \in DataT
           /\ \/ data'[e].body = "rot" /\ data'[e].print = data[e].print
              \/ data'[e].body = data[e].body /\ data'[e].print \in {data[e].print, FreshPrint}
      /\ data' = [x \in DOMAIN data' |-> data'[x]]
  <2>1. CASE ServerHarm(e, TRUE, data[e])
    <3>1. data' = Without(data, e) BY <2>1 DEF ServerHarm
    <3> QED BY <3>1 DEF Without, Restrict
  <2>2. ASSUME NEW v \in DataT, ServerHarm(e, FALSE, v)
        PROVE  /\ DOMAIN data' = DOMAIN data /\ data'[e] = v
               /\ \A x \in DOMAIN data' : x # e => data'[x] = data[x]
               /\ data' = [x \in DOMAIN data' |-> data'[x]]
    <3>1. data' = [data EXCEPT ![e] = v] BY <2>2 DEF ServerHarm
    <3>2. data \in [DOMAIN data -> DataT] BY <1>0 DEF ServerTypes
    <3> QED BY <3>1, <3>2
  <2>3. CASE ServerHarm(e, FALSE, [data[e] EXCEPT !.body = "rot"])
    <3> DEFINE v == [data[e] EXCEPT !.body = "rot"]
    <3>1. v \in DataT /\ v.body = "rot" /\ v.print = data[e].print BY <1>2 DEF DataT
    <3>2. ServerHarm(e, FALSE, v) BY <2>3
    <3> HIDE DEF v
    <3> QED BY <2>2, <3>1, <3>2
  <2>4. CASE ServerHarm(e, FALSE, [data[e] EXCEPT !.print = FreshPrint])
    <3> DEFINE v == [data[e] EXCEPT !.print = FreshPrint]
    <3>1. v \in DataT /\ v.body = data[e].body /\ v.print = FreshPrint
      BY <1>0, <1>2, FreshPrintIsNew DEF DataT
    <3>2. ServerHarm(e, FALSE, v) BY <2>4
    <3> HIDE DEF v
    <3> QED BY <2>2, <3>1, <3>2
  <2>5. CASE ServerHarm(e, FALSE, [data[e] EXCEPT !.failed = TRUE])
    <3> DEFINE v == [data[e] EXCEPT !.failed = TRUE]
    <3>1. v \in DataT /\ v.body = data[e].body /\ v.print = data[e].print BY <1>2 DEF DataT
    <3>2. ServerHarm(e, FALSE, v) BY <2>5
    <3> HIDE DEF v
    <3> QED BY <2>2, <3>1, <3>2
  <2> QED BY <2>1, <2>3, <2>4, <2>5
<1>4. ServerTypes'
  <2>1. \A x \in DOMAIN data' : data'[x] \in DataT
    BY <1>0, <1>3 DEF ServerTypes
  <2>2. DOMAIN data' \subseteq Epochs /\ data' \in [DOMAIN data' -> DataT]
    BY <1>0, <1>3, <2>1 DEF ServerTypes
  <2> QED BY <1>0, <1>1, <2>2 DEF ServerTypes
<1>5. JobTypes' /\ ReaderTypes' /\ SpoolInv'
  BY <1>0, <1>1 DEF JobTypes, ReaderTypes, SpoolInv
<1>6. /\ FreshPrint # backup.print /\ FreshPrint # reader.receipt.print
      /\ \A x \in DOMAIN proofs : proofs[x].print # FreshPrint
  BY <1>0, FreshPrintIsNew
<1>7. harm' # 0 /\ harm' > harm /\ harm \in Nat /\ reader.harm \in Nat
  BY <1>0, <1>1 DEF ServerTypes, ReaderTypes
<1>8. JobInv' BY <1>0, <1>1, <1>3, <1>6, <1>7 DEF JobInv
<1>9. PointInv' BY <1>0, <1>1, <1>3, <1>6, <1>7 DEF PointInv
<1>10. ReaderInv'
  <2>1. reader.pc # "idle" => reader.result = "none" /\ reader.harm <= harm' /\ reader.harm # harm'
    BY <1>0, <1>1, <1>7 DEF ReaderInv
  <2>2. ASSUME reader.pc \in {"receipt", "restored"}, reader.epoch \in DOMAIN data',
               data'[reader.epoch].print = reader.receipt.print
        PROVE  reader.epoch \in DOMAIN proofs /\ proofs[reader.epoch].print = reader.receipt.print
    <3>1. CASE reader.epoch # e
      BY <1>0, <1>3, <2>2, <3>1 DEF ReaderInv
    <3>2. CASE reader.epoch = e /\ data'[e].print = data[e].print
      BY <1>0, <2>2, <3>2 DEF ReaderInv
    <3> QED BY <1>3, <1>6, <2>2, <3>1, <3>2
  <2> QED BY <1>0, <1>1, <2>1, <2>2 DEF ReaderInv
<1> QED BY <1>4, <1>5, <1>8, <1>9, <1>10 DEF BInv, Types

LEMMA ClockSteps ==
    ASSUME BInv, Tick \/ ClockStepsBack
    PROVE  BInv'
<1>1. UNCHANGED <<data, proofs, checkpoint, spool, backup, reader, harm>>
  BY DEF Tick, ClockStepsBack
<1>2. now' \in Epochs
  BY BackupAssumption DEF Tick, ClockStepsBack, BInv, Types, ServerTypes, Epochs
<1> QED BY <1>1, <1>2 DEF BInv, Types, ServerTypes, JobTypes, ReaderTypes, JobInv, PointInv,
                          SpoolInv, ReaderInv

-----------------------------------------------------------------------------
(* The readers.                                                            *)

LEMMA ReadingStep ==
    ASSUME BInv, KeepJob, ReaderTypes', ReaderInv'
    PROVE  BInv'
BY DEF BInv, Types, KeepJob, ServerTypes, JobTypes, JobInv, PointInv, SpoolInv

LEMMA AnswerStep ==
    ASSUME NEW r \in {"FAILED", "WARNING", "HEALTHY", "VERIFIED"}, Answer(r)
    PROVE  ReaderTypes' /\ ReaderInv' /\ reader'.result = r
BY DEF Answer, ReaderTypes, ReaderInv, NoReader, NoReceipt, ProofT

LEMMA ReaderSteps ==
    ASSUME BInv, \/ \E who \in Readers : ListProofs(who)
                 \/ ListData \/ ReadReceipt \/ Judge \/ VerifyPayload \/ VerifyEnds \/ ReaderFails
    PROVE  BInv'
<1>0. ServerTypes /\ ReaderTypes /\ ReaderInv /\ harm \in Nat
  BY DEF BInv, Types, ServerTypes
<1>1. CASE \E who \in Readers : ListProofs(who)
  <2>1. PICK who \in Readers : ListProofs(who) BY <1>1
  <2>2. KeepJob BY <2>1 DEF ListProofs
  <2>3. CASE DOMAIN proofs = {}
    <3>1. Answer("FAILED") BY <2>1, <2>3 DEF ListProofs, Answer
    <3> QED BY <2>2, <3>1, AnswerStep, ReadingStep
  <2>4. CASE DOMAIN proofs # {}
    <3>1. reader' = [NoReader EXCEPT !.who = who, !.pc = "proofs",
                                     !.epoch = Max(DOMAIN proofs), !.harm = harm]
      BY <2>1, <2>4 DEF ListProofs
    <3>2. ReaderTypes' /\ reader'.pc = "proofs" /\ reader'.result = "none" /\ reader'.harm = harm
      BY <1>0, <3>1 DEF ReaderTypes, NoReader, NoReceipt, ProofT
    <3>3. harm' = harm BY <2>2 DEF KeepJob
    <3>4. ReaderInv' BY <1>0, <3>2, <3>3 DEF ReaderInv
    <3> QED BY <2>2, <3>2, <3>4, ReadingStep
  <2> QED BY <2>3, <2>4
<1>2. CASE ListData
  <2>1. KeepJob BY <1>2 DEF ListData
  <2>2. CASE Answer("FAILED")
    BY <2>1, <2>2, AnswerStep, ReadingStep
  <2>3. CASE reader' = [reader EXCEPT !.pc = "listed"]
    <3>1. /\ ReaderTypes' /\ reader'.pc = "listed" /\ reader'.result = reader.result
          /\ reader'.harm = reader.harm /\ reader.pc = "proofs"
      BY <1>0, <1>2, <2>3 DEF ReaderTypes, ListData
    <3>2. ReaderInv' BY <1>0, <2>1, <3>1 DEF ReaderInv, KeepJob
    <3> QED BY <2>1, <3>1, <3>2, ReadingStep
  <2> QED BY <1>2, <2>2, <2>3 DEF ListData
<1>3. CASE ReadReceipt
  <2>1. KeepJob /\ reader.pc = "listed" /\ reader.epoch \in DOMAIN proofs
    BY <1>3 DEF ReadReceipt, ValidReceipt
  <2>2. /\ ReaderTypes' /\ reader'.pc = "receipt" /\ reader'.result = reader.result
        /\ reader'.harm = reader.harm /\ reader'.epoch = reader.epoch
        /\ reader'.receipt = proofs[reader.epoch]
    BY <1>0, <1>3, <2>1 DEF ReaderTypes, ReadReceipt, ServerTypes
  <2>3. ReaderInv' BY <1>0, <2>1, <2>2 DEF ReaderInv, KeepJob
  <2> QED BY <2>1, <2>2, <2>3, ReadingStep
<1>4. CASE Judge
  <2>1. KeepJob BY <1>4 DEF Judge
  <2>2. \E r \in {"FAILED", "WARNING", "HEALTHY", "VERIFIED"} : Answer(r)
    BY <1>4 DEF Judge
  <2> QED BY <2>1, <2>2, AnswerStep, ReadingStep
<1>5. CASE VerifyPayload
  <2>1. /\ KeepJob /\ reader.pc = "receipt" /\ reader.who = "verifier"
        /\ data[reader.epoch].body = "ok"
    BY <1>5 DEF VerifyPayload
  <2>2. /\ ReaderTypes' /\ reader'.pc = "restored" /\ reader'.result = reader.result
        /\ reader'.harm = reader.harm /\ reader'.epoch = reader.epoch
        /\ reader'.receipt = reader.receipt /\ reader'.who = reader.who
    BY <1>0, <1>5 DEF ReaderTypes, VerifyPayload
  <2>3. ReaderInv' BY <1>0, <2>1, <2>2 DEF ReaderInv, KeepJob
  <2> QED BY <2>1, <2>2, <2>3, ReadingStep
<1>6. CASE VerifyEnds \/ ReaderFails
  BY <1>6, AnswerStep, ReadingStep DEF VerifyEnds, ReaderFails
<1> QED BY <1>1, <1>2, <1>3, <1>4, <1>5, <1>6

-----------------------------------------------------------------------------
(* The theorems.                                                           *)

LEMMA BackupStep == BInv /\ [BackupNext]_backupVars => BInv'
<1> SUFFICES ASSUME BInv, [BackupNext]_backupVars PROVE BInv' OBVIOUS
<1>1. CASE UNCHANGED backupVars
  BY <1>1 DEF backupVars, BInv, Types, ServerTypes, JobTypes, ReaderTypes, JobInv, PointInv,
              SpoolInv, ReaderInv
<1>2. CASE BackupNext
  BY <1>2, AttemptSteps, RecordSteps, UploadStep, PublishStep, CheckpointStep, ForgetDataStep,
     ForgetProofStep, HarmStep, ClockSteps, ReaderSteps DEF BackupNext
<1> QED BY <1>1, <1>2

(* Whatever the retention, the clock and the kills are, the job and the    *)
(* readers stay within the invariant the two results below rest on.        *)
THEOREM BackupInvariant == BackupSpec => []BInv
<1> QED BY Initially, BackupStep, PTL DEF BackupSpec

(* run_backup: a damaged upload never gets a proof, retention never takes   *)
(* the point the checkpoint names, and the spool never holds more than two *)
(* attempts.                                                               *)
THEOREM PointsAreRecoverable == BackupSpec => []CheckpointIsRecoverable
<1>1. BInv => CheckpointIsRecoverable
  BY DEF BInv, PointInv, SpoolInv, CheckpointIsRecoverable
<1> QED BY <1>1, BackupInvariant, PTL

\* What an affirmative answer is given on.
LEMMA AffirmedStep ==
    ASSUME BInv, BackupNext, Affirms, reader.harm = harm
    PROVE  /\ \/ reader.who = "monitor" /\ reader.epoch <= now /\ now - reader.epoch <= WarningAge - 1
              \/ /\ reader.who = "verifier" /\ reader.epoch <= now /\ now - reader.epoch <= ReleaseAge
                 /\ data[reader.epoch].body = "ok"
           /\ reader.epoch \in DOMAIN proofs /\ reader.epoch \in DOMAIN data
           /\ data[reader.epoch].print = proofs[reader.epoch].print
           /\ ~data[reader.epoch].failed /\ data[reader.epoch].body # "cut"
<1>0. ServerTypes /\ ReaderTypes /\ ReaderInv /\ PointInv
  BY DEF BInv, Types
<1>1. reader' # reader
  BY <1>0 DEF Affirms, ReaderInv
<1>2. Judge \/ VerifyEnds
  <2>1. \/ \E who \in Readers : ListProofs(who)
        \/ ListData \/ ReadReceipt \/ Judge \/ VerifyPayload \/ VerifyEnds \/ ReaderFails
    BY <1>1 DEF BackupNext, BackupBegins, CleanOwnedFailedSpool, MakeAttempt, DumpDatabase,
                UploadData, ReadBack, PublishProof, SaveCheckpoint, PrunePreview, ForgetData,
                ForgetProof, EndRetention, RemoveAttempt, BackupFails, BackupKilled, Tick,
                ClockStepsBack, ServerHarm, KeepOthers
  <2>2. ~Answer("FAILED")
    BY AnswerStep DEF Affirms
  <2>3. ~\E who \in Readers : ListProofs(who)
    BY DEF Affirms, ListProofs
  <2>4. ~ListData /\ ~ReadReceipt /\ ~VerifyPayload
    BY <1>0, <2>2 DEF Affirms, ListData, ReadReceipt, VerifyPayload, ReaderTypes, ReaderInv
  <2> QED BY <2>1, <2>2, <2>3, <2>4 DEF ReaderFails
<1>3. now \in Int /\ WarningAge \in Int /\ FailedAge \in Int /\ ReleaseAge \in Int /\ WarningAge < FailedAge
  BY <1>0, BackupAssumption DEF ServerTypes, Epochs
<1>4. reader.epoch \in DOMAIN data => reader.epoch \in Int
  BY <1>0 DEF ServerTypes, Epochs
<1>5. CASE Judge
  <2>1. /\ reader.who = "monitor" /\ reader.pc = "receipt" /\ reader.epoch \in DOMAIN data
        /\ ~ClockMovedBackwards /\ Agrees
        /\ ~(now - reader.epoch >= WarningAge)
    BY <1>5, AnswerStep DEF Affirms, Judge
  <2>2. reader.epoch <= now /\ now - reader.epoch <= WarningAge - 1
    BY <1>3, <1>4, <2>1 DEF ClockMovedBackwards
  <2> QED BY <1>0, <2>1, <2>2 DEF Agrees, ManifestFingerprint, ReaderInv, PointInv
<1>6. CASE VerifyEnds
  <2>1. /\ reader.who = "verifier" /\ reader.pc = "restored" /\ Agrees /\ InRelease(reader.epoch)
    BY <1>0, <1>6 DEF VerifyEnds, ReaderInv
  <2> QED BY <1>0, <2>1 DEF Agrees, ManifestFingerprint, InRelease, ReaderInv, PointInv
<1> QED BY <1>2, <1>5, <1>6

(* freshness and verify: HEALTHY and VERIFIED are true when they are said,  *)
(* whatever the job retired and published while the reader was reading.    *)
THEOREM ReadersTellTheTruth == BackupSpec => AnswersAreTrue
<1>1. BInv /\ [BackupNext]_backupVars =>
        [Affirms /\ reader.harm = harm =>
          LET e == reader.epoch
              promised == IF reader.who = "monitor" THEN WarningAge - 1 ELSE ReleaseAge IN
          /\ e <= now /\ now - e <= promised
          /\ e \in DOMAIN proofs /\ e \in DOMAIN data
          /\ data[e].print = proofs[e].print /\ ~data[e].failed
          /\ data[e].body # "cut" /\ (reader.who = "verifier" => data[e].body = "ok")]_backupVars
  BY AffirmedStep
<1> QED BY <1>1, BackupInvariant, PTL DEF BackupSpec, AnswersAreTrue
=============================================================================
