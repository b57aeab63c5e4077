----------------------- MODULE HistoryMigrationProofs -----------------------
(***************************************************************************)
(* Theorems about HistoryMigration: with the migration task at work the    *)
(* history keeps its invariants and its promise to the watchers, and the   *)
(* migration leaves no legacy row it could read and loses no image, for    *)
(* all contents, connections, limits and initial tables, with all requests *)
(* and all faults enabled.                                                 *)
(*                                                                         *)
(* The steps of the saver and of the requests were dealt with in           *)
(* HistoryProofs, whose invariants speak of any state of History; what is  *)
(* left is what the migration does to those invariants, and the others to  *)
(* what the migration remembers.                                           *)
(***************************************************************************)
EXTENDS HistoryMigration, HistoryRefinementProofs

-----------------------------------------------------------------------------
(* What the migration remembers *)

MigrationType ==
  [pc : MigPcs, todo : SUBSET Candidates, cand : Candidates,
   found : SUBSET (1..clock), healthy : SUBSET (0..clock),
   redundant : SUBSET (1..clock)]

\* A dead daemon has no migration.
MigDown == ~up => mig = Migration("off")

\* The transaction and the work on an image exclude each other.
MigGate ==
  /\ mig.pc \in {"verify", "commit"} => gate = "migration"
  /\ saver.content \in Images /\ saver.pc \notin {"idle", "find"} => gate = "saver"

AtCandidate == mig.pc \in {"gate", "verify", "commit"}

\* Nothing the migration remembers is a row that has yet to be inserted.
MigIds ==
  saver.pc \in FreshPcs =>
    /\ saver.id \notin mig.redundant
    /\ saver.id # mig.cand.id
    /\ \A k \in mig.todo : k.id # saver.id

\* What it is about to unlink has no row any more.
MigDead == mig.redundant \cap DOMAIN rows = {}

\* A candidate that still has a row has the content it was listed with.
MigKnown ==
  /\ \A k \in mig.todo \cup {mig.cand} :
       k.id \in DOMAIN rows => rows[k.id].content = k.content
  /\ \A k \in mig.todo : k.content \in Images
  /\ AtCandidate => mig.cand.content \in Images

\* A legacy row that is neither ahead nor at work had lost its file.
MigPast ==
  mig.pc \in {"next", "gate", "verify", "commit", "unlink", "announce", "done"} =>
    \A i \in ImageIds :
      rows[i].legacy => \/ i \in lost
                        \/ \E k \in mig.todo : k.id = i
                        \/ AtCandidate /\ mig.cand.id = i

\* The candidate's own file counts as verified, and nothing is ahead of a
\* task that is done.
MigPhase ==
  /\ mig.pc = "commit" => mig.cand.id \in mig.healthy
  /\ mig.pc = "done" => mig.todo = {}

MigInv ==
  /\ mig \in MigrationType
  /\ MigDown
  /\ MigGate
  /\ MigIds
  /\ MigDead
  /\ MigKnown
  /\ MigPast
  /\ MigPhase

HistoryInv == TypeInv /\ FileInv /\ IdentityInv

-----------------------------------------------------------------------------
(* The rows after a merge *)

\* Of the rows that are merged one is the newest.
LEMMA NewestExists ==
  ASSUME TypeInv, NEW S, S \subseteq DOMAIN rows, S # {}
  PROVE  \E i \in S : \A j \in S : rows[j].created <= rows[i].created
<1> DEFINE D == DOMAIN rows
           Newer(i) == {j \in S : rows[j].created > rows[i].created}
           T == {Newer(i) : i \in S}
           R == StrictSubsetOrdering(D)
<1>1. IsFiniteSet(D)
  BY RowCount DEF TypeInv
<1>2. IsWellFoundedOn(R, FiniteSubsetsOf(D))
  BY FS_StrictSubsetOrderingWellFounded
<1>3. IsWellFoundedOn(R, SUBSET D)
  BY <1>1, <1>2, FS_FiniteSubsetsOfFinite
<1>4. T \subseteq SUBSET D /\ T # {}
  OBVIOUS
<1> HIDE DEF R, T
<1>5. PICK x \in T : \A y \in T : ~(<<y, x>> \in R)
  BY <1>3, <1>4, WFMin
<1>6. PICK i \in S : x = Newer(i)
  BY <1>5 DEF T
<1>7. \A j \in S : rows[j].created \in Nat
  BY DEF TypeInv, TypeOK, Row
<1>8. ASSUME NEW j \in Newer(i) PROVE FALSE
  <2>1. j \in S /\ rows[j].created > rows[i].created
    BY <1>8
  <2>2. Newer(j) \subseteq Newer(i)
    BY <1>7, <2>1
  <2>3. j \notin Newer(j)
    BY <1>7, <2>1
  <2>4. Newer(j) \in T /\ Newer(j) \in SUBSET D /\ Newer(i) \in SUBSET D
    BY <2>1 DEF T
  <2>5. <<Newer(j), Newer(i)>> \in R
    BY <1>8, <2>2, <2>3, <2>4 DEF R, StrictSubsetOrdering
  <2> QED
    BY <1>5, <1>6, <2>4, <2>5
<1> QED
  BY <1>6, <1>7, <1>8

Merged == Colliding \cup {Candidate}

\* What a merge makes of the rows.
MergedInto(s, newest) ==
  /\ rows' = [i \in DOMAIN rows' |-> rows'[i]]
  /\ DOMAIN rows' = DOMAIN rows \ (Merged \ {s})
  /\ \A i \in DOMAIN rows' \ {s} : rows'[i] = rows[i]
  /\ s \in Merged
  /\ rows'[s] = [content |-> rows[s].content, created |-> newest,
                 pinned |-> \E j \in Merged : rows[j].pinned, legacy |-> FALSE]
  /\ newest \in Nat
  /\ \A j \in Merged : rows[j].created <= newest

\* Every row that is merged carries the candidate's content.
LEMMA MergedAlike ==
  ASSUME TypeInv, MigInv, mig.pc = "commit", Fresh
  PROVE  /\ Merged \subseteq DOMAIN rows
         /\ \A j \in Merged : rows[j].content = mig.cand.content
         /\ mig.cand.content \in Images
         /\ Candidate \in Merged
  BY DEF MigInv, MigKnown, AtCandidate, Merged, Colliding, Matches, Candidate, Fresh

\* A merge makes of the rows what MergedInto says.
LEMMA MergeResult ==
  ASSUME TypeInv, MigInv, MigConsolidate
  PROVE  \E s \in Survivors : \E newest : MergedInto(s, newest)
<1>0. mig.pc = "commit" /\ Fresh
  BY DEF MigConsolidate
<1> DEFINE newest == CHOOSE t \in {rows[i].created : i \in Merged} :
                       \A i \in Merged : rows[i].created <= t
<1>1. PICK s \in Survivors :
        rows' = [i \in DOMAIN rows \ (Merged \ {s}) |->
                   IF i = s
                     THEN [content |-> rows[s].content, created |-> newest,
                           pinned |-> \E j \in Merged : rows[j].pinned, legacy |-> FALSE]
                     ELSE rows[i]]
  BY DEF MigConsolidate, Merged
<1>2. Merged \subseteq DOMAIN rows /\ Merged # {}
  BY <1>0, MergedAlike
<1>3. \E t \in {rows[i].created : i \in Merged} : \A i \in Merged : rows[i].created <= t
  BY <1>2, NewestExists
<1>4. newest \in {rows[i].created : i \in Merged} /\ \A i \in Merged : rows[i].created <= newest
  BY <1>3
<1>5. newest \in Nat
  BY <1>2, <1>4 DEF TypeInv, TypeOK, Row
<1>6. s \in Merged
  BY DEF Survivors, Preferred, Merged
<1> HIDE DEF newest
<1>7. DOMAIN rows' = DOMAIN rows \ (Merged \ {s}) /\ s \in DOMAIN rows'
  BY <1>1, <1>2, <1>6
<1>8. rows' = [i \in DOMAIN rows' |-> rows'[i]]
  BY <1>1
<1> QED
  BY <1>1, <1>4, <1>5, <1>6, <1>7, <1>8 DEF MergedInto

-----------------------------------------------------------------------------
(* The steps of the migration keep the invariants of the history *)

\* A merge removes rows and keeps one; the other steps leave the rows alone,
\* or change nothing but a digest.
LEMMA MigRows ==
  ASSUME TypeInv, MigInv, MigStep
  PROVE  /\ rows' \in [DOMAIN rows' -> Row] /\ DOMAIN rows' \subseteq DOMAIN rows
         /\ \A i \in DOMAIN rows' : rows'[i].content = rows[i].content
         /\ \/ rows' = rows
            \/ mig.pc = "commit" /\ \A i \in DOMAIN rows' :
                 i # Candidate /\ i \notin Colliding => rows'[i] = rows[i]
<1>1. rows \in [DOMAIN rows -> Row]
  BY DEF TypeInv, TypeOK
<1>2. CASE MigQuery \/ MigDecode \/ MigDone \/ MigLock \/ MigVerify \/ MigStale \/ MigUnlink
           \/ MigAnnounce \/ MigFails
  <2>1. rows' = rows
    BY <1>2 DEF MigQuery, MigDecode, MigDone, MigLock, MigVerify, MigStale, MigUnlink,
                MigAnnounce, MigFails
  <2> QED
    BY <1>1, <2>1
<1>3. CASE MigInPlace
  <2>1. rows' = [rows EXCEPT ![Candidate].legacy = FALSE] /\ mig.pc = "commit"
    BY <1>3 DEF MigInPlace
  <2> QED
    BY <1>1, <2>1 DEF Row
<1>4. CASE MigConsolidate
  <2>1. PICK s, newest : MergedInto(s, newest)
    BY <1>4, MergeResult
  <2>2. mig.pc = "commit" /\ Fresh
    BY <1>4 DEF MigConsolidate
  <2>3. Merged \subseteq DOMAIN rows
    BY <2>2, MergedAlike
  <2>4. s \in DOMAIN rows' /\ DOMAIN rows' \subseteq DOMAIN rows
    BY <2>1, <2>3 DEF MergedInto
  <2>5. rows'[s] \in Row /\ rows'[s].content = rows[s].content
    <3>1. rows[s].content \in Contents
      BY <1>1, <2>4 DEF Row
    <3> QED
      BY <2>1, <3>1 DEF MergedInto, Row
  <2>6. \A i \in DOMAIN rows' : rows'[i] \in Row /\ rows'[i].content = rows[i].content
    BY <1>1, <2>1, <2>4, <2>5 DEF MergedInto
  <2>7. \A i \in DOMAIN rows' : i # Candidate /\ i \notin Colliding => rows'[i] = rows[i]
    BY <2>1 DEF MergedInto, Merged
  <2>8. rows' = [i \in DOMAIN rows' |-> rows'[i]]
    BY <2>1 DEF MergedInto
  <2> QED
    BY <2>2, <2>4, <2>6, <2>7, <2>8
<1> QED
  BY <1>2, <1>3, <1>4 DEF MigStep

\* What no step of the migration touches.
LEMMA MigFootprint ==
  ASSUME MigStep
  PROVE  /\ UNCHANGED <<temps, lost, saver, client, clock, up>>
         /\ gate' = gate \/ gate' \in {"free", "migration"}
         /\ files' \subseteq files
         /\ rev' = rev \/ rev' = rev + 1
<1>1. UNCHANGED <<temps, lost, saver, client, clock, up>>
  BY DEF MigStep, MigUnchanged, MigQuery, MigDecode, MigDone, MigLock, MigVerify, MigStale,
         MigInPlace, MigConsolidate, MigUnlink, MigAnnounce, MigFails
<1>2. gate' = gate \/ gate' \in {"free", "migration"}
  BY DEF MigStep, MigQuery, MigDecode, MigDone, MigLock, MigVerify, MigStale,
         MigInPlace, MigConsolidate, MigUnlink, MigAnnounce, MigFails
<1>3. files' \subseteq files
  BY DEF MigStep, MigQuery, MigDecode, MigDone, MigLock, MigVerify, MigStale,
         MigInPlace, MigConsolidate, MigUnlink, Unlink, MigAnnounce, MigFails
<1>4. rev' = rev \/ rev' = rev + 1
  BY DEF MigStep, MigQuery, MigDecode, MigDone, MigLock, MigVerify, MigStale,
         MigInPlace, MigConsolidate, MigUnlink, MigAnnounce, MigFails
<1> QED
  BY <1>1, <1>2, <1>3, <1>4

\* Every step of the migration keeps the history typed.
LEMMA MigTyped ==
  ASSUME TypeInv, MigInv, MigStep
  PROVE  TypeInv'
<1>1. DOMAIN rows' \subseteq 1..clock' /\ rows' \in [DOMAIN rows' -> Row]
  BY MigRows, MigFootprint DEF TypeInv, TypeOK
<1>2. UNCHANGED <<temps, lost, saver, client, clock, up>>
  BY MigFootprint
<1>3. files' \subseteq 1..clock' /\ rev' \in Nat \ {0} /\ gate' \in GateOwners \cup {"free"}
  BY MigFootprint DEF TypeInv, TypeOK, GateOwners
<1>4. SaverType' = SaverType /\ ClientType' = ClientType
  BY <1>2 DEF SaverType, ClientType
<1>5. TypeOK'
  BY <1>1, <1>2, <1>3, <1>4 DEF TypeInv, TypeOK
<1> QED
  BY <1>2, <1>5 DEF TypeInv, SaverWorks, ClientWorks

\* Only files without a row go.
LEMMA MigFiles ==
  ASSUME TypeInv, FileInv, MigInv, MigStep
  PROVE  FileInv'
<1>1. RowsKept
  BY MigRows DEF RowsKept
<1>2. UNCHANGED <<lost, saver, client>>
  BY MigFootprint
<1>3. FilesKept /\ (saver.pc = "insert" /\ saver.id \in files => saver.id \in files')
  <2>1. CASE files' = files
    BY <1>2, <2>1 DEF FilesKept
  <2>2. CASE files' # files
    <3>1. MigUnlink
      BY <2>2 DEF MigStep, MigQuery, MigDecode, MigDone, MigLock, MigVerify, MigStale,
                  MigInPlace, MigConsolidate, MigAnnounce, MigFails
    <3>2. PICK i \in mig.redundant : files' = files \ {i}
      BY <2>2, <3>1 DEF MigUnlink, Unlink
    <3>3. i \notin DOMAIN rows
      BY <3>2 DEF MigInv, MigDead
    <3>4. saver.pc = "insert" => i # saver.id
      BY <3>2 DEF MigInv, MigIds, FreshPcs
    <3> QED
      BY <1>1, <1>2, <3>2, <3>3, <3>4 DEF FilesKept, RowsKept
  <2> QED
    BY <2>1, <2>2
<1>4. FreshId' /\ NewFile' /\ SaverUnlinksDead'
  BY <1>1, <1>2, <1>3 DEF RowsKept, FileInv, FreshId, NewFile, SaverUnlinksDead
<1> QED
  BY <1>1, <1>2, <1>3, <1>4, FileSaver

\* A digest changes only where no other row has it, and a merge leaves one
\* row; a save of the same image waits for the gate.
LEMMA MigIdentities ==
  ASSUME TypeInv, IdentityInv, MigInv, MigStep
  PROVE  IdentityInv'
<1>0. PICK x : x = mig.cand.content
  OBVIOUS
<1>1. saver' = saver
  BY MigFootprint
<1>2. CASE rows' = rows
  <2>1. IdentityKept
    BY <1>2 DEF IdentityKept
  <2> QED
    BY <1>1, <2>1, IdentityOther
<1>3. CASE rows' # rows
  <2>1. MigInPlace \/ MigConsolidate
    BY <1>3 DEF MigStep, MigQuery, MigDecode, MigDone, MigLock, MigVerify, MigStale,
                MigUnlink, MigAnnounce, MigFails
  <2>2. mig.pc = "commit" /\ Fresh
    BY <2>1 DEF MigInPlace, MigConsolidate
  <2>3. /\ DOMAIN rows' \subseteq DOMAIN rows
        /\ \A i \in DOMAIN rows' : rows'[i].content = rows[i].content
        /\ \A i \in DOMAIN rows' : i # Candidate /\ i \notin Colliding => rows'[i] = rows[i]
    BY <1>3, MigRows
  <2>4. /\ Merged \subseteq DOMAIN rows
        /\ \A j \in Merged : rows[j].content = x
        /\ x \in Images
    BY <1>0, <2>2, MergedAlike
  <2>5. \A i \in DOMAIN rows' : rows'[i].content # x => rows'[i] = rows[i]
    BY <2>3, <2>4 DEF Merged
  <2>6. \E s : \A i \in DOMAIN rows' : rows'[i].content = x /\ ~rows'[i].legacy => i = s
    <3>1. CASE MigInPlace
      <4>1. Colliding = {}
        BY <3>1 DEF MigInPlace
      <4>2. ASSUME NEW i \in DOMAIN rows', rows'[i].content = x, ~rows'[i].legacy,
                   i # Candidate
            PROVE  FALSE
        <5>1. rows'[i] = rows[i] /\ i \in DOMAIN rows
          BY <2>3, <4>1, <4>2
        <5> QED
          BY <1>0, <4>1, <4>2, <5>1 DEF Colliding, Matches
      <4> QED
        BY <4>2
    <3>2. CASE MigConsolidate
      <4>1. PICK s, newest : MergedInto(s, newest)
        BY <3>2, MergeResult
      <4>2. ASSUME NEW i \in DOMAIN rows', rows'[i].content = x, ~rows'[i].legacy, i # s
            PROVE  FALSE
        <5>1. rows'[i] = rows[i] /\ i \in DOMAIN rows /\ i \notin Merged
          BY <4>1, <4>2 DEF MergedInto
        <5> QED
          BY <1>0, <4>2, <5>1 DEF Merged, Colliding, Matches
      <4> QED
        BY <4>2
    <3> QED
      BY <2>1, <3>1, <3>2
  <2>7. OneRowEach'
    <3>1. ASSUME NEW i \in DOMAIN rows', NEW j \in DOMAIN rows',
                 rows'[i].content = rows'[j].content, ~rows'[i].legacy, ~rows'[j].legacy
          PROVE  i = j
      <4>1. CASE rows'[i].content = x
        BY <2>6, <3>1, <4>1
      <4>2. CASE rows'[i].content # x
        <5>1. rows'[i] = rows[i] /\ rows'[j] = rows[j]
              /\ i \in DOMAIN rows /\ j \in DOMAIN rows
          BY <2>3, <2>5, <3>1, <4>2
        <5> QED
          BY <3>1, <5>1 DEF IdentityInv, OneRowEach
      <4> QED
        BY <4>1, <4>2
    <3> QED
      BY <3>1 DEF OneRowEach
  <2>8. KnownMatches'
    <3>1. SUFFICES ASSUME saver.pc \notin {"idle", "find"}
                   PROVE  Matches(saver.content)' \subseteq Matches(saver.content)
      BY <1>1 DEF IdentityInv, KnownMatches
    <3>2. saver.content # x
      BY <2>2, <2>4, <3>1 DEF MigInv, MigGate
    <3> QED
      BY <1>1, <2>3, <2>5, <3>2 DEF Matches
  <2> QED
    BY <2>7, <2>8 DEF IdentityInv
<1> QED
  BY <1>2, <1>3

-----------------------------------------------------------------------------
(* What the migration remembers stays true *)

\* A migration that remembers nothing has nothing to answer for.
LEMMA MigBlank ==
  ASSUME NEW p \in {"off", "query", "failed"}
  PROVE  mig' = Migration(p) /\ (p = "off" \/ up') /\ clock' \in Nat
           /\ 0 \notin DOMAIN rows'
           /\ (saver'.content \in Images /\ saver'.pc \notin {"idle", "find"} => gate' = "saver")
           /\ (saver'.pc \in FreshPcs => saver'.id # 0)
         => MigInv'
<1> SUFFICES ASSUME mig' = Migration(p), p = "off" \/ up', clock' \in Nat,
                    0 \notin DOMAIN rows',
                    saver'.content \in Images /\ saver'.pc \notin {"idle", "find"}
                      => gate' = "saver",
                    saver'.pc \in FreshPcs => saver'.id # 0
             PROVE  MigInv'
  OBVIOUS
<1>1. /\ mig'.pc = p /\ mig'.todo = {} /\ mig'.cand = NoCandidate /\ mig'.redundant = {}
      /\ mig'.found = {} /\ mig'.healthy = {}
  BY DEF Migration
<1>2. NoCandidate.id = 0
  BY DEF NoCandidate
<1>3. (mig \in MigrationType)'
  <2>1. NoCandidate \in Candidates'
    BY DEF NoCandidate, Candidates
  <2> QED
    BY <2>1 DEF Migration, MigrationType, MigPcs
<1>4. MigDown' /\ MigGate' /\ MigIds' /\ MigDead'
  BY <1>1, <1>2 DEF MigDown, MigGate, MigIds, MigDead
<1>5. MigKnown' /\ MigPast' /\ MigPhase'
  BY <1>1, <1>2 DEF MigKnown, MigPast, MigPhase, AtCandidate
<1> QED
  BY <1>3, <1>4, <1>5 DEF MigInv

\* At the start the migration remembers nothing.
LEMMA MigInvInit == MInit => MigInv
<1> SUFFICES ASSUME MInit PROVE MigInv
  OBVIOUS
<1>1. TypeInv /\ Init /\ mig = Migration("query")
  BY TypeInit DEF MInit
<1>2. /\ mig.pc = "query" /\ mig.todo = {} /\ mig.cand = NoCandidate /\ mig.redundant = {}
      /\ mig.found = {} /\ mig.healthy = {}
  BY <1>1 DEF Migration
<1>3. NoCandidate.id = 0 /\ 0 \notin DOMAIN rows /\ saver.pc = "idle" /\ up
  BY <1>1 DEF NoCandidate, TypeInv, TypeOK, Init, IdleSaver
<1>4. mig \in MigrationType
  <2>1. NoCandidate \in Candidates
    BY <1>1 DEF NoCandidate, Candidates, TypeInv, TypeOK
  <2> QED
    BY <1>1, <2>1 DEF Migration, MigrationType, MigPcs
<1>5. MigDown /\ MigGate /\ MigIds /\ MigDead
  BY <1>2, <1>3 DEF MigDown, MigGate, MigIds, MigDead, FreshPcs
<1>6. MigKnown /\ MigPast /\ MigPhase
  BY <1>2, <1>3 DEF MigKnown, MigPast, MigPhase, AtCandidate
<1> QED
  BY <1>4, <1>5, <1>6 DEF MigInv

\* What the other tasks do to the rows.
LEMMA OthersToRows ==
  ASSUME TypeInv, Next
  PROVE  Insert \/ IdentityKept
<1>1. rows \in [DOMAIN rows -> Row]
  BY DEF TypeInv, TypeOK
<1>2. CASE rows' = rows
  BY <1>2 DEF IdentityKept
<1>3. CASE Touch
  BY <1>1, <1>3 DEF Touch, IdentityKept, Row
<1>4. CASE DropStaleRow \/ Evict \/ \E c \in Clients : DeleteRow(c) \/ ClearRows(c)
  <2>1. PICK S : rows' = Without(S)
    BY <1>4 DEF DropStaleRow, Evict, DeleteRow, ClearRows
  <2> QED
    BY <1>1, <2>1 DEF Without, IdentityKept
<1>5. ASSUME NEW c \in Clients, Pin(c) \/ Unpin(c) PROVE IdentityKept
  <2>1. rows' = rows \/ \E i, b : rows' = [rows EXCEPT ![i].pinned = b]
    BY <1>5 DEF Pin, Unpin, SetPinned
  <2> QED
    BY <1>1, <2>1 DEF IdentityKept, Row
<1>6. ASSUME NEW c \in Clients, NEW i \in DOMAIN rows, Promote(c, i) PROVE IdentityKept
  BY <1>1, <1>6 DEF Promote, IdentityKept, Row
<1>7. SaverStep => rows' = rows \/ Touch \/ DropStaleRow \/ Evict \/ Insert
  BY DEF SaverStep, FindText, FindImage, CheckFile, DropStaleFile, WriteTemp, CommitFile,
         WriteFails, InsertFails, RollbackFile, CountRows, SelectVictims, Prune, AnnounceSave
<1>8. ASSUME NEW c \in Clients, Request(c) \/ RequestStep(c)
      PROVE  rows' = rows \/ DeleteRow(c) \/ ClearRows(c) \/ Pin(c) \/ Unpin(c)
             \/ \E i \in DOMAIN rows : Promote(c, i)
  BY <1>8 DEF Request, RequestStep, BeginClear, BeginDelete, BeginToggle, AnnounceRequest,
              UnlinkFiles, RequestFails
<1>9. (\E c \in Contents : Save(c)) \/ Crash \/ Restart \/ (\E i \in files : LoseFile(i))
        => rows' = rows
  BY DEF Save, Crash, Restart, LoseFile
<1> QED
  BY <1>2, <1>3, <1>4, <1>5, <1>6, <1>7, <1>8, <1>9 DEF Next

\* What the other tasks do besides.
LEMMA OthersFootprint ==
  ASSUME TypeInv, Next
  PROVE  /\ lost \subseteq lost' /\ clock' \in Nat /\ clock <= clock'
         /\ Exit \/ Restart \/ up' = up
<1>1. clock \in Nat
  BY DEF TypeInv, TypeOK
<1>2. lost \subseteq lost' /\ (clock' = clock \/ clock' = clock + 1)
  <2>1. CASE SaverStep
    BY <2>1 DEF SaverStep, SaverUnchanged, FindText, FindImage, CheckFile, Touch, DropStaleRow,
                DropStaleFile, WriteTemp, CommitFile, WriteFails, Insert, InsertFails,
                RollbackFile, CountRows, SelectVictims, Evict, Prune, AnnounceSave
  <2>2. ASSUME NEW c \in Clients, Request(c) \/ RequestStep(c)
        PROVE  lost \subseteq lost' /\ (clock' = clock \/ clock' = clock + 1)
    BY <2>2 DEF Request, RequestStep, BeginClear, BeginDelete, BeginToggle, Promote, DeleteRow,
                ClearRows, Pin, Unpin, AnnounceRequest, UnlinkFiles, RequestFails,
                ClientUnchanged
  <2>3. CASE (\E c \in Contents : Save(c)) \/ Crash \/ Restart \/ (\E i \in files : LoseFile(i))
    BY <2>3 DEF Save, Crash, Restart, LoseFile
  <2> QED
    BY <2>1, <2>2, <2>3 DEF Next
<1>3. Exit \/ Restart \/ up' = up
  <2>1. CASE SaverStep
    BY <2>1 DEF SaverStep, SaverUnchanged, FindText, FindImage, CheckFile, Touch, DropStaleRow,
                DropStaleFile, WriteTemp, CommitFile, WriteFails, Insert, InsertFails,
                RollbackFile, CountRows, SelectVictims, Evict, Prune, AnnounceSave
  <2>2. ASSUME NEW c \in Clients, Request(c) \/ RequestStep(c) PROVE up' = up
    BY <2>2 DEF Request, RequestStep, BeginClear, BeginDelete, BeginToggle, Promote, DeleteRow,
                ClearRows, Pin, Unpin, AnnounceRequest, UnlinkFiles, RequestFails,
                ClientUnchanged
  <2>3. CASE (\E c \in Contents : Save(c)) \/ Crash \/ Restart \/ (\E i \in files : LoseFile(i))
    BY <2>3 DEF Save, Crash, Restart, LoseFile
  <2> QED
    BY <2>1, <2>2, <2>3 DEF Next
<1> QED
  BY <1>1, <1>2, <1>3

\* The saver takes the gate before it works on an image and keeps it, and no
\* other task but the migration has it.
LEMMA OthersToGate ==
  ASSUME TypeInv, MigGate, Next, up, up' = up, mig' = mig
  PROVE  MigGate'
<1>1. saver \in SaverType
  BY DEF TypeInv, TypeOK
<1>2. CASE ~SaverStep
  <2>1. ~Crash
    BY DEF Crash, Exit, TypeInv, TypeOK
  <2>2. CASE \E c \in Contents : Save(c)
    BY <2>2 DEF Save, IdleSaver, MigGate
  <2>3. CASE ~\E c \in Contents : Save(c)
    <3>1. saver' = saver /\ gate' = gate
      BY <1>2, <2>1, <2>3
         DEF Next, Request, RequestStep, BeginClear, BeginDelete, BeginToggle, Promote,
             DeleteRow, ClearRows, Pin, Unpin, AnnounceRequest, UnlinkFiles, RequestFails,
             ClientUnchanged, Restart, LoseFile
    <3> QED
      BY <3>1 DEF MigGate
  <2> QED
    BY <2>2, <2>3
<1>3. CASE FindText
  <2>1. saver'.content = saver.content /\ saver.content \in Texts /\ gate' = gate
    BY <1>1, <1>3 DEF FindText, SaverType
  <2> QED
    BY <2>1, ContentAssumption DEF MigGate
<1>4. CASE FindImage
  BY <1>4 DEF FindImage, MigGate
<1>5. CASE AnnounceSave
  BY <1>5 DEF AnnounceSave, IdleSaver, MigGate
<1>6. CASE CheckFile \/ Touch \/ DropStaleRow \/ DropStaleFile \/ WriteTemp \/ CommitFile
           \/ Insert \/ InsertFails
  <2>1. saver'.content = saver.content /\ gate' = gate /\ saver.pc \notin {"idle", "find"}
    BY <1>1, <1>6 DEF CheckFile, Touch, DropStaleRow, DropStaleFile, WriteTemp, CommitFile,
                      Insert, InsertFails, SaverType
  <2> QED
    BY <2>1 DEF MigGate
<1>7. CASE CountRows \/ SelectVictims \/ Evict \/ Prune
  <2>1. saver'.content = saver.content /\ gate' = gate /\ saver.pc \notin {"idle", "find"}
    BY <1>1, <1>7 DEF CountRows, SelectVictims, Evict, Prune, SaverType
  <2> QED
    BY <2>1 DEF MigGate
<1>8. ~WriteFails /\ ~RollbackFile
  BY DEF WriteFails, RollbackFile, Exit, TypeInv, TypeOK
<1> QED
  BY <1>2, <1>3, <1>4, <1>5, <1>6, <1>7, <1>8 DEF SaverStep

\* The saver takes a new number with each save, and then keeps it.
LEMMA NumberTaken ==
  ASSUME TypeInv, Next, saver'.pc \in FreshPcs
  PROVE  saver'.id = clock + 1 \/ (saver.pc \in FreshPcs /\ saver'.id = saver.id)
<1>1. saver \in SaverType
  BY DEF TypeInv, TypeOK
<1>2. CASE \E c \in Contents : Save(c)
  BY <1>2 DEF Save, IdleSaver
<1>3. CASE FindText \/ FindImage \/ CheckFile \/ Touch \/ DropStaleRow \/ DropStaleFile
           \/ WriteTemp \/ CommitFile
  <2>1. saver.pc \in FreshPcs
    BY <1>3 DEF FindText, FindImage, CheckFile, Touch, DropStaleRow, DropStaleFile, WriteTemp,
                CommitFile, FreshPcs
  <2>2. saver'.id = saver.id
    BY <1>1, <1>3 DEF FindText, FindImage, CheckFile, Touch, DropStaleRow, DropStaleFile,
                      WriteTemp, CommitFile, SaverType
  <2> QED
    BY <2>1, <2>2
<1>4. CASE Insert \/ InsertFails \/ CountRows \/ SelectVictims
  <2>1. saver'.pc \in {"count", "rollback", "announce", "oldest", "evict"}
    BY <1>1, <1>4 DEF Insert, InsertFails, CountRows, SelectVictims, SaverType
  <2>2. CASE InsertFails
    BY <1>1, <2>2 DEF InsertFails, SaverType, FreshPcs
  <2>3. CASE ~InsertFails
    <3>1. saver'.pc \in {"count", "announce", "oldest", "evict"}
      BY <1>1, <1>4, <2>3 DEF Insert, CountRows, SelectVictims, SaverType
    <3> QED
      BY <3>1 DEF FreshPcs
  <2> QED
    BY <2>2, <2>3
<1>5. CASE Evict \/ Prune
  <2>1. saver'.pc \in {"evict", "prune", "announce"}
    BY <1>1, <1>5 DEF Evict, Prune, SaverType
  <2> QED
    BY <2>1 DEF FreshPcs
<1>6. CASE AnnounceSave \/ WriteFails \/ RollbackFile \/ Crash
  <2>1. saver'.pc = "idle"
    BY <1>6 DEF AnnounceSave, WriteFails, RollbackFile, Crash, Exit, IdleSaver
  <2> QED
    BY <2>1 DEF FreshPcs
<1>7. CASE (\E c \in Clients : Request(c) \/ RequestStep(c)) \/ Restart
           \/ \E i \in files : LoseFile(i)
  <2>1. saver' = saver
    BY <1>7 DEF Request, RequestStep, BeginClear, BeginDelete, BeginToggle, Promote, DeleteRow,
                ClearRows, Pin, Unpin, AnnounceRequest, UnlinkFiles, RequestFails,
                ClientUnchanged, Restart, LoseFile
  <2> QED
    BY <2>1
<1> QED
  BY <1>2, <1>3, <1>4, <1>5, <1>6, <1>7 DEF Next, SaverStep

\* The other tasks, and the death and the start of the daemon, keep what the
\* migration remembers true: they insert no row but the saver's new one.
LEMMA OthersKeepMig ==
  ASSUME TypeInv, TypeInv', MigInv, Next, MigLifecycle
  PROVE  MigInv'
<1>0. /\ clock \in Nat /\ clock' \in Nat /\ clock <= clock' /\ lost \subseteq lost'
      /\ 0 \notin DOMAIN rows' /\ up \in BOOLEAN /\ up' \in BOOLEAN
  BY OthersFootprint DEF TypeInv, TypeOK
<1>1. CASE ~up'
  <2>1. mig' = Migration("off")
    BY <1>1 DEF MigLifecycle
  <2>2. saver'.pc = "idle"
    BY <1>1 DEF TypeInv, SaverWorks
  <2>3. saver'.pc \notin FreshPcs
    BY <2>2 DEF FreshPcs
  <2> QED
    BY <1>0, <2>1, <2>2, <2>3, MigBlank
<1>2. CASE up' /\ ~up
  <2>1. mig' = Migration("query")
    BY <1>2 DEF MigLifecycle
  <2>2. Restart
    BY <1>2, OthersFootprint DEF Exit
  <2>3. saver'.pc = "idle"
    BY <1>2, <2>2 DEF Restart, TypeInv, SaverWorks
  <2>4. saver'.pc \notin FreshPcs
    BY <2>3 DEF FreshPcs
  <2> QED
    BY <1>0, <1>2, <2>1, <2>3, <2>4, MigBlank
<1>3. CASE up' /\ up
  <2>1. mig' = mig /\ up' = up
    BY <1>0, <1>3 DEF MigLifecycle
  <2>2. Insert \/ IdentityKept
    BY OthersToRows
  <2>3. mig \in MigrationType
    BY DEF MigInv
  <2>4. (mig \in MigrationType)'
    <3>1. 1..clock \subseteq 1..clock' /\ 0..clock \subseteq 0..clock'
      BY <1>0
    <3>2. Candidates \subseteq Candidates'
      BY <3>1 DEF Candidates
    <3> QED
      BY <2>1, <2>3, <3>1, <3>2 DEF MigrationType
  <2>5. MigDown' /\ MigGate'
    BY <1>3, <2>1, OthersToGate DEF MigInv, MigDown
  <2>6. MigIds'
    <3>1. SUFFICES ASSUME saver'.pc \in FreshPcs
                   PROVE  /\ saver'.id \notin mig.redundant
                          /\ saver'.id # mig.cand.id
                          /\ \A k \in mig.todo : k.id # saver'.id
      BY <2>1 DEF MigIds
    <3>2. CASE saver'.id = clock + 1
      BY <1>0, <2>3, <3>2 DEF MigrationType, Candidates
    <3>3. CASE saver.pc \in FreshPcs /\ saver'.id = saver.id
      BY <3>3 DEF MigInv, MigIds
    <3> QED
      BY <3>1, <3>2, <3>3, NumberTaken
  <2>7. /\ MigDead /\ MigKnown /\ MigPast /\ MigPhase
        /\ saver.pc = "insert" => /\ saver.id \notin mig.redundant
                                  /\ saver.id # mig.cand.id
                                  /\ \A k \in mig.todo : k.id # saver.id
    BY DEF MigInv, MigIds, FreshPcs
  <2>8. MigPhase'
    BY <2>1, <2>7 DEF MigPhase
  <2>9. CASE IdentityKept
    <3>1. MigDead'
      BY <2>1, <2>7, <2>9 DEF MigDead, IdentityKept
    <3>2. MigKnown'
      BY <2>1, <2>7, <2>9 DEF MigKnown, AtCandidate, IdentityKept
    <3>3. MigPast'
      BY <1>0, <2>1, <2>7, <2>9 DEF MigPast, AtCandidate, IdentityKept, ImageIds, IsImage
    <3> QED
      BY <2>4, <2>5, <2>6, <2>8, <3>1, <3>2, <3>3 DEF MigInv
  <2>10. CASE Insert
    <3>1. /\ saver.pc = "insert"
          /\ DOMAIN rows' = DOMAIN rows \cup {saver.id}
          /\ ~rows'[saver.id].legacy
          /\ \A i \in DOMAIN rows : i # saver.id => rows'[i] = rows[i]
      BY <2>10 DEF Insert
    <3>2. MigDead'
      BY <2>1, <2>7, <3>1 DEF MigDead
    <3>3. MigKnown'
      <4>1. \A k \in mig.todo \cup {mig.cand} :
              k.id \in DOMAIN rows' => k.id \in DOMAIN rows /\ rows'[k.id] = rows[k.id]
        BY <2>7, <3>1
      <4> QED
        BY <2>1, <2>7, <4>1 DEF MigKnown, AtCandidate
    <3>4. MigPast'
      <4>1. \A i \in ImageIds' : rows'[i].legacy => i \in ImageIds /\ rows'[i] = rows[i]
        BY <3>1 DEF ImageIds, IsImage
      <4> QED
        BY <1>0, <2>1, <2>7, <4>1 DEF MigPast, AtCandidate
    <3> QED
      BY <2>4, <2>5, <2>6, <2>8, <3>2, <3>3, <3>4 DEF MigInv
  <2> QED
    BY <2>2, <2>9, <2>10
<1> QED
  BY <1>0, <1>1, <1>2, <1>3

\* A migration that forgets has nothing to unlink.
LEMMA ForgottenAll ==
  ASSUME NEW p
  PROVE  [Forget(p) EXCEPT !.redundant = {}] = Forget(p)
<1>1. Forget(p) = [pc |-> p, todo |-> mig.todo, cand |-> NoCandidate, found |-> {},
                   healthy |-> {}, redundant |-> {}]
  BY DEF Forget, Migration
<1> QED
  BY <1>1

\* When the migration lets go of its candidate, which is done with or gone,
\* what is left of its memory is the list and the files to unlink.
LEMMA MigForget ==
  ASSUME TypeInv, TypeInv', MigInv, MigStep, up, FreshId,
         NEW p \in {"next", "unlink", "announce"}, NEW R \in SUBSET (1..clock),
         mig' = [Forget(p) EXCEPT !.redundant = R],
         mig.pc \in {"commit", "unlink", "announce"},
         mig.pc = "commit" => Candidate \notin DOMAIN rows' \/ ~rows'[Candidate].legacy,
         DOMAIN rows' \subseteq DOMAIN rows,
         \A i \in DOMAIN rows' : /\ rows'[i].content = rows[i].content
                                 /\ rows'[i].legacy => rows[i].legacy,
         R \cap DOMAIN rows' = {}, R \subseteq DOMAIN rows,
         gate' = gate \/ gate # "saver"
  PROVE  MigInv'
<1>1. /\ mig'.pc = p /\ mig'.todo = mig.todo /\ mig'.cand = NoCandidate /\ mig'.redundant = R
      /\ mig'.found = {} /\ mig'.healthy = {}
  BY DEF Forget, Migration
<1>2. UNCHANGED <<lost, saver, clock, up>>
  BY MigFootprint
<1>3. (mig \in MigrationType)'
  <2>1. NoCandidate \in Candidates'
    BY <1>2 DEF NoCandidate, Candidates, TypeInv, TypeOK
  <2>2. mig.todo \in SUBSET Candidates'
    BY <1>2 DEF MigInv, MigrationType, Candidates
  <2>3. p \in MigPcs
    BY DEF MigPcs
  <2> QED
    BY <1>2, <2>1, <2>2, <2>3 DEF Forget, Migration, MigrationType
<1>4. MigDown' /\ MigPhase'
  BY <1>1, <1>2 DEF MigDown, MigPhase
<1>5. MigGate'
  BY <1>1, <1>2 DEF MigInv, MigGate
<1>6. MigIds'
  <2>1. SUFFICES ASSUME saver.pc \in FreshPcs
                 PROVE  /\ saver.id \notin R /\ saver.id # 0
                        /\ \A k \in mig.todo : k.id # saver.id
    BY <1>1, <1>2 DEF MigIds, NoCandidate
  <2>2. saver.id \notin DOMAIN rows
    BY <2>1 DEF FreshPcs, FreshId
  <2>3. saver.id # 0
    BY <2>1 DEF FreshPcs, TypeInv, TypeOK, SaverWorks
  <2> QED
    BY <2>1, <2>2, <2>3 DEF MigInv, MigIds
<1>7. MigDead'
  BY <1>1 DEF MigDead
<1>8. MigKnown'
  <2>1. NoCandidate.id \notin DOMAIN rows'
    BY DEF NoCandidate, TypeInv, TypeOK
  <2> QED
    BY <1>1, <2>1 DEF MigInv, MigKnown, AtCandidate
<1>9. MigPast'
  <2>1. SUFFICES ASSUME NEW i \in ImageIds', rows'[i].legacy
                 PROVE  i \in lost \/ \E k \in mig.todo : k.id = i
    BY <1>1, <1>2 DEF MigPast
  <2>2. i \in DOMAIN rows' /\ i \in ImageIds /\ rows[i].legacy
    BY <2>1 DEF ImageIds, IsImage
  <2>3. i \in lost \/ (\E k \in mig.todo : k.id = i)
        \/ (AtCandidate /\ mig.cand.id = i)
    <3>1. MigPast
      BY DEF MigInv
    <3> QED
      BY <2>2, <3>1 DEF MigPast
  <2>4. ~(AtCandidate /\ mig.cand.id = i)
    BY <2>1, <2>2 DEF AtCandidate, Candidate
  <2> QED
    BY <2>3, <2>4
<1> QED
  BY <1>3, <1>4, <1>5, <1>6, <1>7, <1>8, <1>9 DEF MigInv

\* Every step of the migration keeps what it remembers true.
LEMMA MigKeepsMig ==
  ASSUME TypeInv, TypeInv', FileInv, MigInv, MigStep
  PROVE  MigInv'
<1>1. UNCHANGED <<lost, saver, clock, up>>
  BY MigFootprint
<1>2. up
  <2>1. mig.pc # "off"
    BY DEF MigStep, MigQuery, MigDecode, MigDone, MigLock, MigVerify, MigStale, MigInPlace,
           MigConsolidate, MigUnlink, MigAnnounce, MigFails
  <2> QED
    BY <2>1 DEF MigInv, MigDown, Migration
<1>3. mig \in MigrationType
  BY DEF MigInv
<1>4. Candidates' = Candidates
  BY <1>1 DEF Candidates
<1>5. 0 \notin DOMAIN rows' /\ clock \in Nat /\ rows \in [DOMAIN rows -> Row]
      /\ DOMAIN rows \subseteq 1..clock
  BY DEF TypeInv, TypeOK
<1>6. FreshId /\ NoDanglingImage
  BY DEF FileInv
<1>7. saver.pc \in FreshPcs => saver.id \notin DOMAIN rows /\ saver.id # 0
  BY <1>6 DEF FreshPcs, FreshId, TypeInv, TypeOK, SaverWorks
<1>8. NoCandidate.id = 0
  BY DEF NoCandidate
<1>9. MigDown'
  BY <1>1, <1>2 DEF MigDown
<1>10. CASE MigQuery
  <2> DEFINE found == {[id |-> i, content |-> rows[i].content] :
                         i \in {j \in ImageIds : rows[j].legacy}}
  <2>1. /\ mig' = [Migration("next") EXCEPT !.todo = found]
        /\ UNCHANGED <<rows, files, rev, gate>> /\ mig.pc = "query"
    BY <1>10 DEF MigQuery
  <2>2. /\ mig'.pc = "next" /\ mig'.todo = found /\ mig'.cand = NoCandidate
        /\ mig'.redundant = {}
    BY <2>1 DEF Migration
  <2>3. \A k \in found : /\ k.id \in DOMAIN rows /\ k.content = rows[k.id].content
                         /\ k.content \in Images
    BY DEF ImageIds, IsImage
  <2>4. (mig \in MigrationType)'
    <3>1. found \subseteq Candidates
      BY <1>5 DEF ImageIds, IsImage, Candidates, Row
    <3>2. NoCandidate \in Candidates
      BY <1>5 DEF NoCandidate, Candidates
    <3> HIDE DEF found
    <3> QED
      BY <1>4, <2>1, <3>1, <3>2 DEF Migration, MigrationType, MigPcs
  <2>5. ASSUME NEW i \in ImageIds, rows[i].legacy PROVE \E k \in found : k.id = i
    <3>1. [id |-> i, content |-> rows[i].content] \in found
      BY <2>5
    <3> QED
      BY <3>1
  <2> HIDE DEF found
  <2>6. MigGate' /\ MigPhase' /\ MigDead'
    BY <1>1, <2>1, <2>2 DEF MigInv, MigGate, MigPhase, MigDead
  <2>7. MigIds'
    BY <1>1, <1>7, <1>8, <2>2, <2>3 DEF MigIds
  <2>8. MigKnown'
    BY <1>5, <1>8, <2>1, <2>2, <2>3 DEF MigKnown, AtCandidate
  <2>9. MigPast'
    BY <2>1, <2>2, <2>5 DEF MigPast, ImageIds, IsImage
  <2> QED
    BY <1>9, <2>4, <2>6, <2>7, <2>8, <2>9 DEF MigInv
<1>11. CASE MigDecode
  <2>1. PICK k \in mig.todo :
          mig' = [mig EXCEPT !.todo = @ \ {k},
                             !.cand = IF k.id \in files THEN k ELSE NoCandidate,
                             !.pc = IF k.id \in files THEN "gate" ELSE "next"]
    BY <1>11 DEF MigDecode
  <2>2. /\ mig.pc = "next" /\ UNCHANGED <<rows, files, rev, gate>>
    BY <1>11 DEF MigDecode
  <2>3. /\ mig'.todo = mig.todo \ {k}
        /\ mig'.cand = IF k.id \in files THEN k ELSE NoCandidate
        /\ mig'.pc = IF k.id \in files THEN "gate" ELSE "next"
        /\ mig'.redundant = mig.redundant
    BY <1>3, <2>1 DEF MigrationType
  <2>4. (mig \in MigrationType)'
    <3>1. NoCandidate \in Candidates
      BY <1>5 DEF NoCandidate, Candidates
    <3>2. k \in Candidates
      BY <1>3 DEF MigrationType
    <3> QED
      BY <1>1, <1>3, <1>4, <2>1, <3>1, <3>2 DEF MigrationType, MigPcs
  <2>5. MigGate' /\ MigPhase' /\ MigDead'
    BY <1>1, <2>2, <2>3 DEF MigInv, MigGate, MigPhase, MigDead
  <2>6. MigIds'
    BY <1>1, <1>7, <1>8, <2>3 DEF MigInv, MigIds
  <2>7. MigKnown'
    BY <1>5, <1>8, <2>2, <2>3 DEF MigInv, MigKnown, AtCandidate
  <2>8. MigPast'
    <3>1. SUFFICES ASSUME NEW i \in ImageIds, rows[i].legacy
                   PROVE  \/ i \in lost \/ \E l \in mig.todo \ {k} : l.id = i
                          \/ AtCandidate' /\ mig'.cand.id = i
      BY <1>1, <2>2, <2>3 DEF MigPast, ImageIds, IsImage
    <3>2. i \in lost \/ \E l \in mig.todo : l.id = i
      BY <2>2, <3>1 DEF MigInv, MigPast, AtCandidate
    <3>3. CASE k.id = i /\ k.id \in files
      BY <2>3, <3>3 DEF AtCandidate
    <3>4. CASE k.id = i /\ k.id \notin files
      BY <1>6, <3>1, <3>4 DEF NoDanglingImage
    <3>5. CASE k.id # i
      BY <3>2, <3>5
    <3> QED
      BY <3>3, <3>4, <3>5
  <2> QED
    BY <1>9, <2>4, <2>5, <2>6, <2>7, <2>8 DEF MigInv
<1>12. CASE MigDone
  <2>1. /\ mig.pc = "next" /\ mig.todo = {} /\ mig' = Migration("done")
        /\ UNCHANGED <<rows, files, rev, gate>>
    BY <1>12 DEF MigDone
  <2>2. /\ mig'.pc = "done" /\ mig'.todo = {} /\ mig'.cand = NoCandidate
        /\ mig'.redundant = {}
    BY <2>1 DEF Migration
  <2>3. (mig \in MigrationType)'
    <3>1. NoCandidate \in Candidates
      BY <1>5 DEF NoCandidate, Candidates
    <3> QED
      BY <1>4, <2>1, <3>1 DEF Migration, MigrationType, MigPcs
  <2>4. MigGate' /\ MigPhase' /\ MigDead' /\ MigIds'
    BY <1>1, <1>7, <1>8, <2>1, <2>2 DEF MigInv, MigGate, MigPhase, MigDead, MigIds
  <2>5. MigKnown'
    BY <1>5, <1>8, <2>1, <2>2 DEF MigKnown, AtCandidate
  <2>6. MigPast'
    BY <1>1, <2>1, <2>2 DEF MigInv, MigPast, AtCandidate, ImageIds, IsImage
  <2> QED
    BY <1>9, <2>3, <2>4, <2>5, <2>6 DEF MigInv
<1>13. CASE MigLock \/ MigVerify
  <2>1. UNCHANGED <<rows, files, rev>>
    BY <1>13 DEF MigLock, MigVerify
  <2>2. PICK F \in SUBSET (1..clock), H \in SUBSET (0..clock), q \in {"verify", "commit"} :
          /\ mig' = [mig EXCEPT !.pc = q, !.found = F, !.healthy = H]
          /\ q = "commit" => mig.cand.id \in H
    <3>1. CASE MigLock
      <4>1. Matches(mig.cand.content) \ {mig.cand.id} \in SUBSET (1..clock)
        BY <1>5 DEF Matches
      <4>2. mig.healthy \in SUBSET (0..clock) /\ mig.healthy = mig.healthy
        BY <1>3 DEF MigrationType
      <4>3. mig' = [mig EXCEPT !.pc = "verify",
                               !.found = Matches(mig.cand.content) \ {mig.cand.id},
                               !.healthy = mig.healthy]
        BY <1>3, <3>1 DEF MigLock, MigrationType
      <4> QED
        BY <4>1, <4>2, <4>3
    <3>2. CASE MigVerify
      <4>1. {mig.cand.id} \cup (mig.found \cap files) \in SUBSET (0..clock)
        BY <1>3 DEF MigrationType, Candidates
      <4>2. mig.found \in SUBSET (1..clock)
        BY <1>3 DEF MigrationType
      <4>3. mig' = [mig EXCEPT !.pc = "commit", !.found = mig.found,
                               !.healthy = {mig.cand.id} \cup (mig.found \cap files)]
        BY <1>3, <3>2 DEF MigVerify, MigrationType
      <4> QED
        BY <4>1, <4>2, <4>3
    <3> QED
      BY <1>13, <3>1, <3>2
  <2>3. /\ mig'.pc = q /\ mig'.todo = mig.todo /\ mig'.cand = mig.cand /\ mig'.healthy = H
        /\ mig'.redundant = mig.redundant
    BY <1>3, <2>2 DEF MigrationType
  <2>4. (mig \in MigrationType)'
    BY <1>1, <1>3, <1>4, <2>2 DEF MigrationType, MigPcs
  <2>5. AtCandidate
    BY <1>13 DEF AtCandidate, MigLock, MigVerify
  <2>6. MigPhase' /\ MigDead' /\ MigIds'
    BY <1>1, <2>1, <2>2, <2>3 DEF MigInv, MigPhase, MigDead, MigIds
  <2>7. MigGate'
    BY <1>1, <1>13, <2>2, <2>3 DEF MigLock, MigVerify, MigInv, MigGate
  <2>8. MigKnown'
    BY <2>1, <2>3, <2>5 DEF MigInv, MigKnown, AtCandidate
  <2>9. MigPast'
    <3>1. AtCandidate'
      BY <2>2, <2>3 DEF AtCandidate
    <3> QED
      BY <1>1, <2>1, <2>3, <2>5, <3>1 DEF MigInv, MigPast, AtCandidate, ImageIds, IsImage
  <2> QED
    BY <1>9, <2>4, <2>6, <2>7, <2>8, <2>9 DEF MigInv
<1>14. CASE MigStale
  <2>1. /\ mig.pc = "commit" /\ ~Fresh /\ gate' = "free" /\ mig' = Forget("next")
        /\ rows' = rows
    BY <1>14 DEF MigStale
  <2>2. mig' = [Forget("next") EXCEPT !.redundant = {}]
    BY <2>1, ForgottenAll
  <2>3. gate # "saver"
    BY <2>1 DEF MigInv, MigGate
  <2>4. Candidate \notin DOMAIN rows' \/ ~rows'[Candidate].legacy
    BY <2>1 DEF Fresh, Candidate
  <2>6. /\ {} \in SUBSET (1..clock) /\ {} \subseteq DOMAIN rows /\ {} \cap DOMAIN rows' = {}
        /\ gate' = gate \/ gate # "saver"
        /\ DOMAIN rows' \subseteq DOMAIN rows
        /\ \A i \in DOMAIN rows' : /\ rows'[i].content = rows[i].content
                                   /\ rows'[i].legacy => rows[i].legacy
        /\ mig.pc \in {"commit", "unlink", "announce"}
    BY <2>1, <2>3
  <2> QED
    BY <1>2, <1>6, <2>1, <2>2, <2>4, <2>6, MigForget
<1>15. CASE MigInPlace
  <2>1. /\ mig.pc = "commit" /\ gate' = "free" /\ mig' = Forget("next")
        /\ rows' = [rows EXCEPT ![Candidate].legacy = FALSE]
    BY <1>15 DEF MigInPlace
  <2>2. mig' = [Forget("next") EXCEPT !.redundant = {}]
    BY <2>1, ForgottenAll
  <2>3. gate # "saver"
    BY <2>1 DEF MigInv, MigGate
  <2>4. /\ DOMAIN rows' \subseteq DOMAIN rows
        /\ \A i \in DOMAIN rows' : /\ rows'[i].content = rows[i].content
                                   /\ rows'[i].legacy => rows[i].legacy
        /\ Candidate \in DOMAIN rows' => ~rows'[Candidate].legacy
    BY <1>5, <2>1 DEF Row
  <2>5. Candidate \notin DOMAIN rows' \/ ~rows'[Candidate].legacy
    <3> PICK x : x = Candidate'
      OBVIOUS
    <3>1. CASE Candidate \in DOMAIN rows
      BY <1>5, <2>1, <3>1 DEF Row
    <3>2. CASE Candidate \notin DOMAIN rows
      BY <2>1, <3>2
    <3> QED
      BY <3>1, <3>2
  <2>6. /\ {} \in SUBSET (1..clock) /\ {} \subseteq DOMAIN rows /\ {} \cap DOMAIN rows' = {}
        /\ gate' = gate \/ gate # "saver"
        /\ DOMAIN rows' \subseteq DOMAIN rows
        /\ \A i \in DOMAIN rows' : /\ rows'[i].content = rows[i].content
                                   /\ rows'[i].legacy => rows[i].legacy
        /\ mig.pc \in {"commit", "unlink", "announce"}
    BY <2>1, <2>3, <2>4
  <2> QED
    BY <1>2, <1>6, <2>1, <2>2, <2>5, <2>6, MigForget
<1>16. CASE MigConsolidate
  <2>1. /\ mig.pc = "commit" /\ Fresh /\ gate' = "free"
    BY <1>16 DEF MigConsolidate
  <2> DEFINE newest == CHOOSE t \in {rows[i].created : i \in Merged} :
                         \A i \in Merged : rows[i].created <= t
  <2>2. PICK s \in Survivors :
          /\ rows' = [i \in DOMAIN rows \ (Merged \ {s}) |->
                        IF i = s
                          THEN [content |-> rows[s].content, created |-> newest,
                                pinned |-> \E j \in Merged : rows[j].pinned,
                                legacy |-> FALSE]
                          ELSE rows[i]]
          /\ mig' = [Forget("unlink") EXCEPT !.redundant = Merged \ {s}]
    BY <1>16 DEF MigConsolidate, Merged
  <2> HIDE DEF newest
  <2>3. Merged \subseteq DOMAIN rows /\ Candidate \in Merged
    BY <2>1, MergedAlike
  <2>4. Merged \ {s} \in SUBSET (1..clock)
    BY <1>5, <2>3
  <2>5. /\ DOMAIN rows' = DOMAIN rows \ (Merged \ {s})
        /\ \A i \in DOMAIN rows' : /\ rows'[i].content = rows[i].content
                                   /\ rows'[i].legacy => rows[i].legacy
        /\ s \in DOMAIN rows' => ~rows'[s].legacy
    BY <2>2
  <2>6. Candidate \notin DOMAIN rows' \/ ~rows'[Candidate].legacy
    BY <2>3, <2>5
  <2>7. gate # "saver"
    BY <2>1 DEF MigInv, MigGate
  <2>8. DOMAIN rows' \subseteq DOMAIN rows /\ (Merged \ {s}) \cap DOMAIN rows' = {}
        /\ Merged \ {s} \subseteq DOMAIN rows
    BY <2>3, <2>5
  <2> QED
    BY <1>2, <1>6, <2>1, <2>2, <2>4, <2>5, <2>6, <2>7, <2>8, MigForget
<1>17. CASE MigUnlink
  <2>1. mig.pc = "unlink" /\ UNCHANGED <<rows, rev, gate>>
    BY <1>17 DEF MigUnlink
  <2>2. CASE mig' = Forget("announce")
    <3>1. mig' = [Forget("announce") EXCEPT !.redundant = {}]
      BY <2>2, ForgottenAll
    <3>2. /\ {} \in SUBSET (1..clock) /\ {} \subseteq DOMAIN rows /\ {} \cap DOMAIN rows' = {}
          /\ gate' = gate \/ gate # "saver"
          /\ DOMAIN rows' \subseteq DOMAIN rows
          /\ \A j \in DOMAIN rows' : /\ rows'[j].content = rows[j].content
                                     /\ rows'[j].legacy => rows[j].legacy
          /\ mig.pc \in {"commit", "unlink", "announce"} /\ mig.pc # "commit"
      BY <2>1
    <3> QED
      BY <1>2, <1>6, <3>1, <3>2, MigForget
  <2>3. ASSUME NEW i \in mig.redundant, mig' = [mig EXCEPT !.redundant = @ \ {i}]
        PROVE  MigInv'
    <3>1. /\ mig'.pc = mig.pc /\ mig'.todo = mig.todo /\ mig'.cand = mig.cand
          /\ mig'.redundant \subseteq mig.redundant
      BY <1>3, <2>3 DEF MigrationType
    <3>2. (mig \in MigrationType)'
      BY <1>1, <1>3, <1>4, <2>3 DEF MigrationType
    <3>3. MigGate' /\ MigPhase' /\ MigDead' /\ MigIds'
      BY <1>1, <2>1, <3>1 DEF MigInv, MigGate, MigPhase, MigDead, MigIds
    <3>4. MigKnown' /\ MigPast'
      BY <1>1, <2>1, <3>1 DEF MigInv, MigKnown, MigPast, AtCandidate, ImageIds, IsImage
    <3> QED
      BY <1>9, <3>2, <3>3, <3>4 DEF MigInv
  <2> QED
    BY <1>17, <2>2, <2>3 DEF MigUnlink
<1>18. CASE MigAnnounce
  <2>1. /\ mig.pc = "announce" /\ mig' = Forget("next") /\ UNCHANGED <<rows, files, gate>>
    BY <1>18 DEF MigAnnounce
  <2>2. mig' = [Forget("next") EXCEPT !.redundant = {}]
    BY <2>1, ForgottenAll
  <2> QED
    BY <1>2, <1>6, <2>1, <2>2, MigForget
<1>19. CASE MigFails
  <2>1. /\ mig' = Migration("failed")
        /\ gate' = IF gate = "migration" THEN "free" ELSE gate
    BY <1>19 DEF MigFails
  <2>2. saver'.content \in Images /\ saver'.pc \notin {"idle", "find"} => gate' = "saver"
    BY <1>1, <2>1 DEF MigInv, MigGate
  <2> QED
    BY <1>1, <1>2, <1>5, <1>7, <2>1, <2>2, MigBlank
<1> QED
  BY <1>10, <1>11, <1>12, <1>13, <1>14, <1>15, <1>16, <1>17, <1>18, <1>19 DEF MigStep

-----------------------------------------------------------------------------
(* The migration loses nothing *)

\* A step of the migration keeps every image, with its pin, its recency and
\* its file.
LEMMA MigLoses ==
  ASSUME TypeInv, FileInv, MigInv, MigStep, NEW c \in Images
  PROVE  /\ Has(c) => Has(c)'
         /\ Pinned(c) => Pinned(c)'
         /\ NoOlder(c)
         /\ Backed(c) /\ mig.healthy \cap lost = {} => Backed(c)'
<1>1. rows \in [DOMAIN rows -> Row]
  BY DEF TypeInv, TypeOK
<1>2. \A i \in DOMAIN rows : rows[i].created \in Nat
  BY <1>1 DEF Row
<1>3. CASE rows' = rows
  <2>1. \A i \in DOMAIN rows : i \in files => i \in files'
    <3>1. CASE files' = files
      BY <3>1
    <3>2. CASE files' # files
      <4>1. MigUnlink
        BY <3>2 DEF MigStep, MigQuery, MigDecode, MigDone, MigLock, MigVerify, MigStale,
                    MigInPlace, MigConsolidate, MigAnnounce, MigFails
      <4>2. PICK i \in mig.redundant : files' = files \ {i}
        BY <3>2, <4>1 DEF MigUnlink, Unlink
      <4> QED
        BY <4>2 DEF MigInv, MigDead
    <3> QED
      BY <3>1, <3>2
  <2>2. (Has(c) => Has(c)') /\ (Pinned(c) => Pinned(c)')
    BY <1>3 DEF Has, Pinned
  <2>3. NoOlder(c)
    BY <1>2, <1>3 DEF NoOlder
  <2>4. Backed(c) => Backed(c)'
    BY <1>3, <2>1 DEF Backed
  <2> QED
    BY <2>2, <2>3, <2>4
<1>4. CASE MigInPlace
  <2>1. files' = files /\ rows' = [rows EXCEPT ![Candidate].legacy = FALSE]
    BY <1>4 DEF MigInPlace
  <2>2. /\ DOMAIN rows' = DOMAIN rows
        /\ \A i \in DOMAIN rows : /\ rows'[i].content = rows[i].content
                                  /\ rows'[i].created = rows[i].created
                                  /\ rows'[i].pinned = rows[i].pinned
    BY <1>1, <2>1 DEF Row
  <2>3. (Has(c) => Has(c)') /\ (Pinned(c) => Pinned(c)')
    BY <2>2 DEF Has, Pinned
  <2>4. NoOlder(c)
    BY <1>2, <2>2 DEF NoOlder
  <2>5. Backed(c) => Backed(c)'
    BY <2>1, <2>2 DEF Backed
  <2> QED
    BY <2>3, <2>4, <2>5
<1>5. CASE MigConsolidate
  <2>1. PICK s \in Survivors, newest \in Nat : MergedInto(s, newest)
    BY <1>5, MergeResult DEF MergedInto
  <2>2. mig.pc = "commit" /\ Fresh /\ files' = files
    BY <1>5 DEF MigConsolidate
  <2>3. /\ Merged \subseteq DOMAIN rows
        /\ \A j \in Merged : rows[j].content = mig.cand.content
        /\ mig.cand.content \in Images
    BY <2>2, MergedAlike
  <2>4. s \in Merged /\ s \in DOMAIN rows' /\ rows'[s].content = mig.cand.content
        /\ rows'[s].created = newest /\ rows'[s].pinned = \E j \in Merged : rows[j].pinned
    BY <2>1, <2>3 DEF MergedInto
  <2>5. \A i \in DOMAIN rows \ Merged : i \in DOMAIN rows' /\ rows'[i] = rows[i]
    BY <2>1 DEF MergedInto
  <2>6. \A j \in Merged : rows[j].created <= newest
    BY <2>1 DEF MergedInto
  <2>7. Has(c) => Has(c)'
    BY <2>3, <2>4, <2>5 DEF Has
  <2>8. Pinned(c) => Pinned(c)'
    <3>1. SUFFICES ASSUME NEW i \in DOMAIN rows, rows[i].content = c, rows[i].pinned
                   PROVE  \E j \in DOMAIN rows' : rows'[j].content = c /\ rows'[j].pinned
      BY DEF Pinned
    <3>2. CASE i \in Merged
      BY <2>3, <2>4, <3>1, <3>2
    <3>3. CASE i \notin Merged
      BY <2>5, <3>1, <3>3
    <3> QED
      BY <3>2, <3>3
  <2>9. NoOlder(c)
    <3>1. SUFFICES ASSUME NEW i \in DOMAIN rows, rows[i].content = c
                   PROVE  \E j \in DOMAIN rows' : /\ rows'[j].content = c
                                                  /\ rows'[j].created >= rows[i].created
      BY DEF NoOlder
    <3>2. CASE i \in Merged
      BY <1>2, <2>3, <2>4, <2>6, <3>1, <3>2
    <3>3. CASE i \notin Merged
      BY <1>2, <2>5, <3>1, <3>3
    <3> QED
      BY <3>2, <3>3
  <2>10. Backed(c) /\ mig.healthy \cap lost = {} => Backed(c)'
    <3>1. SUFFICES ASSUME NEW i \in DOMAIN rows, rows[i].content = c, i \in files,
                          mig.healthy \cap lost = {}
                   PROVE  \E j \in DOMAIN rows' : rows'[j].content = c /\ j \in files'
      BY DEF Backed
    <3>2. CASE i \in Merged
      <4>1. s \in mig.healthy
        BY <2>1, <2>2 DEF Survivors, Preferred, Candidate, MigInv, MigPhase
      <4>2. s \in ImageIds
        BY <2>3, <2>4 DEF ImageIds, IsImage
      <4>3. s \in files'
        BY <2>2, <3>1, <4>1, <4>2 DEF FileInv, NoDanglingImage
      <4> QED
        BY <2>3, <2>4, <3>1, <3>2, <4>3
    <3>3. CASE i \notin Merged
      BY <2>2, <2>5, <3>1, <3>3
    <3> QED
      BY <3>2, <3>3
  <2> QED
    BY <2>7, <2>8, <2>9, <2>10
<1> QED
  BY <1>3, <1>4, <1>5
     DEF MigStep, MigQuery, MigDecode, MigDone, MigLock, MigVerify, MigStale, MigUnlink,
         MigAnnounce, MigFails

-----------------------------------------------------------------------------
(* The promise to the watchers *)

\* The tasks that owe an announcement, the migration among them.
Owed == PendingTasks \cup {t \in {"migration"} : MigOwes}

\* A migration that owes nothing, before and after, is not seen.
LEMMA OthersWatched ==
  ASSUME TypeInv, TypeInv', MigInv, Next, MigLifecycle
  PROVE  [MStore!StoreNext]_(MStore!storeVars)
<1>1. Unseen \/ (\E t \in Task : Changes(t) \/ Announces(t)) \/ Dies \/ Starts
  BY StepsSeen
<1>2. up \in BOOLEAN /\ up' \in BOOLEAN
  BY DEF TypeInv, TypeOK
<1>3. ~up => ~MigOwes
  BY DEF MigInv, MigDown, Migration, MigOwes
<1>4. ~up' => ~MigOwes'
  BY DEF MigLifecycle, Migration, MigOwes
<1>5. up' => IF up THEN MigOwes' = MigOwes ELSE ~MigOwes'
  BY DEF MigLifecycle, Migration, MigOwes
<1>6. CASE Unseen
  <2>1. Owed' = Owed
    BY <1>2, <1>3, <1>4, <1>5, <1>6 DEF Unseen, Owed
  <2> QED
    BY <1>6, <2>1 DEF Unseen, MStore!storeVars, Owed
<1>7. ASSUME NEW t \in Task, Changes(t) PROVE MStore!StoreNext
  <2>1. Owed' = Owed \cup {t}
    BY <1>2, <1>5, <1>7 DEF Changes, Owed
  <2>2. MStore!Change(t)
    BY <1>7, <2>1 DEF Changes, MStore!Change, Owed
  <2> QED
    BY <1>7, <2>2 DEF Task, MStore!StoreNext
<1>8. ASSUME NEW t \in Task, Announces(t) PROVE MStore!StoreNext
  <2>1. t # "migration"
    BY <1>8, ClientAssumption DEF Task
  <2>2. t \in Owed /\ Owed' = Owed \ {t}
    BY <1>2, <1>3, <1>4, <1>5, <1>8, <2>1 DEF Announces, Owed
  <2>3. MStore!Advance(t)
    BY <1>8, <2>2 DEF Announces, MStore!Advance, Owed
  <2> QED
    BY <1>8, <2>3 DEF Task, MStore!StoreNext
<1>9. CASE Dies
  <2>1. Owed' = {}
    BY <1>4, <1>9 DEF Dies, Owed
  <2>2. MStore!Die
    BY <1>2, <1>9, <2>1 DEF Dies, MStore!Die, Owed
  <2> QED
    BY <2>2 DEF MStore!StoreNext
<1>10. CASE Starts
  <2>1. Owed' = Owed
    BY <1>3, <1>5, <1>10 DEF Starts, Owed
  <2>2. MStore!Start
    BY <1>2, <1>10, <2>1 DEF Starts, MStore!Start, Owed
  <2> QED
    BY <2>2 DEF MStore!StoreNext
<1> QED
  BY <1>1, <1>6, <1>7, <1>8, <1>9, <1>10

\* The migration's merge is a change it then announces, and nothing else it
\* does can be seen: a digest is not shown, and files are not in the table.
LEMMA MigWatched ==
  ASSUME TypeInv, MigInv, MigStep
  PROVE  [MStore!StoreNext]_(MStore!storeVars)
<1>1. UNCHANGED <<saver, client, up>>
  BY MigFootprint
<1>2. PendingTasks' = PendingTasks /\ "migration" \notin PendingTasks
  BY <1>1, ClientAssumption DEF PendingTasks, SaverOwes
<1>3. up
  <2>1. mig.pc # "off"
    BY DEF MigStep, MigQuery, MigDecode, MigDone, MigLock, MigVerify, MigStale, MigInPlace,
           MigConsolidate, MigUnlink, MigAnnounce, MigFails
  <2> QED
    BY <2>1 DEF MigInv, MigDown, Migration
<1>4. mig \in MigrationType
  BY DEF MigInv
<1>5. CASE MigConsolidate
  <2>1. rev' = rev /\ mig'.pc = "unlink"
    BY <1>5 DEF MigConsolidate, Forget, Migration
  <2>2. Owed' = Owed \cup {"migration"}
    BY <1>2, <2>1 DEF Owed, MigOwes
  <2>3. MStore!Change("migration")
    BY <1>1, <1>3, <2>1, <2>2 DEF MStore!Change, Owed
  <2> QED
    BY <2>3 DEF MStore!StoreNext
<1>6. CASE MigAnnounce
  <2>1. /\ rows' = rows /\ rev' = rev + 1 /\ mig.pc = "announce" /\ mig'.pc = "next"
    BY <1>6 DEF MigAnnounce, Forget, Migration
  <2>2. "migration" \in Owed /\ Owed' = Owed \ {"migration"}
    BY <1>2, <2>1 DEF Owed, MigOwes
  <2>3. MStore!Advance("migration")
    BY <1>1, <2>1, <2>2, SameRows DEF MStore!Advance, Owed
  <2> QED
    BY <2>3 DEF MStore!StoreNext
<1>7. CASE MigInPlace
  <2>1. /\ rows' = [rows EXCEPT ![Candidate].legacy = FALSE] /\ rev' = rev
        /\ mig.pc = "commit" /\ mig'.pc = "next"
    BY <1>7 DEF MigInPlace, Forget, Migration
  <2>2. Visible' = Visible
    <3>1. rows \in [DOMAIN rows -> Row]
      BY DEF TypeInv, TypeOK
    <3>2. DOMAIN rows' = DOMAIN rows
          /\ \A i \in DOMAIN rows : /\ rows'[i].content = rows[i].content
                                    /\ rows'[i].created = rows[i].created
                                    /\ rows'[i].pinned = rows[i].pinned
      BY <2>1, <3>1 DEF Row
    <3> QED
      BY <3>2 DEF Visible
  <2>3. Owed' = Owed
    BY <1>2, <2>1 DEF Owed, MigOwes
  <2> QED
    BY <1>1, <2>1, <2>2, <2>3 DEF MStore!storeVars, Owed
<1>8. CASE MigUnlink
  <2>1. rows' = rows /\ rev' = rev /\ MigOwes /\ MigOwes'
    BY <1>4, <1>8 DEF MigUnlink, Forget, Migration, MigOwes, MigrationType
  <2>2. Owed' = Owed
    BY <1>2, <2>1 DEF Owed
  <2> QED
    BY <1>1, <2>1, <2>2, SameRows DEF MStore!storeVars, Owed
<1>9. CASE MigQuery \/ MigDecode \/ MigDone \/ MigLock \/ MigVerify \/ MigStale \/ MigFails
  <2>1. rows' = rows /\ rev' = rev /\ ~MigOwes
    BY <1>9 DEF MigQuery, MigDecode, MigDone, MigLock, MigVerify, MigStale, MigFails, MigOwes
  <2>2. mig'.pc \notin {"unlink", "announce"}
    <3>1. CASE MigQuery \/ MigDone \/ MigStale \/ MigFails
      BY <3>1 DEF MigQuery, MigDone, MigStale, MigFails, Forget, Migration
    <3>2. CASE MigDecode \/ MigLock \/ MigVerify
      BY <1>4, <3>2 DEF MigDecode, MigLock, MigVerify, MigrationType
    <3> QED
      BY <1>9, <3>1, <3>2
  <2>3. Owed' = Owed
    BY <1>2, <2>1, <2>2 DEF Owed, MigOwes
  <2> QED
    BY <1>1, <2>1, <2>3, SameRows DEF MStore!storeVars, Owed
<1> QED
  BY <1>5, <1>6, <1>7, <1>8, <1>9 DEF MigStep

-----------------------------------------------------------------------------
(* The theorems *)

MInv == HistoryInv /\ MigInv

\* The invariant holds at the start and is kept by every step.
LEMMA MStart == MInit => MInv
<1> SUFFICES ASSUME MInit PROVE MInv
  OBVIOUS
<1>1. Init
  BY DEF MInit
<1> QED
  BY <1>1, TypeInit, FileInit, IdentityInit, MigInvInit DEF MInv, HistoryInv

\* Every step keeps the invariant.
LEMMA MKept == MInv /\ [MNext]_mvars => MInv'
<1> SUFFICES ASSUME MInv, [MNext]_mvars PROVE MInv'
  OBVIOUS
<1>1. TypeInv /\ FileInv /\ IdentityInv /\ MigInv
  BY DEF MInv, HistoryInv
<1>2. CASE MigStep
  <2>1. TypeInv' /\ FileInv' /\ IdentityInv'
    BY <1>1, <1>2, MigTyped, MigFiles, MigIdentities
  <2> QED
    BY <1>1, <1>2, <2>1, MigKeepsMig DEF MInv, HistoryInv
<1>3. CASE Next /\ MigLifecycle
  <2>1. TypeInv' /\ FileInv' /\ IdentityInv'
    BY <1>1, <1>3, TypeStep, FileStep, IdentityStep
  <2> QED
    BY <1>1, <1>3, <2>1, OthersKeepMig DEF MInv, HistoryInv
<1>4. CASE UNCHANGED mvars
  <2>1. UNCHANGED vars /\ mig' = mig
    BY <1>4 DEF mvars
  <2>2. TypeInv' /\ FileInv' /\ IdentityInv'
    BY <1>1, <2>1, TypeStep, FileStep, IdentityStep
  <2>3. MigInv'
    <3>1. UNCHANGED <<rows, lost, saver, gate, clock, up, mig>>
      BY <2>1 DEF vars
    <3>2. (mig \in MigrationType)'
      BY <1>1, <3>1 DEF MigInv, MigrationType, Candidates
    <3>3. MigDown' /\ MigGate' /\ MigIds' /\ MigDead'
      BY <1>1, <3>1 DEF MigInv, MigDown, MigGate, MigIds, MigDead, Migration
    <3>4. MigKnown' /\ MigPast' /\ MigPhase'
      BY <1>1, <3>1 DEF MigInv, MigKnown, MigPast, MigPhase, AtCandidate, ImageIds, IsImage
    <3> QED
      BY <3>2, <3>3, <3>4 DEF MigInv
  <2> QED
    BY <2>2, <2>3 DEF MInv, HistoryInv
<1> QED
  BY <1>2, <1>3, <1>4 DEF MNext

\* With the migration at work all variables stay typed.
THEOREM MigrationIsTyped == MSpec => []MTypeOK
<1>1. MInv => MTypeOK
  BY DEF MInv, HistoryInv, TypeInv, MigInv, MigrationType, MTypeOK
<1> QED
  BY <1>1, MStart, MKept, PTL DEF MSpec

\* With the migration at work, merging rows and unlinking files outside the
\* gate, no cleanup reaches the file of a live row.
THEOREM MergesKeepFiles == MSpec => []NoDanglingImage
<1>1. MInv => NoDanglingImage
  BY DEF MInv, HistoryInv, FileInv
<1> QED
  BY <1>1, MStart, MKept, PTL DEF MSpec

\* A migrated row never doubles an identity that the saver inserted meanwhile.
THEOREM MergesKeepIdentities == MSpec => []UniqueIdentity
<1>1. MInv => UniqueIdentity
  BY UniqueFromOneRow DEF MInv, HistoryInv, IdentityInv
<1> QED
  BY <1>1, MStart, MKept, PTL DEF MSpec

\* A migration that ended well leaves no legacy row but those whose file had
\* disappeared.
THEOREM NoLegacyLeft == MSpec => []MigrationComplete
<1>1. MInv => MigrationComplete
  <2> SUFFICES ASSUME MInv, mig.pc = "done", NEW i \in ImageIds, rows[i].legacy
               PROVE  i \in lost
    BY DEF MigrationComplete
  <2>1. MigPast /\ mig.todo = {}
    BY DEF MInv, MigInv, MigPhase
  <2> QED
    BY <2>1 DEF MigPast, AtCandidate
<1> QED
  BY <1>1, MStart, MKept, PTL DEF MSpec

\* No step of the migration loses an image, its pin, its recency or its file.
THEOREM NoImageIsLost == MSpec => MigrationLosesNothing
<1>1. MInv /\ [MNext]_mvars =>
        [MigStep => \A c \in Images :
           /\ Has(c) => Has(c)'
           /\ Pinned(c) => Pinned(c)'
           /\ NoOlder(c)
           /\ Backed(c) /\ mig.healthy \cap lost = {} => Backed(c)']_mvars
  BY MigLoses DEF MInv, HistoryInv
<1> QED
  BY <1>1, MStart, MKept, PTL DEF MSpec, MigrationLosesNothing

\* With the migration at work whatever changes what GetHistory shows is still
\* followed by an advance of the revision: HistoryMigration implements
\* RevisionedStore with one more task.
THEOREM MergesAnnounced == MSpec => MEveryChangeAnnounced
<1>1. MInit => MStore!StoreInit
  <2> SUFFICES ASSUME MInit PROVE MStore!StoreInit
    OBVIOUS
  <2>1. Init /\ mig.pc = "query"
    BY DEF MInit, Migration
  <2>2. Store!StoreInit
    BY <2>1, StoreInitial
  <2>3. {t \in {"migration"} : MigOwes} = {}
    BY <2>1 DEF MigOwes
  <2> QED
    BY <2>2, <2>3 DEF Store!StoreInit, MStore!StoreInit
<1>2. MInv /\ MInv' /\ [MNext]_mvars => [MStore!StoreNext]_(MStore!storeVars)
  <2> SUFFICES ASSUME MInv, MInv', [MNext]_mvars
               PROVE  [MStore!StoreNext]_(MStore!storeVars)
    OBVIOUS
  <2>1. TypeInv /\ TypeInv' /\ MigInv
    BY DEF MInv, HistoryInv
  <2>2. CASE UNCHANGED mvars
    <3>1. UNCHANGED <<rows, rev, saver, client, up, mig>>
      BY <2>2 DEF mvars, vars
    <3>2. Owed' = Owed
      BY <3>1 DEF Owed, PendingTasks, SaverOwes, MigOwes
    <3> QED
      BY <3>1, <3>2, SameRows DEF MStore!storeVars, Owed
  <2> QED
    BY <2>1, <2>2, OthersWatched, MigWatched DEF MNext
<1> QED
  BY <1>1, <1>2, MStart, MKept, PTL DEF MSpec, MEveryChangeAnnounced, MStore!StoreSpec
=============================================================================
