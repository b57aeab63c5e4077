--------------------------- MODULE HistoryProofs ---------------------------
(***************************************************************************)
(* Theorems about History: its invariants hold for every set of contents,  *)
(* every number of connections, every limit and every initial table, with  *)
(* all requests and all faults enabled.                                    *)
(***************************************************************************)
EXTENDS History, TLAPS, FiniteSetTheorems

-----------------------------------------------------------------------------
(* The inductive invariant *)

\* A save in progress has an event to save, an id of its own and a process.
SaverWorks ==
  saver.pc # "idle" => up /\ saver.content \in Contents /\ saver.id \in 1..clock

ClientWorks == \A c \in Clients : client[c].pc # "idle" => up

TypeInv == TypeOK /\ SaverWorks /\ ClientWorks

\* Until it is inserted, the new item's id is nobody else's.
FreshId ==
  saver.pc \in {"find", "check", "touch", "drop_row", "drop_file",
                "write", "rename", "insert", "rollback"} =>
    /\ saver.id \notin DOMAIN rows
    /\ \A c \in Clients : saver.id \notin client[c].files

\* An image is written before its row is inserted.
NewFile ==
  saver.pc = "insert" /\ saver.content \in Images => saver.id \in files \cup lost

\* What the saver is about to unlink has no row any more.
SaverUnlinksDead ==
  /\ saver.pc = "drop_file" => saver.found \notin DOMAIN rows
  /\ saver.pc = "evict" => saver.prune \cap DOMAIN rows \subseteq saver.victims
  /\ saver.pc = "prune" => saver.prune \cap DOMAIN rows = {}

\* Nor has what a request is about to unlink.
ClientUnlinksDead(c) ==
  /\ client[c].pc \in {"idle", "pin", "unpin"} => client[c].files = {}
  /\ client[c].pc = "delete" => client[c].files \subseteq {client[c].id}
  /\ client[c].pc \in {"announce", "unlink"} => client[c].files \cap DOMAIN rows = {}

FileInv ==
  /\ FreshId
  /\ NewFile
  /\ SaverUnlinksDead
  /\ \A c \in Clients : ClientUnlinksDead(c)
  /\ NoDanglingImage

\* A save that passed its lookup knows every row of its identity.
KnownMatches ==
  /\ saver.pc \in {"check", "touch", "drop_row"} =>
       Matches(saver.content) \subseteq {saver.found}
  /\ saver.pc \in {"drop_file", "write", "rename", "insert", "rollback"} =>
       Matches(saver.content) = {}

OneRowEach ==
  \A i, j \in DOMAIN rows :
    /\ rows[i].content = rows[j].content
    /\ ~rows[i].legacy
    /\ ~rows[j].legacy
    => i = j

IdentityInv == KnownMatches /\ OneRowEach

-----------------------------------------------------------------------------
(* Type correctness *)

\* A saver and a client without work are typed.
LEMMA IdleTyped ==
  ASSUME TypeOK
  PROVE  IdleSaver \in SaverType /\ IdleClient \in ClientType
  BY DEF TypeOK, IdleSaver, IdleClient, SaverType, ClientType, SaverPcs, ClientPcs

\* The rows that were there, the new one and the ones that were removed.
LEMMA FewerRows ==
  ASSUME TypeOK, NEW S
  PROVE  /\ DOMAIN Without(S) = DOMAIN rows \ S
         /\ Without(S) \in [DOMAIN rows \ S -> Row]
  BY DEF TypeOK, Without

\* The table is finite, so its rows can be counted.
LEMMA RowCount ==
  ASSUME TypeOK
  PROVE  IsFiniteSet(DOMAIN rows) /\ Cardinality(DOMAIN rows) \in Nat
<1>1. clock \in Nat /\ DOMAIN rows \subseteq 1..clock
  BY DEF TypeOK
<1>2. IsFiniteSet(1..clock)
  BY <1>1, FS_Interval
<1>3. IsFiniteSet(DOMAIN rows)
  BY <1>1, <1>2, FS_Subset
<1> QED
  BY <1>3, FS_CardinalityType

\* The type invariant at the start ...
LEMMA TypeInit == Init => TypeInv
<1> SUFFICES ASSUME Init PROVE TypeInv
  OBVIOUS
<1>1. /\ Len(InitRows) \in Nat
      /\ \A i \in 1..Len(InitRows) :
           /\ InitRows[i].content \in Contents
           /\ InitRows[i].pinned \in BOOLEAN
           /\ InitRows[i].legacy \in BOOLEAN
  <2> DEFINE R == [content : Contents, pinned : BOOLEAN, legacy : BOOLEAN]
  <2>1. InitRows \in Seq(R)
    BY InitRowsAssumption
  <2>2. \A r \in R :
          r.content \in Contents /\ r.pinned \in BOOLEAN /\ r.legacy \in BOOLEAN
    OBVIOUS
  <2> HIDE DEF R
  <2>3. Len(InitRows) \in Nat /\ \A i \in 1..Len(InitRows) : InitRows[i] \in R
    BY <2>1
  <2> QED
    BY <2>2, <2>3
<1>2. rows \in [1..Len(InitRows) -> Row] /\ DOMAIN rows = 1..Len(InitRows)
  BY <1>1 DEF Init, Row
<1>3. saver = IdleSaver /\ client = [c \in Clients |-> IdleClient]
  BY DEF Init
<1>4. TypeOK
  BY <1>1, <1>2, <1>3 DEF Init, TypeOK, IdleSaver, IdleClient, SaverType, ClientType,
                          SaverPcs, ClientPcs, GateOwners
<1> QED
  BY <1>3, <1>4 DEF TypeInv, SaverWorks, ClientWorks, IdleSaver, IdleClient, Init

\* A dying process leaves a well-typed state.
LEMMA TypeExit ==
  ASSUME TypeOK, Exit, rows' = rows, files' \subseteq files,
         temps' \subseteq temps, lost' = lost, clock' = clock
  PROVE  TypeInv'
<1>1. saver' \in SaverType' /\ client' \in [Clients -> ClientType']
  BY IdleTyped DEF Exit, SaverType, ClientType
<1>2. DOMAIN rows' \subseteq 1..clock' /\ rows' \in [DOMAIN rows' -> Row]
  BY DEF TypeOK
<1>3. /\ files' \subseteq 1..clock' /\ temps' \subseteq 1..clock'
      /\ lost' \subseteq 1..clock' /\ clock' \in Nat
  BY DEF TypeOK
<1>4. rev' \in Nat \ {0} /\ gate' \in GateOwners \cup {"free"} /\ up' \in BOOLEAN
  <2>1. rev' = 1 /\ gate' = "free"
    BY DEF Exit
  <2>2. up' \in BOOLEAN
    BY DEF Exit
  <2> QED
    BY <2>1, <2>2
<1>5. TypeOK'
  BY <1>1, <1>2, <1>3, <1>4 DEF TypeOK
<1>6. saver'.pc = "idle" /\ \A c \in Clients : client'[c].pc = "idle"
  BY DEF Exit, IdleSaver, IdleClient
<1> QED
  BY <1>5, <1>6 DEF TypeInv, SaverWorks, ClientWorks

\* ... and at every step.
LEMMA TypeStep == TypeInv /\ [Next]_vars => TypeInv'
<1> SUFFICES ASSUME TypeInv, [Next]_vars PROVE TypeInv'
  OBVIOUS
<1> USE DEF TypeInv, SaverWorks, ClientWorks
<1>1. CASE \E c \in Contents : Save(c)
  <2>1. PICK c \in Contents : Save(c)
    BY <1>1
  <2>2. saver' \in SaverType'
    <3>1. saver' = [pc |-> "find", content |-> c, id |-> clock + 1, found |-> 0,
                    pin |-> FALSE, excess |-> 0, victims |-> {}, prune |-> {}]
      BY <2>1 DEF Save, IdleSaver
    <3>2. clock \in Nat /\ clock' = clock + 1
      BY <2>1 DEF Save, TypeOK
    <3> QED
      BY <3>1, <3>2 DEF SaverType, SaverPcs
  <2>3. client' \in [Clients -> ClientType']
    BY <2>1 DEF Save, TypeOK, ClientType
  <2>4. clock' \in Nat /\ \A n \in 1..clock : n \in 1..clock'
    BY <2>1 DEF Save, TypeOK
  <2> QED
    <3>1. /\ UNCHANGED <<rows, files, temps, lost, rev, gate, up>>
          /\ client' = client /\ up
      BY <2>1 DEF Save
    <3>2. saver'.content \in Contents /\ saver'.id \in 1..clock'
      BY <2>1 DEF Save, IdleSaver, TypeOK
    <3>3. TypeOK'
      BY <2>2, <2>3, <2>4, <3>1 DEF TypeOK
    <3>4. SaverWorks' /\ ClientWorks'
      BY <3>1, <3>2
    <3> QED
      BY <3>3, <3>4
<1>2. CASE FindText
  <2>1. \A i \in Matches(saver.content) : i \in 0..clock /\ rows[i].pinned \in BOOLEAN
    BY DEF TypeOK, Matches, Row
  <2>a. \/ \E i \in Matches(saver.content) :
               saver' = [saver EXCEPT !.pc = "touch", !.found = i]
        \/ saver' = [saver EXCEPT !.pc = "insert"]
    BY <1>2 DEF FindText
  <2>b. saver \in SaverType
    BY DEF TypeOK
  <2>2. saver' \in SaverType
    <3> HIDE DEF TypeInv, SaverWorks, ClientWorks
    <3>1. CASE saver' = [saver EXCEPT !.pc = "insert"]
      BY <2>b, <3>1 DEF SaverType, SaverPcs
    <3>2. ASSUME NEW i \in Matches(saver.content),
                 saver' = [saver EXCEPT !.pc = "touch", !.found = i]
          PROVE  saver' \in SaverType
      BY <2>b, <2>1, <3>2 DEF SaverType, SaverPcs
    <3> QED
      BY <2>a, <3>1, <3>2
  <2>3. saver'.pc # "idle" /\ saver'.content = saver.content /\ saver'.id = saver.id
    BY <2>a, <2>b DEF SaverType
  <2> QED
    <3>1. UNCHANGED <<rows, files, temps, lost, rev, gate, client, clock, up>>
      BY <1>2 DEF FindText, SaverUnchanged
    <3>2. TypeOK'
      BY <2>2, <3>1 DEF TypeOK, SaverType, ClientType, GateOwners
    <3>3. saver.pc # "idle"
      BY <1>2 DEF FindText
    <3>4. SaverWorks' /\ ClientWorks'
      BY <2>3, <3>1, <3>3
    <3> QED
      BY <3>2, <3>4
<1>3. CASE FindImage
  <2>1. \A i \in Matches(saver.content) : i \in 0..clock /\ rows[i].pinned \in BOOLEAN
    BY DEF TypeOK, Matches, Row
  <2>a. \/ \E i \in Matches(saver.content) :
               saver' = [saver EXCEPT !.pc = "check", !.found = i, !.pin = rows[i].pinned]
        \/ saver' = [saver EXCEPT !.pc = "write"]
    BY <1>3 DEF FindImage
  <2>b. saver \in SaverType
    BY DEF TypeOK
  <2>2. saver' \in SaverType
    <3> HIDE DEF TypeInv, SaverWorks, ClientWorks
    <3>1. CASE saver' = [saver EXCEPT !.pc = "write"]
      BY <2>b, <3>1 DEF SaverType, SaverPcs
    <3>2. ASSUME NEW i \in Matches(saver.content),
                 saver' = [saver EXCEPT !.pc = "check", !.found = i, !.pin = rows[i].pinned]
          PROVE  saver' \in SaverType
      BY <2>b, <2>1, <3>2 DEF SaverType, SaverPcs
    <3> QED
      BY <2>a, <3>1, <3>2
  <2>3. saver'.pc # "idle" /\ saver'.content = saver.content /\ saver'.id = saver.id
    BY <2>a, <2>b DEF SaverType
  <2>4. UNCHANGED <<rows, files, temps, lost, rev, client, clock, up>> /\ gate' = "saver"
    BY <1>3 DEF FindImage, SaverUnchanged
  <2>5. TypeOK'
    BY <2>2, <2>4 DEF TypeOK, SaverType, ClientType, GateOwners
  <2>6. saver.pc # "idle"
    BY <1>3 DEF FindImage
  <2>7. SaverWorks' /\ ClientWorks'
    BY <2>3, <2>4, <2>6
  <2> QED
    BY <2>5, <2>7
<1>4. CASE CheckFile
  BY <1>4 DEF CheckFile, SaverUnchanged, TypeOK, SaverType, ClientType, SaverPcs
<1>5. CASE Touch
  BY <1>5 DEF Touch, SaverUnchanged, Row, TypeOK, SaverType, ClientType, SaverPcs
<1>6. CASE DropStaleRow
  <2>1. DOMAIN rows' \subseteq DOMAIN rows /\ rows' \in [DOMAIN rows' -> Row]
    BY <1>6, FewerRows DEF DropStaleRow
  <2> QED
    BY <1>6, <2>1 DEF DropStaleRow, SaverUnchanged, TypeOK, SaverType, ClientType, SaverPcs
<1>7. CASE DropStaleFile
  BY <1>7 DEF DropStaleFile, Unlink, SaverUnchanged, TypeOK, SaverType, ClientType, SaverPcs
<1>8. CASE WriteTemp
  BY <1>8 DEF WriteTemp, SaverUnchanged, TypeOK, SaverType, ClientType, SaverPcs
<1>9. CASE CommitFile
  BY <1>9 DEF CommitFile, SaverUnchanged, TypeOK, SaverType, ClientType, SaverPcs
<1>10. CASE WriteFails
  BY <1>10, TypeExit DEF WriteFails
<1>11. CASE Insert
  BY <1>11 DEF Insert, SaverUnchanged, Row, TypeOK, SaverType, ClientType, SaverPcs
<1>12. CASE InsertFails
  BY <1>12 DEF InsertFails, SaverUnchanged, TypeOK, SaverType, ClientType, SaverPcs
<1>13. CASE RollbackFile
  BY <1>13, TypeExit DEF RollbackFile, Unlink
<1>14. CASE CountRows
  <2>1. Cardinality(DOMAIN rows) \in Nat /\ MaxItems \in Nat
    BY RowCount, LimitAssumption
  <2>2. CASE Cardinality(DOMAIN rows) <= MaxItems
    BY <1>14, <2>2 DEF CountRows, SaverUnchanged, TypeOK, SaverType, ClientType, SaverPcs
  <2>3. CASE Cardinality(DOMAIN rows) > MaxItems
    <3>1. Cardinality(DOMAIN rows) - MaxItems \in Nat
      BY <2>1, <2>3
    <3>2. saver' = [saver EXCEPT !.pc = "oldest",
                                 !.excess = Cardinality(DOMAIN rows) - MaxItems]
      BY <1>14, <2>1, <2>3 DEF CountRows
    <3>3. saver' \in SaverType
      BY <3>1, <3>2 DEF TypeOK, SaverType, SaverPcs
    <3> QED
      BY <1>14, <3>2, <3>3 DEF CountRows, SaverUnchanged, TypeOK, SaverType, ClientType
  <2> QED
    BY <2>1, <2>2, <2>3
<1>15. CASE SelectVictims
  BY <1>15
     DEF SelectVictims, SaverUnchanged, Oldest, Unpinned, TypeOK, SaverType, ClientType,
         SaverPcs
<1>16. CASE Evict
  <2>1. PICK v \in saver.victims :
          /\ rows' = Without({v})
          /\ saver' = [saver EXCEPT !.victims = @ \ {v},
                                    !.pc = IF saver.victims = {v}
                                             THEN "prune" ELSE "evict"]
    BY <1>16 DEF Evict
  <2>2. DOMAIN rows' \subseteq DOMAIN rows /\ rows' \in [DOMAIN rows' -> Row]
    BY <2>1, FewerRows
  <2>3. saver' \in SaverType
    BY <2>1 DEF TypeOK, SaverType, SaverPcs
  <2> QED
    BY <1>16, <2>1, <2>2, <2>3
       DEF Evict, SaverUnchanged, TypeOK, SaverType, ClientType
<1>17. CASE Prune
  BY <1>17 DEF Prune, Unlink, SaverUnchanged, TypeOK, SaverType, ClientType, SaverPcs
<1>18. CASE AnnounceSave
  BY <1>18
     DEF AnnounceSave, SaverUnchanged, IdleSaver, GateOwners, TypeOK, SaverType, ClientType,
         SaverPcs
<1>19. CASE \E c \in Clients : \E i \in DOMAIN rows : BeginDelete(c, i)
  BY <1>19 DEF BeginDelete, StartRequest, ClientUnchanged, TypeOK, SaverType, ClientType, ClientPcs
<1>20. CASE \E c \in Clients : DeleteRow(c)
  <2>1. PICK c \in Clients : DeleteRow(c)
    BY <1>20
  <2>2. DOMAIN rows' \subseteq DOMAIN rows /\ rows' \in [DOMAIN rows' -> Row]
    BY <2>1, FewerRows DEF DeleteRow
  <2>3. client' \in [Clients -> ClientType]
    BY <2>1, IdleTyped DEF DeleteRow, TypeOK, ClientType, ClientPcs
  <2> QED
    BY <2>1, <2>2, <2>3 DEF DeleteRow, IdleClient, ClientUnchanged, TypeOK, SaverType, ClientType
<1>21. CASE \E c \in Clients : BeginClear(c)
  BY <1>21
     DEF BeginClear, StartRequest, ImageIds, ClientUnchanged, TypeOK, SaverType, ClientType,
         ClientPcs
<1>22. CASE \E c \in Clients : ClearRows(c)
  <2>1. PICK c \in Clients : ClearRows(c)
    BY <1>22
  <2>2. DOMAIN rows' \subseteq DOMAIN rows /\ rows' \in [DOMAIN rows' -> Row]
    BY <2>1, FewerRows DEF ClearRows
  <2> QED
    BY <2>1, <2>2 DEF ClearRows, ClientUnchanged, TypeOK, SaverType, ClientType, ClientPcs
<1>23. CASE \E c \in Clients : \E i \in DOMAIN rows : BeginToggle(c, i)
  BY <1>23 DEF BeginToggle, StartRequest, ClientUnchanged, TypeOK, SaverType, ClientType, ClientPcs
<1>24. CASE \E c \in Clients : Pin(c)
  <2>1. PICK c \in Clients : Pin(c)
    BY <1>24
  <2>2. DOMAIN rows' = DOMAIN rows /\ rows' \in [DOMAIN rows -> Row]
    BY <2>1 DEF Pin, SetPinned, Row, TypeOK
  <2>3. client' \in [Clients -> ClientType]
    <3>1. client[c] \in ClientType
      BY DEF TypeOK
    <3>2. [client[c] EXCEPT !.pc = "announce"] \in ClientType
      BY <3>1 DEF ClientType, ClientPcs
    <3>3. \E r \in ClientType : client' = [client EXCEPT ![c] = r]
      BY <2>1, <3>2, IdleTyped DEF Pin, SetPinned
    <3> QED
      BY <3>3 DEF TypeOK
  <2>4. UNCHANGED <<files, temps, lost, rev, gate, saver, clock, up>> /\ up
    BY <2>1 DEF Pin, ClientUnchanged
  <2>5. TypeOK'
    BY <2>2, <2>3, <2>4 DEF TypeOK, SaverType, ClientType
  <2>6. SaverWorks' /\ ClientWorks'
    BY <2>4
  <2> QED
    BY <2>5, <2>6
<1>25. CASE \E c \in Clients : Unpin(c)
  <2>1. PICK c \in Clients : Unpin(c)
    BY <1>25
  <2>2. DOMAIN rows' = DOMAIN rows /\ rows' \in [DOMAIN rows -> Row]
    BY <2>1 DEF Unpin, SetPinned, Row, TypeOK
  <2>3. client' \in [Clients -> ClientType]
    <3>1. client[c] \in ClientType
      BY DEF TypeOK
    <3>2. [client[c] EXCEPT !.pc = "announce"] \in ClientType
      BY <3>1 DEF ClientType, ClientPcs
    <3>3. \E r \in ClientType : client' = [client EXCEPT ![c] = r]
      BY <2>1, <3>2, IdleTyped DEF Unpin, SetPinned
    <3> QED
      BY <3>3 DEF TypeOK
  <2>4. UNCHANGED <<files, temps, lost, rev, gate, saver, clock, up>> /\ up
    BY <2>1 DEF Unpin, ClientUnchanged
  <2>5. TypeOK'
    BY <2>2, <2>3, <2>4 DEF TypeOK, SaverType, ClientType
  <2>6. SaverWorks' /\ ClientWorks'
    BY <2>4
  <2> QED
    BY <2>5, <2>6
<1>26. CASE \E c \in Clients : \E i \in DOMAIN rows : Promote(c, i)
  <2>1. PICK c \in Clients, i \in DOMAIN rows : Promote(c, i)
    BY <1>26
  <2>2. DOMAIN rows' = DOMAIN rows /\ rows' \in [DOMAIN rows -> Row] /\ clock' = clock + 1
    BY <2>1 DEF Promote, Row, TypeOK
  <2>3. client' \in [Clients -> ClientType]
    BY <2>1 DEF Promote, TypeOK, ClientType, ClientPcs
  <2>4. UNCHANGED <<files, temps, lost, rev, gate, saver, up>> /\ up
    BY <2>1 DEF Promote, StartRequest, ClientUnchanged
  <2>5. \A n \in 0..clock : n \in 0..clock' /\ (n \in 1..clock => n \in 1..clock')
    BY <2>2 DEF TypeOK
  <2>6. saver' \in SaverType' /\ client' \in [Clients -> ClientType']
    BY <2>3, <2>4, <2>5 DEF TypeOK, SaverType, ClientType
  <2>7. TypeOK'
    BY <2>2, <2>4, <2>6 DEF TypeOK
  <2>8. SaverWorks' /\ ClientWorks'
    BY <2>2, <2>4 DEF TypeOK
  <2> QED
    BY <2>7, <2>8
<1>27. CASE \E c \in Clients : AnnounceRequest(c)
  BY <1>27 DEF AnnounceRequest, ClientUnchanged, TypeOK, SaverType, ClientType, ClientPcs
<1>28. CASE \E c \in Clients : UnlinkFiles(c)
  BY <1>28
     DEF UnlinkFiles, Unlink, IdleClient, ClientUnchanged, TypeOK, SaverType, ClientType,
         ClientPcs
<1>29. CASE \E c \in Clients : RequestFails(c)
  BY <1>29 DEF RequestFails, IdleClient, ClientUnchanged, TypeOK, SaverType, ClientType, ClientPcs
<1>30. CASE Crash
  BY <1>30, TypeExit DEF Crash
<1>31. CASE Restart
  BY <1>31 DEF Restart, TypeOK, SaverType, ClientType
<1>32. CASE \E i \in files : LoseFile(i)
  BY <1>32 DEF LoseFile, TypeOK, SaverType, ClientType
<1>33. CASE UNCHANGED vars
  BY <1>33 DEF vars, TypeOK, SaverType, ClientType
<1> QED
  BY <1>1, <1>2, <1>3, <1>4, <1>5, <1>6, <1>7, <1>8, <1>9, <1>10, <1>11, <1>12, <1>13, <1>14,
     <1>15, <1>16, <1>17, <1>18, <1>19, <1>20, <1>21, <1>22, <1>23, <1>24, <1>25, <1>26,
     <1>27, <1>28, <1>29, <1>30, <1>31, <1>32, <1>33
     DEF Next, SaverStep, Request, RequestStep

-----------------------------------------------------------------------------
(* Rows and files *)

\* Rows may go, those that stay keep their content ...
RowsKept ==
  /\ DOMAIN rows' \subseteq DOMAIN rows
  /\ \A i \in DOMAIN rows' : rows'[i].content = rows[i].content

\* ... and the file they had.
FilesKept == \A i \in DOMAIN rows' : i \in files \cup lost => i \in files' \cup lost'

\* A step that takes no file from a row leaves none dangling.
LEMMA NoDanglingKept ==
  ASSUME NoDanglingImage, RowsKept, FilesKept
  PROVE  NoDanglingImage'
  BY DEF NoDanglingImage, RowsKept, FilesKept, ImageIds, IsImage

\* A step of the saver that inserts nothing has only its own locals to answer for.
LEMMA FileSaver ==
  ASSUME FileInv, RowsKept, FilesKept, client' = client,
         FreshId', NewFile', SaverUnlinksDead'
  PROVE  FileInv'
<1>1. \A c \in Clients : ClientUnlinksDead(c)'
  BY DEF FileInv, ClientUnlinksDead, RowsKept
<1> QED
  BY <1>1, NoDanglingKept DEF FileInv

\* A step of a request answers for its own list of files.
LEMMA FileRequest ==
  ASSUME FileInv, RowsKept, FilesKept, saver' = saver, lost' = lost,
         NEW c \in Clients,
         \A d \in Clients \ {c} : client'[d] = client[d],
         client'[c].files \subseteq client[c].files \cup DOMAIN rows,
         files \ client[c].files \subseteq files',
         ClientUnlinksDead(c)'
  PROVE  FileInv'
<1>1. FreshId' /\ NewFile'
  BY DEF FileInv, FreshId, NewFile, RowsKept
<1>2. SaverUnlinksDead'
  BY DEF FileInv, SaverUnlinksDead, RowsKept
<1>3. \A d \in Clients \ {c} : ClientUnlinksDead(d)'
  BY DEF FileInv, ClientUnlinksDead, RowsKept
<1> QED
  BY <1>1, <1>2, <1>3, NoDanglingKept DEF FileInv

\* A dying process leaves nothing that is about to be unlinked.
LEMMA FileExit ==
  ASSUME FileInv, Exit, RowsKept, FilesKept
  PROVE  FileInv'
<1>1. saver'.pc = "idle" /\ \A c \in Clients : client'[c].pc = "idle" /\ client'[c].files = {}
  BY DEF Exit, IdleSaver, IdleClient
<1>2. FreshId' /\ NewFile' /\ SaverUnlinksDead'
  BY <1>1 DEF FreshId, NewFile, SaverUnlinksDead
<1>3. \A c \in Clients : ClientUnlinksDead(c)'
  BY <1>1 DEF ClientUnlinksDead
<1> QED
  BY <1>2, <1>3, NoDanglingKept DEF FileInv

\* The invariant of the files at the start ...
LEMMA FileInit == Init => FileInv
<1> SUFFICES ASSUME Init PROVE FileInv
  OBVIOUS
<1>1. saver.pc = "idle" /\ \A c \in Clients : client[c].pc = "idle" /\ client[c].files = {}
  BY DEF Init, IdleSaver, IdleClient
<1>2. FreshId /\ NewFile /\ SaverUnlinksDead /\ \A c \in Clients : ClientUnlinksDead(c)
  BY <1>1 DEF FreshId, NewFile, SaverUnlinksDead, ClientUnlinksDead
<1>3. DOMAIN rows = 1..Len(InitRows)
      /\ \A i \in DOMAIN rows : rows[i].content = InitRows[i].content
  BY DEF Init
<1>4. NoDanglingImage
  BY <1>3 DEF Init, NoDanglingImage, ImageIds, IsImage
<1> QED
  BY <1>2, <1>4 DEF FileInv

\* ... and at every step.
LEMMA FileStep == TypeInv /\ FileInv /\ [Next]_vars => FileInv'
<1> SUFFICES ASSUME TypeInv, FileInv, [Next]_vars PROVE FileInv'
  OBVIOUS
<1> DEFINE Locals == FreshId' /\ NewFile' /\ SaverUnlinksDead'
<1>1. CASE \E c \in Contents : Save(c)
  <2>1. PICK c \in Contents : Save(c)
    BY <1>1
  <2>2. RowsKept /\ FilesKept /\ client' = client
    BY <2>1 DEF Save, RowsKept, FilesKept
  <2>3. saver'.pc = "find" /\ saver'.id = clock + 1
    BY <2>1 DEF Save, IdleSaver
  <2>4. clock + 1 \notin 1..clock
    BY DEF TypeInv, TypeOK
  <2>5. FreshId'
    BY <2>1, <2>3, <2>4 DEF Save, FreshId, TypeInv, TypeOK, ClientType
  <2>6. NewFile' /\ SaverUnlinksDead'
    BY <2>3 DEF NewFile, SaverUnlinksDead
  <2> QED
    BY <2>2, <2>5, <2>6, FileSaver
<1>2. CASE FindText
  <2>1. RowsKept /\ FilesKept /\ client' = client
    BY <1>2 DEF FindText, SaverUnchanged, RowsKept, FilesKept
  <2>2. Locals
    BY <1>2, ContentAssumption
       DEF FindText, SaverUnchanged, FileInv, FreshId, NewFile, SaverUnlinksDead,
                   TypeInv, TypeOK, SaverType
  <2> QED
    BY <2>1, <2>2, FileSaver
<1>3. CASE FindImage
  <2>1. RowsKept /\ FilesKept /\ client' = client
    BY <1>3 DEF FindImage, SaverUnchanged, RowsKept, FilesKept
  <2>2. Locals
    BY <1>3 DEF FindImage, SaverUnchanged, FileInv, FreshId, NewFile, SaverUnlinksDead,
                   TypeInv, TypeOK, SaverType
  <2> QED
    BY <2>1, <2>2, FileSaver
<1>4. CASE CheckFile
  <2>1. RowsKept /\ FilesKept /\ client' = client
    BY <1>4 DEF CheckFile, SaverUnchanged, RowsKept, FilesKept
  <2>2. Locals
    BY <1>4 DEF CheckFile, SaverUnchanged, FileInv, FreshId, NewFile, SaverUnlinksDead,
                   TypeInv, TypeOK, SaverType
  <2> QED
    BY <2>1, <2>2, FileSaver
<1>5. CASE Touch
  <2>1. RowsKept /\ FilesKept /\ client' = client
    BY <1>5 DEF Touch, SaverUnchanged, RowsKept, FilesKept, TypeInv, TypeOK, Row
  <2>2. Locals
    BY <1>5, ContentAssumption
       DEF Touch, SaverUnchanged, FileInv, FreshId, NewFile, SaverUnlinksDead,
                   TypeInv, TypeOK, SaverType
  <2> QED
    BY <2>1, <2>2, FileSaver
<1>6. CASE DropStaleRow
  <2>1. RowsKept /\ FilesKept /\ client' = client
    BY <1>6, FewerRows DEF DropStaleRow, SaverUnchanged, RowsKept, FilesKept, Without, TypeInv
  <2>2. Locals
    BY <1>6 DEF DropStaleRow, SaverUnchanged, FileInv, FreshId, NewFile, SaverUnlinksDead,
                   TypeInv, TypeOK, SaverType, Without
  <2> QED
    BY <2>1, <2>2, FileSaver
<1>7. CASE DropStaleFile
  <2>1. RowsKept /\ FilesKept /\ client' = client
    BY <1>7
       DEF DropStaleFile, SaverUnchanged, RowsKept, FilesKept, FileInv, SaverUnlinksDead,
           Unlink
  <2>2. Locals
    BY <1>7 DEF DropStaleFile, SaverUnchanged, FileInv, FreshId, NewFile, SaverUnlinksDead,
                   TypeInv, TypeOK, SaverType, Unlink
  <2> QED
    BY <2>1, <2>2, FileSaver
<1>8. CASE WriteTemp
  <2>1. RowsKept /\ FilesKept /\ client' = client
    BY <1>8 DEF WriteTemp, SaverUnchanged, RowsKept, FilesKept
  <2>2. Locals
    BY <1>8 DEF WriteTemp, SaverUnchanged, FileInv, FreshId, NewFile, SaverUnlinksDead,
                   TypeInv, TypeOK, SaverType
  <2> QED
    BY <2>1, <2>2, FileSaver
<1>9. CASE CommitFile
  <2>1. RowsKept /\ FilesKept /\ client' = client
    BY <1>9 DEF CommitFile, SaverUnchanged, RowsKept, FilesKept
  <2>2. Locals
    BY <1>9 DEF CommitFile, SaverUnchanged, FileInv, FreshId, NewFile, SaverUnlinksDead,
                   TypeInv, TypeOK, SaverType
  <2> QED
    BY <2>1, <2>2, FileSaver
<1>10. CASE WriteFails
  <2>1. RowsKept /\ FilesKept
    BY <1>10 DEF WriteFails, RowsKept, FilesKept
  <2> QED
    BY <1>10, <2>1, FileExit DEF WriteFails
<1>11. CASE Insert
  <2>1. DOMAIN rows' = DOMAIN rows \cup {saver.id} /\ files' = files /\ lost' = lost
    BY <1>11 DEF Insert, SaverUnchanged
  <2>2. NoDanglingImage'
    BY <1>11, <2>1 DEF Insert, FileInv, NewFile, NoDanglingImage, ImageIds, IsImage
  <2>3. Locals
    BY <1>11 DEF Insert, FreshId, NewFile, SaverUnlinksDead, TypeInv, TypeOK, SaverType
  <2>4. \A c \in Clients : saver.id \notin client[c].files /\ client'[c] = client[c]
    BY <1>11 DEF Insert, SaverUnchanged, FileInv, FreshId
  <2>5. \A c \in Clients : ClientUnlinksDead(c)'
    BY <2>1, <2>4 DEF FileInv, ClientUnlinksDead
  <2> QED
    BY <2>2, <2>3, <2>5 DEF FileInv
<1>12. CASE InsertFails
  <2>1. RowsKept /\ FilesKept /\ client' = client
    BY <1>12 DEF InsertFails, SaverUnchanged, RowsKept, FilesKept
  <2>2. Locals
    BY <1>12 DEF InsertFails, SaverUnchanged, FileInv, FreshId, NewFile, SaverUnlinksDead,
                   TypeInv, TypeOK, SaverType
  <2> QED
    BY <2>1, <2>2, FileSaver
<1>13. CASE RollbackFile
  <2>1. RowsKept /\ FilesKept
    BY <1>13 DEF RollbackFile, Unlink, RowsKept, FilesKept, FileInv, FreshId
  <2> QED
    BY <1>13, <2>1, FileExit DEF RollbackFile
<1>14. CASE CountRows
  <2>1. RowsKept /\ FilesKept /\ client' = client
    BY <1>14 DEF CountRows, SaverUnchanged, RowsKept, FilesKept
  <2>2. Locals
    BY <1>14 DEF CountRows, SaverUnchanged, FileInv, FreshId, NewFile, SaverUnlinksDead,
                   TypeInv, TypeOK, SaverType
  <2> QED
    BY <2>1, <2>2, FileSaver
<1>15. CASE SelectVictims
  <2>1. RowsKept /\ FilesKept /\ client' = client
    BY <1>15 DEF SelectVictims, SaverUnchanged, RowsKept, FilesKept
  <2>2. Locals
    BY <1>15 DEF SelectVictims, SaverUnchanged, FileInv, FreshId, NewFile, SaverUnlinksDead,
                   TypeInv, TypeOK, SaverType
  <2> QED
    BY <2>1, <2>2, FileSaver
<1>16. CASE Evict
  <2>1. PICK v \in saver.victims :
          /\ rows' = Without({v})
          /\ saver' = [saver EXCEPT !.victims = @ \ {v},
                                    !.pc = IF saver.victims = {v}
                                             THEN "prune" ELSE "evict"]
    BY <1>16 DEF Evict
  <2>2. DOMAIN rows' = DOMAIN rows \ {v}
    BY <2>1, FewerRows DEF TypeInv
  <2>3. RowsKept /\ FilesKept /\ client' = client
    BY <1>16, <2>1 DEF Evict, SaverUnchanged, RowsKept, FilesKept, Without
  <2>4. saver'.pc \in {"evict", "prune"}
    BY <2>1 DEF TypeInv, TypeOK, SaverType
  <2>5. FreshId' /\ NewFile'
    BY <2>4 DEF FreshId, NewFile
  <2>6. SaverUnlinksDead'
    <3>1. saver.prune \cap DOMAIN rows \subseteq saver.victims
      BY <1>16 DEF Evict, FileInv, SaverUnlinksDead
    <3>2. /\ saver'.prune = saver.prune /\ saver'.victims = saver.victims \ {v}
          /\ saver'.pc = "prune" => saver.victims = {v}
      BY <2>1 DEF TypeInv, TypeOK, SaverType
    <3> QED
      BY <2>2, <2>4, <3>1, <3>2 DEF SaverUnlinksDead
  <2> QED
    BY <2>3, <2>5, <2>6, FileSaver
<1>17. CASE Prune
  <2>1. RowsKept /\ FilesKept /\ client' = client
    BY <1>17 DEF Prune, SaverUnchanged, RowsKept, FilesKept, FileInv, SaverUnlinksDead, Unlink
  <2>2. Locals
    BY <1>17 DEF Prune, SaverUnchanged, FileInv, FreshId, NewFile, SaverUnlinksDead,
                   TypeInv, TypeOK, SaverType, Unlink
  <2> QED
    BY <2>1, <2>2, FileSaver
<1>18. CASE AnnounceSave
  <2>1. RowsKept /\ FilesKept /\ client' = client
    BY <1>18 DEF AnnounceSave, SaverUnchanged, RowsKept, FilesKept
  <2>2. Locals
    BY <1>18 DEF AnnounceSave, SaverUnchanged, FileInv, FreshId, NewFile, SaverUnlinksDead,
                   TypeInv, TypeOK, SaverType, IdleSaver
  <2> QED
    BY <2>1, <2>2, FileSaver
<1>19. CASE \E c \in Clients : \E i \in DOMAIN rows : BeginDelete(c, i)
  <2>1. PICK c \in Clients, i \in DOMAIN rows : BeginDelete(c, i)
    BY <1>19
  <2>2. RowsKept /\ FilesKept
    BY <2>1 DEF BeginDelete, ClientUnchanged, RowsKept, FilesKept
  <2>3. /\ \A d \in Clients \ {c} : client'[d] = client[d]
        /\ client'[c].files \subseteq client[c].files \cup DOMAIN rows
    BY <2>1 DEF BeginDelete, TypeInv, TypeOK, ClientType, ImageIds, StartRequest
  <2>4. ClientUnlinksDead(c)'
    BY <2>1
       DEF BeginDelete, FileInv, ClientUnlinksDead, TypeInv, TypeOK, ClientType,
           StartRequest, ImageIds
  <2> QED
    BY <2>1, <2>2, <2>3, <2>4, FileRequest DEF BeginDelete, ClientUnchanged, StartRequest
<1>20. CASE \E c \in Clients : DeleteRow(c)
  <2>1. PICK c \in Clients : DeleteRow(c)
    BY <1>20
  <2>2. RowsKept /\ FilesKept
    BY <2>1, FewerRows DEF DeleteRow, ClientUnchanged, RowsKept, FilesKept, Without, TypeInv
  <2>3. /\ \A d \in Clients \ {c} : client'[d] = client[d]
        /\ client'[c].files \subseteq client[c].files \cup DOMAIN rows
    BY <2>1 DEF DeleteRow, TypeInv, TypeOK, ClientType, ImageIds, IdleClient
  <2>4. ClientUnlinksDead(c)'
    BY <2>1, FewerRows
       DEF DeleteRow, FileInv, ClientUnlinksDead, TypeInv, TypeOK, ClientType, IdleClient,
           Without
  <2> QED
    BY <2>1, <2>2, <2>3, <2>4, FileRequest DEF DeleteRow, ClientUnchanged
<1>21. CASE \E c \in Clients : BeginClear(c)
  <2>1. PICK c \in Clients : BeginClear(c)
    BY <1>21
  <2>2. RowsKept /\ FilesKept
    BY <2>1 DEF BeginClear, ClientUnchanged, RowsKept, FilesKept
  <2>3. /\ \A d \in Clients \ {c} : client'[d] = client[d]
        /\ client'[c].files \subseteq client[c].files \cup DOMAIN rows
    BY <2>1 DEF BeginClear, TypeInv, TypeOK, ClientType, ImageIds, StartRequest
  <2>4. ClientUnlinksDead(c)'
    BY <2>1 DEF BeginClear, FileInv, ClientUnlinksDead, TypeInv, TypeOK, ClientType, StartRequest
  <2> QED
    BY <2>1, <2>2, <2>3, <2>4, FileRequest DEF BeginClear, ClientUnchanged, StartRequest
<1>22. CASE \E c \in Clients : ClearRows(c)
  <2>1. PICK c \in Clients : ClearRows(c)
    BY <1>22
  <2>2. RowsKept /\ FilesKept
    BY <2>1, FewerRows DEF ClearRows, ClientUnchanged, RowsKept, FilesKept, Without, TypeInv
  <2>3. /\ \A d \in Clients \ {c} : client'[d] = client[d]
        /\ client'[c].files \subseteq client[c].files \cup DOMAIN rows
    BY <2>1 DEF ClearRows, TypeInv, TypeOK, ClientType, ImageIds
  <2>4. ClientUnlinksDead(c)'
    BY <2>1, FewerRows
       DEF ClearRows, FileInv, ClientUnlinksDead, TypeInv, TypeOK, ClientType, Without
  <2> QED
    BY <2>1, <2>2, <2>3, <2>4, FileRequest DEF ClearRows, ClientUnchanged
<1>23. CASE \E c \in Clients : \E i \in DOMAIN rows : BeginToggle(c, i)
  <2>1. PICK c \in Clients, i \in DOMAIN rows : BeginToggle(c, i)
    BY <1>23
  <2>2. RowsKept /\ FilesKept
    BY <2>1 DEF BeginToggle, ClientUnchanged, RowsKept, FilesKept
  <2>3. /\ \A d \in Clients \ {c} : client'[d] = client[d]
        /\ client'[c].files \subseteq client[c].files \cup DOMAIN rows
    BY <2>1 DEF BeginToggle, TypeInv, TypeOK, ClientType, ImageIds, StartRequest
  <2>4. ClientUnlinksDead(c)'
    BY <2>1 DEF BeginToggle, FileInv, ClientUnlinksDead, TypeInv, TypeOK, ClientType, StartRequest
  <2> QED
    BY <2>1, <2>2, <2>3, <2>4, FileRequest DEF BeginToggle, ClientUnchanged, StartRequest
<1>24. CASE \E c \in Clients : Pin(c)
  <2>1. PICK c \in Clients : Pin(c)
    BY <1>24
  <2>2. RowsKept /\ FilesKept
    BY <2>1 DEF Pin, SetPinned, ClientUnchanged, RowsKept, FilesKept, TypeInv, TypeOK, Row
  <2>3. /\ \A d \in Clients \ {c} : client'[d] = client[d]
        /\ client'[c].files \subseteq client[c].files \cup DOMAIN rows
    BY <2>1 DEF Pin, TypeInv, TypeOK, ClientType, ImageIds, SetPinned, IdleClient
  <2>4. ClientUnlinksDead(c)'
    BY <2>1 DEF Pin, FileInv, ClientUnlinksDead, TypeInv, TypeOK, ClientType, SetPinned, IdleClient
  <2> QED
    BY <2>1, <2>2, <2>3, <2>4, FileRequest DEF Pin, ClientUnchanged
<1>25. CASE \E c \in Clients : Unpin(c)
  <2>1. PICK c \in Clients : Unpin(c)
    BY <1>25
  <2>2. RowsKept /\ FilesKept
    BY <2>1 DEF Unpin, SetPinned, ClientUnchanged, RowsKept, FilesKept, TypeInv, TypeOK, Row
  <2>3. /\ \A d \in Clients \ {c} : client'[d] = client[d]
        /\ client'[c].files \subseteq client[c].files \cup DOMAIN rows
    BY <2>1 DEF Unpin, TypeInv, TypeOK, ClientType, ImageIds, SetPinned, IdleClient
  <2>4. ClientUnlinksDead(c)'
    BY <2>1
       DEF Unpin, FileInv, ClientUnlinksDead, TypeInv, TypeOK, ClientType, SetPinned,
           IdleClient
  <2> QED
    BY <2>1, <2>2, <2>3, <2>4, FileRequest DEF Unpin, ClientUnchanged
<1>26. CASE \E c \in Clients : \E i \in DOMAIN rows : Promote(c, i)
  <2>1. PICK c \in Clients, i \in DOMAIN rows : Promote(c, i)
    BY <1>26
  <2>2. RowsKept /\ FilesKept
    BY <2>1 DEF Promote, ClientUnchanged, RowsKept, FilesKept
  <2>3. /\ \A d \in Clients \ {c} : client'[d] = client[d]
        /\ client'[c].files \subseteq client[c].files \cup DOMAIN rows
    BY <2>1 DEF Promote, TypeInv, TypeOK, ClientType, ImageIds, StartRequest
  <2>4. ClientUnlinksDead(c)'
    BY <2>1 DEF Promote, FileInv, ClientUnlinksDead, TypeInv, TypeOK, ClientType, StartRequest
  <2> QED
    BY <2>1, <2>2, <2>3, <2>4, FileRequest DEF Promote, ClientUnchanged, StartRequest
<1>27. CASE \E c \in Clients : AnnounceRequest(c)
  <2>1. PICK c \in Clients : AnnounceRequest(c)
    BY <1>27
  <2>2. RowsKept /\ FilesKept
    BY <2>1 DEF AnnounceRequest, ClientUnchanged, RowsKept, FilesKept
  <2>3. /\ \A d \in Clients \ {c} : client'[d] = client[d]
        /\ client'[c].files \subseteq client[c].files \cup DOMAIN rows
    BY <2>1 DEF AnnounceRequest, TypeInv, TypeOK, ClientType, ImageIds
  <2>4. ClientUnlinksDead(c)'
    BY <2>1 DEF AnnounceRequest, FileInv, ClientUnlinksDead, TypeInv, TypeOK, ClientType
  <2> QED
    BY <2>1, <2>2, <2>3, <2>4, FileRequest DEF AnnounceRequest, ClientUnchanged
<1>28. CASE \E c \in Clients : UnlinkFiles(c)
  <2>1. PICK c \in Clients : UnlinkFiles(c)
    BY <1>28
  <2>2. RowsKept /\ FilesKept
    BY <2>1
       DEF UnlinkFiles, ClientUnchanged, RowsKept, FilesKept, Unlink, FileInv,
           ClientUnlinksDead
  <2>3. /\ \A d \in Clients \ {c} : client'[d] = client[d]
        /\ client'[c].files \subseteq client[c].files \cup DOMAIN rows
    BY <2>1 DEF UnlinkFiles, TypeInv, TypeOK, ClientType, ImageIds, Unlink, IdleClient
  <2>4. ClientUnlinksDead(c)'
    BY <2>1
       DEF UnlinkFiles, FileInv, ClientUnlinksDead, TypeInv, TypeOK, ClientType, Unlink,
           IdleClient
  <2> QED
    BY <2>1, <2>2, <2>3, <2>4, FileRequest DEF UnlinkFiles, ClientUnchanged, Unlink
<1>29. CASE \E c \in Clients : RequestFails(c)
  <2>1. PICK c \in Clients : RequestFails(c)
    BY <1>29
  <2>2. RowsKept /\ FilesKept
    BY <2>1 DEF RequestFails, ClientUnchanged, RowsKept, FilesKept
  <2>3. /\ \A d \in Clients \ {c} : client'[d] = client[d]
        /\ client'[c].files \subseteq client[c].files \cup DOMAIN rows
    BY <2>1 DEF RequestFails, TypeInv, TypeOK, ClientType, ImageIds, IdleClient
  <2>4. ClientUnlinksDead(c)'
    BY <2>1 DEF RequestFails, FileInv, ClientUnlinksDead, TypeInv, TypeOK, ClientType, IdleClient
  <2> QED
    BY <2>1, <2>2, <2>3, <2>4, FileRequest DEF RequestFails, ClientUnchanged
<1>30. CASE Crash
  <2>1. RowsKept /\ FilesKept
    BY <1>30 DEF Crash, RowsKept, FilesKept
  <2> QED
    BY <1>30, <2>1, FileExit DEF Crash
<1>31. CASE Restart
  <2>1. saver.pc = "idle" /\ \A c \in Clients : client[c].pc = "idle"
    BY <1>31 DEF Restart, TypeInv, SaverWorks, ClientWorks
  <2>2. NoDanglingImage'
    BY <1>31 DEF Restart, FileInv, NoDanglingImage, ImageIds, IsImage
  <2>3. Locals
    BY <1>31, <2>1 DEF Restart, FreshId, NewFile, SaverUnlinksDead
  <2>4. \A c \in Clients : ClientUnlinksDead(c)'
    BY <1>31 DEF Restart, FileInv, ClientUnlinksDead
  <2> QED
    BY <2>2, <2>3, <2>4 DEF FileInv
<1>32. CASE \E i \in files : LoseFile(i)
  <2>1. RowsKept /\ FilesKept /\ client' = client
    BY <1>32 DEF LoseFile, RowsKept, FilesKept
  <2>2. Locals
    BY <1>32 DEF LoseFile, FileInv, FreshId, NewFile, SaverUnlinksDead
  <2> QED
    BY <2>1, <2>2, FileSaver
<1>33. CASE UNCHANGED vars
  BY <1>33 DEF vars, FileInv, FreshId, NewFile, SaverUnlinksDead, ClientUnlinksDead,
              NoDanglingImage, ImageIds, IsImage
<1> QED
  BY <1>1, <1>2, <1>3, <1>4, <1>5, <1>6, <1>7, <1>8, <1>9, <1>10, <1>11, <1>12, <1>13, <1>14,
     <1>15, <1>16, <1>17, <1>18, <1>19, <1>20, <1>21, <1>22, <1>23, <1>24, <1>25, <1>26,
     <1>27, <1>28, <1>29, <1>30, <1>31, <1>32, <1>33
     DEF Next, SaverStep, Request, RequestStep

-----------------------------------------------------------------------------
(* One row for each identity *)

\* Rows may go; those that stay keep their identity.
IdentityKept ==
  /\ DOMAIN rows' \subseteq DOMAIN rows
  /\ \A i \in DOMAIN rows' :
       rows'[i].content = rows[i].content /\ rows'[i].legacy = rows[i].legacy

\* A step that inserts nothing and keeps the identities doubles none.
LEMMA OneRowKept ==
  ASSUME OneRowEach, IdentityKept
  PROVE  OneRowEach'
  BY DEF OneRowEach, IdentityKept

\* Nor does it add to what a lookup finds.
LEMMA FewerMatches ==
  ASSUME IdentityKept, NEW c
  PROVE  Matches(c)' \subseteq Matches(c) \cap DOMAIN rows'
  BY DEF IdentityKept, Matches

\* A save is alone in inserting, so nobody else can spoil its lookup.
LEMMA IdentityOther ==
  ASSUME IdentityInv, IdentityKept, saver' = saver
  PROVE  IdentityInv'
<1>1. KnownMatches'
  BY FewerMatches DEF IdentityInv, KnownMatches
<1> QED
  BY <1>1, OneRowKept DEF IdentityInv

\* When the process ends nothing is under way.
LEMMA IdentityExit ==
  ASSUME IdentityInv, IdentityKept, Exit
  PROVE  IdentityInv'
<1>1. KnownMatches'
  BY DEF Exit, IdleSaver, KnownMatches
<1> QED
  BY <1>1, OneRowKept DEF IdentityInv

\* The invariant of the identities at the start ...
LEMMA IdentityInit == Init => IdentityInv
<1> SUFFICES ASSUME Init PROVE IdentityInv
  OBVIOUS
<1>1. KnownMatches
  BY DEF Init, IdleSaver, KnownMatches
<1>2. DOMAIN rows = 1..Len(InitRows)
      /\ \A i \in DOMAIN rows : /\ rows[i].content = InitRows[i].content
                                /\ rows[i].legacy = InitRows[i].legacy
  BY DEF Init
<1>3. OneRowEach
  BY <1>2, InitRowsAssumption DEF OneRowEach
<1> QED
  BY <1>1, <1>3 DEF IdentityInv

\* ... and at every step.
LEMMA IdentityStep == TypeInv /\ IdentityInv /\ [Next]_vars => IdentityInv'
<1> SUFFICES ASSUME TypeInv, IdentityInv, [Next]_vars PROVE IdentityInv'
  OBVIOUS
<1>1. CASE \E c \in Contents : Save(c)
  <2>1. IdentityKept
    BY <1>1 DEF Save, IdentityKept
  <2>2. KnownMatches'
    BY <1>1 DEF Save, IdleSaver, KnownMatches
  <2> QED
    BY <2>1, <2>2, OneRowKept DEF IdentityInv
<1>2. CASE FindText
  <2>1. IdentityKept
    BY <1>2 DEF FindText, IdentityKept
  <2>2. \A i \in Matches(saver.content) : Matches(saver.content) = {i}
    BY DEF IdentityInv, OneRowEach, Matches
  <2>3. KnownMatches'
    BY <1>2, <2>1, <2>2, FewerMatches DEF FindText, KnownMatches, TypeInv, TypeOK, SaverType
  <2> QED
    BY <2>1, <2>3, OneRowKept DEF IdentityInv
<1>3. CASE FindImage
  <2>1. IdentityKept
    BY <1>3 DEF FindImage, IdentityKept
  <2>2. \A i \in Matches(saver.content) : Matches(saver.content) = {i}
    BY DEF IdentityInv, OneRowEach, Matches
  <2>3. KnownMatches'
    <3>1. \/ \E i \in Matches(saver.content) :
               saver' = [saver EXCEPT !.pc = "check", !.found = i, !.pin = rows[i].pinned]
          \/ /\ Matches(saver.content) = {}
             /\ saver' = [saver EXCEPT !.pc = "write"]
      BY <1>3 DEF FindImage
    <3>2. Matches(saver.content)' = Matches(saver.content)
      BY <3>1, <1>3 DEF FindImage, Matches, TypeInv, TypeOK, SaverType
    <3>3. CASE \E i \in Matches(saver.content) :
                 saver' = [saver EXCEPT !.pc = "check", !.found = i, !.pin = rows[i].pinned]
      <4>1. PICK i \in Matches(saver.content) :
              saver' = [saver EXCEPT !.pc = "check", !.found = i, !.pin = rows[i].pinned]
        BY <3>3
      <4>2. saver'.pc = "check" /\ saver'.found = i /\ saver'.content = saver.content
        BY <4>1 DEF TypeInv, TypeOK, SaverType
      <4>3. Matches(saver.content) = {i}
        BY <2>2
      <4>4. Matches(saver.content)' = {i}
        BY <3>2, <4>2, <4>3
      <4> QED
        BY <4>2, <4>4 DEF KnownMatches
    <3>4. CASE Matches(saver.content) = {} /\ saver' = [saver EXCEPT !.pc = "write"]
      BY <3>2, <3>4 DEF KnownMatches, TypeInv, TypeOK, SaverType
    <3> QED
      BY <3>1, <3>3, <3>4
  <2> QED
    BY <2>1, <2>3, OneRowKept DEF IdentityInv
<1>4. CASE CheckFile
  <2>1. IdentityKept
    BY <1>4 DEF CheckFile, IdentityKept
  <2>2. KnownMatches'
    BY <1>4, <2>1, FewerMatches DEF CheckFile, IdentityInv, KnownMatches, TypeInv, TypeOK, SaverType
  <2> QED
    BY <2>1, <2>2, OneRowKept DEF IdentityInv
<1>5. CASE Touch
  <2>1. IdentityKept
    BY <1>5 DEF Touch, IdentityKept, TypeInv, TypeOK, Row
  <2>2. KnownMatches'
    BY <1>5, <2>1, FewerMatches
       DEF Touch, IdentityInv, KnownMatches, TypeInv, TypeOK, SaverType, Matches
  <2> QED
    BY <2>1, <2>2, OneRowKept DEF IdentityInv
<1>6. CASE DropStaleRow
  <2>1. IdentityKept
    BY <1>6, FewerRows DEF DropStaleRow, IdentityKept, Without
  <2>2. saver.found \notin DOMAIN rows'
    <3>1. rows' = Without({saver.found})
      BY <1>6 DEF DropStaleRow
    <3>2. DOMAIN rows' = DOMAIN rows \ {saver.found}
      BY <3>1, FewerRows DEF TypeInv
    <3> QED
      BY <3>2
  <2>3. saver'.pc = "drop_file" /\ saver'.content = saver.content
    BY <1>6 DEF DropStaleRow, TypeInv, TypeOK, SaverType
  <2>4. Matches(saver.content) \subseteq {saver.found}
    BY <1>6 DEF DropStaleRow, IdentityInv, KnownMatches
  <2>5. Matches(saver.content)' \subseteq Matches(saver.content) \cap DOMAIN rows'
    BY <2>1, <2>3 DEF IdentityKept, Matches
  <2>6. KnownMatches'
    BY <2>2, <2>3, <2>4, <2>5 DEF KnownMatches
  <2> QED
    BY <2>1, <2>6, OneRowKept DEF IdentityInv
<1>7. CASE DropStaleFile
  <2>1. IdentityKept
    BY <1>7 DEF DropStaleFile, IdentityKept
  <2>2. KnownMatches'
    BY <1>7, <2>1, FewerMatches
       DEF DropStaleFile, IdentityInv, KnownMatches, TypeInv, TypeOK, SaverType
  <2> QED
    BY <2>1, <2>2, OneRowKept DEF IdentityInv
<1>8. CASE WriteTemp
  <2>1. IdentityKept
    BY <1>8 DEF WriteTemp, IdentityKept
  <2>2. KnownMatches'
    BY <1>8, <2>1, FewerMatches DEF WriteTemp, IdentityInv, KnownMatches, TypeInv, TypeOK, SaverType
  <2> QED
    BY <2>1, <2>2, OneRowKept DEF IdentityInv
<1>9. CASE CommitFile
  <2>1. IdentityKept
    BY <1>9 DEF CommitFile, IdentityKept
  <2>2. KnownMatches'
    BY <1>9, <2>1, FewerMatches
       DEF CommitFile, IdentityInv, KnownMatches, TypeInv, TypeOK, SaverType
  <2> QED
    BY <2>1, <2>2, OneRowKept DEF IdentityInv
<1>10. CASE WriteFails
  <2>1. IdentityKept
    BY <1>10 DEF WriteFails, IdentityKept
  <2> QED
    BY <1>10, <2>1, IdentityExit DEF WriteFails
<1>11. CASE Insert
  <2>1. /\ DOMAIN rows' = DOMAIN rows \cup {saver.id}
        /\ \A i \in DOMAIN rows \ {saver.id} : rows'[i] = rows[i]
        /\ rows'[saver.id].content = saver.content
    BY <1>11 DEF Insert
  <2>2. \A i \in DOMAIN rows : rows[i].content = saver.content => rows[i].legacy
    BY <1>11 DEF Insert, IdentityInv, KnownMatches, Matches, TypeInv, TypeOK, Row
  <2>3. OneRowEach'
    BY <2>1, <2>2 DEF IdentityInv, OneRowEach
  <2>4. KnownMatches'
    BY <1>11 DEF Insert, KnownMatches, TypeInv, TypeOK, SaverType
  <2> QED
    BY <2>3, <2>4 DEF IdentityInv
<1>12. CASE InsertFails
  <2>1. IdentityKept
    BY <1>12 DEF InsertFails, IdentityKept
  <2>2. KnownMatches'
    BY <1>12, <2>1, FewerMatches
       DEF InsertFails, IdentityInv, KnownMatches, TypeInv, TypeOK, SaverType
  <2> QED
    BY <2>1, <2>2, OneRowKept DEF IdentityInv
<1>13. CASE RollbackFile
  <2>1. IdentityKept
    BY <1>13 DEF RollbackFile, IdentityKept
  <2> QED
    BY <1>13, <2>1, IdentityExit DEF RollbackFile
<1>14. CASE CountRows
  <2>1. IdentityKept
    BY <1>14 DEF CountRows, IdentityKept
  <2>2. KnownMatches'
    BY <1>14, <2>1, FewerMatches
       DEF CountRows, IdentityInv, KnownMatches, TypeInv, TypeOK, SaverType
  <2> QED
    BY <2>1, <2>2, OneRowKept DEF IdentityInv
<1>15. CASE SelectVictims
  <2>1. IdentityKept
    BY <1>15 DEF SelectVictims, IdentityKept
  <2>2. KnownMatches'
    BY <1>15, <2>1, FewerMatches
       DEF SelectVictims, IdentityInv, KnownMatches, TypeInv, TypeOK, SaverType
  <2> QED
    BY <2>1, <2>2, OneRowKept DEF IdentityInv
<1>16. CASE Evict
  <2>1. IdentityKept
    BY <1>16, FewerRows DEF Evict, Without, IdentityKept
  <2>2. saver'.pc \in {"evict", "prune"}
    BY <1>16 DEF Evict, TypeInv, TypeOK, SaverType
  <2>3. KnownMatches'
    BY <2>2 DEF KnownMatches
  <2> QED
    BY <2>1, <2>3, OneRowKept DEF IdentityInv
<1>17. CASE Prune
  <2>1. IdentityKept
    BY <1>17 DEF Prune, IdentityKept
  <2>2. KnownMatches'
    BY <1>17, <2>1, FewerMatches DEF Prune, IdentityInv, KnownMatches, TypeInv, TypeOK, SaverType
  <2> QED
    BY <2>1, <2>2, OneRowKept DEF IdentityInv
<1>18. CASE AnnounceSave
  <2>1. IdentityKept
    BY <1>18 DEF AnnounceSave, IdentityKept
  <2>2. KnownMatches'
    BY <1>18, <2>1, FewerMatches
       DEF AnnounceSave, IdentityInv, KnownMatches, TypeInv, TypeOK, SaverType, IdleSaver
  <2> QED
    BY <2>1, <2>2, OneRowKept DEF IdentityInv
<1>19. CASE \E c \in Clients : \E i \in DOMAIN rows : BeginDelete(c, i)
  <2>1. IdentityKept /\ saver' = saver
    BY <1>19 DEF BeginDelete, ClientUnchanged, IdentityKept
  <2> QED
    BY <2>1, IdentityOther
<1>20. CASE \E c \in Clients : DeleteRow(c)
  <2>1. IdentityKept /\ saver' = saver
    BY <1>20 DEF DeleteRow, ClientUnchanged, IdentityKept, Without
  <2> QED
    BY <2>1, IdentityOther
<1>21. CASE \E c \in Clients : BeginClear(c)
  <2>1. IdentityKept /\ saver' = saver
    BY <1>21 DEF BeginClear, ClientUnchanged, IdentityKept
  <2> QED
    BY <2>1, IdentityOther
<1>22. CASE \E c \in Clients : ClearRows(c)
  <2>1. IdentityKept /\ saver' = saver
    BY <1>22 DEF ClearRows, ClientUnchanged, IdentityKept, Without
  <2> QED
    BY <2>1, IdentityOther
<1>23. CASE \E c \in Clients : \E i \in DOMAIN rows : BeginToggle(c, i)
  <2>1. IdentityKept /\ saver' = saver
    BY <1>23 DEF BeginToggle, ClientUnchanged, IdentityKept
  <2> QED
    BY <2>1, IdentityOther
<1>24. CASE \E c \in Clients : Pin(c)
  <2>1. IdentityKept /\ saver' = saver
    <3>1. PICK c \in Clients : Pin(c)
      BY <1>24
    <3> QED
      BY <3>1 DEF Pin, SetPinned, ClientUnchanged, IdentityKept, TypeInv, TypeOK, Row
  <2> QED
    BY <2>1, IdentityOther
<1>25. CASE \E c \in Clients : Unpin(c)
  <2>1. IdentityKept /\ saver' = saver
    <3>1. PICK c \in Clients : Unpin(c)
      BY <1>25
    <3> QED
      BY <3>1 DEF Unpin, SetPinned, ClientUnchanged, IdentityKept, TypeInv, TypeOK, Row
  <2> QED
    BY <2>1, IdentityOther
<1>26. CASE \E c \in Clients : \E i \in DOMAIN rows : Promote(c, i)
  <2>1. IdentityKept /\ saver' = saver
    BY <1>26 DEF Promote, ClientUnchanged, IdentityKept, TypeInv, TypeOK, Row
  <2> QED
    BY <2>1, IdentityOther
<1>27. CASE \E c \in Clients : AnnounceRequest(c)
  <2>1. IdentityKept /\ saver' = saver
    BY <1>27 DEF AnnounceRequest, ClientUnchanged, IdentityKept
  <2> QED
    BY <2>1, IdentityOther
<1>28. CASE \E c \in Clients : UnlinkFiles(c)
  <2>1. IdentityKept /\ saver' = saver
    BY <1>28 DEF UnlinkFiles, ClientUnchanged, IdentityKept
  <2> QED
    BY <2>1, IdentityOther
<1>29. CASE \E c \in Clients : RequestFails(c)
  <2>1. IdentityKept /\ saver' = saver
    BY <1>29 DEF RequestFails, ClientUnchanged, IdentityKept
  <2> QED
    BY <2>1, IdentityOther
<1>30. CASE Crash
  <2>1. IdentityKept
    BY <1>30 DEF Crash, IdentityKept
  <2> QED
    BY <1>30, <2>1, IdentityExit DEF Crash
<1>31. CASE Restart
  <2>1. IdentityKept /\ saver' = saver
    BY <1>31 DEF Restart, IdentityKept
  <2> QED
    BY <2>1, IdentityOther
<1>32. CASE \E i \in files : LoseFile(i)
  <2>1. IdentityKept /\ saver' = saver
    BY <1>32 DEF LoseFile, IdentityKept
  <2> QED
    BY <2>1, IdentityOther
<1>33. CASE UNCHANGED vars
  <2>1. IdentityKept /\ saver' = saver
    BY <1>33 DEF vars, IdentityKept
  <2> QED
    BY <2>1, IdentityOther
<1> QED
  BY <1>1, <1>2, <1>3, <1>4, <1>5, <1>6, <1>7, <1>8, <1>9, <1>10, <1>11, <1>12, <1>13, <1>14,
     <1>15, <1>16, <1>17, <1>18, <1>19, <1>20, <1>21, <1>22, <1>23, <1>24, <1>25, <1>26,
     <1>27, <1>28, <1>29, <1>30, <1>31, <1>32, <1>33
     DEF Next, SaverStep, Request, RequestStep

\* One row for each identity, counted.
LEMMA UniqueFromOneRow == OneRowEach => UniqueIdentity
<1> SUFFICES ASSUME OneRowEach, NEW c \in Contents
             PROVE  Cardinality(Matches(c)) <= 1
  BY DEF UniqueIdentity
<1>1. CASE Matches(c) = {}
  BY <1>1, FS_EmptySet
<1>2. CASE Matches(c) # {}
  <2>1. PICK i \in Matches(c) : TRUE
    BY <1>2
  <2>2. Matches(c) = {i}
    BY <2>1 DEF OneRowEach, Matches
  <2> QED
    BY <2>2, FS_Singleton
<1> QED
  BY <1>1, <1>2

-----------------------------------------------------------------------------
(* The theorems *)

\* Every reachable state is well typed, whatever the tasks and faults do.
THEOREM TypeCorrect == Spec => []TypeOK
<1>1. TypeInv => TypeOK
  BY DEF TypeInv
<1> QED
  BY TypeInit, TypeStep, <1>1, PTL DEF Spec

\* No cleanup ever removes the file of a live row, and no row of an image is
\* inserted before its file: each side unlinks only ids that have no row any
\* more, and an id is never given out twice.
THEOREM NoImageDangles == Spec => []NoDanglingImage
<1>1. FileInv => NoDanglingImage
  BY DEF FileInv
<1> QED
  BY TypeInit, TypeStep, FileInit, FileStep, <1>1, PTL DEF Spec

\* No identity ever has two rows, although the table has no UNIQUE index.
THEOREM IdentitiesUnique == Spec => []UniqueIdentity
<1>1. IdentityInv => UniqueIdentity
  BY UniqueFromOneRow DEF IdentityInv
<1> QED
  BY TypeInit, TypeStep, IdentityInit, IdentityStep, <1>1, PTL DEF Spec


-----------------------------------------------------------------------------
(* What depends on the requests that are enabled *)

\* A request that is not enabled never runs.
OpsInv ==
  /\ "toggle" \notin Ops => \A c \in Clients : client[c].pc \notin {"pin", "unpin"}
  /\ "clear" \notin Ops => \A c \in Clients : client[c].pc # "clear"

\* Rows may go; those that stay keep their content and their pin.
RowsStay ==
  /\ DOMAIN rows' \subseteq DOMAIN rows
  /\ \A i \in DOMAIN rows' :
       rows'[i].content = rows[i].content /\ rows'[i].pinned = rows[i].pinned

\* No request is under way at the start ...
LEMMA OpsInit == Init => OpsInv
  BY DEF Init, OpsInv, IdleClient

\* ... and later only those that are enabled.
LEMMA OpsStep == TypeInv /\ OpsInv /\ [Next]_vars => OpsInv'
<1> SUFFICES ASSUME TypeInv, OpsInv, [Next]_vars PROVE OpsInv'
  OBVIOUS
<1>1. client \in [Clients -> ClientType]
  BY DEF TypeInv, TypeOK
<1>2. CASE client' = client
  BY <1>2 DEF OpsInv
<1>3. CASE Exit
  BY <1>3 DEF Exit, OpsInv, IdleClient
<1>4. ASSUME NEW c \in Clients, RequestStep(c) PROVE OpsInv'
  <2>1. \A d \in Clients \ {c} : client'[d] = client[d]
    BY <1>1, <1>4 DEF RequestStep, DeleteRow, ClearRows, Pin, Unpin, SetPinned,
                      AnnounceRequest, UnlinkFiles, RequestFails
  <2>2. client'[c].pc \in {"idle", "announce", "unlink"}
    <3>1. CASE DeleteRow(c) \/ ClearRows(c) \/ AnnounceRequest(c) \/ RequestFails(c)
      BY <1>1, <3>1 DEF DeleteRow, ClearRows, AnnounceRequest, RequestFails, IdleClient,
                        ClientType
    <3>2. CASE Pin(c) \/ Unpin(c)
      <4>1. client' = [client EXCEPT ![c] = [@ EXCEPT !.pc = "announce"]]
            \/ client' = [client EXCEPT ![c] = IdleClient]
        BY <3>2 DEF Pin, Unpin, SetPinned
      <4>2. client[c] \in ClientType
        BY <1>1
      <4> QED
        BY <1>1, <4>1, <4>2 DEF IdleClient, ClientType
    <3>3. CASE UnlinkFiles(c)
      <4>1. client[c].pc = "unlink" /\ client[c] \in ClientType
        BY <1>1, <3>3 DEF UnlinkFiles
      <4>2. client' = [client EXCEPT ![c] = IdleClient]
            \/ \E i : client' = [client EXCEPT ![c].files = @ \ {i}]
        BY <3>3 DEF UnlinkFiles
      <4> QED
        BY <1>1, <4>1, <4>2 DEF IdleClient, ClientType
    <3> QED
      BY <1>4, <3>1, <3>2, <3>3 DEF RequestStep
  <2> QED
    BY <2>1, <2>2 DEF OpsInv
<1>5. ASSUME NEW c \in Clients, Request(c) PROVE OpsInv'
  <2>1. \A d \in Clients \ {c} : client'[d] = client[d]
    BY <1>1, <1>5 DEF Request, BeginClear, BeginDelete, BeginToggle, Promote
  <2>2. \/ client'[c].pc \in {"delete", "announce"}
        \/ client'[c].pc = "clear" /\ "clear" \in Ops
        \/ client'[c].pc \in {"pin", "unpin"} /\ "toggle" \in Ops
    BY <1>1, <1>5 DEF Request, BeginClear, BeginDelete, BeginToggle, Promote, StartRequest,
                      ClientType
  <2> QED
    BY <2>1, <2>2 DEF OpsInv
<1>6. SaverStep => client' = client \/ Exit
  BY DEF SaverStep, SaverUnchanged, FindText, FindImage, CheckFile, Touch, DropStaleRow,
         DropStaleFile, WriteTemp, CommitFile, WriteFails, Insert, InsertFails, RollbackFile,
         CountRows, SelectVictims, Evict, Prune, AnnounceSave
<1>7. client' = client \/ Exit \/ \E c \in Clients : Request(c) \/ RequestStep(c)
  BY <1>6 DEF Next, vars, Save, Crash, Restart, LoseFile
<1> QED
  BY <1>2, <1>3, <1>4, <1>5, <1>7

\* The steps that are not the saver's neither add rows nor touch pins, if
\* nobody toggles them.
LEMMA OthersRows ==
  ASSUME TypeInv, OpsInv, "toggle" \notin Ops, [Next]_vars, ~SaverStep
  PROVE  /\ RowsStay
         /\ saver' = saver \/ Crash \/ \E c \in Contents : Save(c)
<1>1. rows \in [DOMAIN rows -> Row]
  BY DEF TypeInv, TypeOK
<1>2. CASE \E c \in Contents : Save(c)
  BY <1>2 DEF Save, RowsStay
<1>3. CASE Crash \/ Restart \/ (\E i \in files : LoseFile(i)) \/ UNCHANGED vars
  BY <1>3 DEF Crash, Restart, LoseFile, vars, RowsStay
<1>4. ASSUME NEW c \in Clients, Request(c)
      PROVE  RowsStay /\ saver' = saver
  <2>1. saver' = saver
    BY <1>4 DEF Request, BeginClear, BeginDelete, BeginToggle, Promote, ClientUnchanged
  <2>2. RowsStay
    BY <1>1, <1>4 DEF Request, BeginClear, BeginDelete, BeginToggle, Promote, RowsStay, Row
  <2> QED
    BY <2>1, <2>2
<1>5. ASSUME NEW c \in Clients, RequestStep(c)
      PROVE  RowsStay /\ saver' = saver
  <2>1. saver' = saver
    BY <1>5 DEF RequestStep, DeleteRow, ClearRows, Pin, Unpin, SetPinned,
                AnnounceRequest, UnlinkFiles, RequestFails, ClientUnchanged
  <2>2. ~Pin(c) /\ ~Unpin(c)
    BY DEF OpsInv, Pin, Unpin
  <2>3. RowsStay
    BY <1>1, <1>5, <2>2, FewerRows
       DEF RequestStep, DeleteRow, ClearRows, AnnounceRequest, UnlinkFiles, RequestFails,
           RowsStay, Without, TypeInv
  <2> QED
    BY <2>1, <2>3
<1> QED
  BY <1>2, <1>3, <1>4, <1>5 DEF Next

-----------------------------------------------------------------------------
(* Pins *)

\* The saver acts on the pin it has read, and on victims that had none.
PinInv ==
  /\ saver.pc \in {"check", "drop_row"} /\ saver.found \in DOMAIN rows =>
       /\ rows[saver.found].content = saver.content
       /\ rows[saver.found].pinned => saver.pin
  /\ saver.pc = "evict" => saver.victims \cap DOMAIN rows \subseteq Unpinned

\* The invariant of the pins at the start ...
LEMMA PinInit == Init => PinInv
  BY DEF Init, PinInv, IdleSaver

\* ... and at every step, unless pins are toggled.
LEMMA PinStep ==
  ASSUME "toggle" \notin Ops
  PROVE  TypeInv /\ OpsInv /\ PinInv /\ [Next]_vars => PinInv'
<1> SUFFICES ASSUME TypeInv, OpsInv, PinInv, [Next]_vars PROVE PinInv'
  OBVIOUS
<1>1. saver \in SaverType /\ rows \in [DOMAIN rows -> Row]
  BY DEF TypeInv, TypeOK
<1>2. CASE ~SaverStep
  <2>1. RowsStay
    BY <1>2, OthersRows
  <2>2. CASE saver' = saver
    BY <2>1, <2>2 DEF PinInv, RowsStay, Unpinned
  <2>3. CASE Crash \/ \E c \in Contents : Save(c)
    <3>1. saver'.pc \in {"idle", "find"}
      <4>1. CASE Crash
        BY <4>1 DEF Crash, Exit, IdleSaver
      <4>2. CASE \E c \in Contents : Save(c)
        BY <4>2 DEF Save, IdleSaver
      <4> QED
        BY <2>3, <4>1, <4>2
    <3> QED
      BY <3>1 DEF PinInv
  <2> QED
    BY <1>2, <2>2, <2>3, OthersRows
<1>3. CASE FindImage
  <2>1. rows' = rows
    BY <1>3 DEF FindImage
  <2>2. CASE \E i \in Matches(saver.content) :
               saver' = [saver EXCEPT !.pc = "check", !.found = i, !.pin = rows[i].pinned]
    BY <1>1, <2>1, <2>2 DEF PinInv, Matches, SaverType
  <2>3. CASE saver' = [saver EXCEPT !.pc = "write"]
    BY <1>1, <2>3 DEF PinInv, SaverType
  <2> QED
    BY <1>3, <2>2, <2>3 DEF FindImage
<1>4. CASE CheckFile
  BY <1>1, <1>4 DEF CheckFile, PinInv, SaverType
<1>5. CASE SelectVictims
  BY <1>1, <1>5 DEF SelectVictims, Oldest, PinInv, Unpinned, SaverType
<1>6. CASE Evict
  <2>1. RowsStay
    BY <1>6, FewerRows DEF Evict, RowsStay, Without, TypeInv
  <2>2. saver'.victims \subseteq saver.victims /\ saver'.pc \in {"evict", "prune"}
        /\ saver.pc = "evict"
    BY <1>1, <1>6 DEF Evict, SaverType
  <2> QED
    BY <2>1, <2>2 DEF PinInv, RowsStay, Unpinned
<1>7. CASE FindText \/ Touch \/ DropStaleRow \/ DropStaleFile \/ WriteTemp \/ CommitFile
           \/ WriteFails \/ Insert \/ InsertFails \/ RollbackFile \/ CountRows \/ Prune
           \/ AnnounceSave
  <2>1. saver'.pc \notin {"check", "drop_row", "evict"}
    <3>1. CASE FindText \/ Touch
      BY <1>1, <3>1 DEF FindText, Touch, SaverType
    <3>2. CASE DropStaleRow \/ DropStaleFile \/ WriteTemp \/ CommitFile \/ Insert
               \/ InsertFails
      BY <1>1, <3>2 DEF DropStaleRow, DropStaleFile, WriteTemp, CommitFile, Insert,
                        InsertFails, SaverType
    <3>3. CASE WriteFails \/ RollbackFile \/ AnnounceSave
      BY <3>3 DEF WriteFails, RollbackFile, AnnounceSave, Exit, IdleSaver
    <3>4. CASE CountRows
      BY <1>1, <3>4 DEF CountRows, SaverType
    <3>5. CASE Prune
      BY <1>1, <3>5 DEF Prune, SaverType
    <3> QED
      BY <1>7, <3>1, <3>2, <3>3, <3>4, <3>5
  <2> QED
    BY <2>1 DEF PinInv
<1> QED
  BY <1>2, <1>3, <1>4, <1>5, <1>6, <1>7 DEF SaverStep

\* A pinned content stays pinned until a request touches it or the daemon
\* dies: the saver's copy of the pin is never older than the row's.
LEMMA PinsCarried ==
  ASSUME "toggle" \notin Ops, TypeInv, FileInv, OpsInv, PinInv, [Next]_vars,
         NEW c \in Contents, PinnedContent(c), ~PinnedContent(c)'
  PROVE  ~up' \/ client' # client
<1>1. saver \in SaverType /\ rows \in [DOMAIN rows -> Row]
  BY DEF TypeInv, TypeOK
<1>2. CASE ~SaverStep
  <2>1. RowsStay
    BY <1>2, OthersRows
  <2>2. CASE Crash
    BY <2>2 DEF Crash, Exit
  <2>3. CASE \E d \in Contents : Save(d)
    BY <2>3 DEF Save, PinnedContent, CarriesPin
  <2>4. CASE saver' = saver
    <3>1. PICK i \in DOMAIN rows : rows[i].content = c /\ rows[i].pinned
      BY <2>4 DEF PinnedContent, CarriesPin
    <3>2. rows' # rows
      BY <3>1 DEF PinnedContent
    <3>3. PICK d \in Clients : Request(d) \/ RequestStep(d)
      BY <1>2, <3>2 DEF Next, Save, Crash, Restart, LoseFile, vars
    <3>4. client \in [Clients -> ClientType]
      BY DEF TypeInv, TypeOK
    <3>5. Promote(d, i) \/ (\E j \in DOMAIN rows : Promote(d, j)) \/ DeleteRow(d)
          \/ ClearRows(d)
      BY <3>2, <3>3 DEF Request, BeginClear, BeginDelete, BeginToggle, RequestStep,
                        AnnounceRequest, UnlinkFiles, RequestFails, OpsInv, Pin, Unpin
    <3>6. client'[d].pc # client[d].pc
      <4>1. CASE ClearRows(d) \/ \E j \in DOMAIN rows : Promote(d, j)
        BY <3>4, <4>1 DEF ClearRows, Promote, StartRequest, ClientType
      <4>2. CASE DeleteRow(d)
        BY <3>4, <4>2 DEF DeleteRow, IdleClient, ClientType
      <4> QED
        BY <3>1, <3>5, <4>1, <4>2
    <3> QED
      BY <3>6
  <2> QED
    BY <1>2, <2>2, <2>3, <2>4, OthersRows
<1>3. CASE WriteFails \/ RollbackFile
  BY <1>3 DEF WriteFails, RollbackFile, Exit
<1>4. CASE FindText \/ FindImage \/ CheckFile \/ InsertFails \/ DropStaleFile \/ WriteTemp
           \/ CommitFile \/ CountRows \/ SelectVictims \/ Prune \/ AnnounceSave
  <2>1. rows' = rows
    BY <1>4 DEF FindText, FindImage, CheckFile, InsertFails, DropStaleFile, WriteTemp,
                CommitFile, CountRows, SelectVictims, Prune, AnnounceSave
  <2>2. CarriesPin(c) /\ ~CarriesPin(c)'
    BY <2>1 DEF PinnedContent
  <2>3. InsertFails \/ DropStaleFile \/ WriteTemp \/ CommitFile
    BY <1>4, <2>2 DEF CarriesPin, FindText, FindImage, CheckFile, CountRows, SelectVictims,
                      Prune, AnnounceSave
  <2> QED
    BY <1>1, <2>2, <2>3 DEF InsertFails, DropStaleFile, WriteTemp, CommitFile, CarriesPin,
                            SaverType
<1>5. CASE Touch
  <2>1. DOMAIN rows' = DOMAIN rows
        /\ \A i \in DOMAIN rows : rows'[i].content = rows[i].content
                                  /\ rows'[i].pinned = rows[i].pinned
    BY <1>1, <1>5 DEF Touch, Row
  <2> QED
    BY <1>5, <2>1 DEF Touch, PinnedContent, CarriesPin
<1>6. CASE DropStaleRow
  <2>1. DOMAIN rows' = DOMAIN rows \ {saver.found} /\ rows' = Without({saver.found})
    BY <1>6, FewerRows DEF DropStaleRow, TypeInv
  <2>2. saver.pc = "drop_row" /\ saver'.pc = "drop_file" /\ saver'.content = saver.content
        /\ saver'.pin = saver.pin
    BY <1>1, <1>6 DEF DropStaleRow, SaverType
  <2>3. PICK i \in DOMAIN rows : rows[i].content = c /\ rows[i].pinned
    BY <2>2 DEF PinnedContent, CarriesPin
  <2>4. i = saver.found
    BY <2>1, <2>3 DEF PinnedContent, Without
  <2> QED
    BY <2>2, <2>3, <2>4 DEF PinInv, PinnedContent, CarriesPin
<1>7. CASE Insert
  <2>1. /\ DOMAIN rows' = DOMAIN rows \cup {saver.id}
        /\ \A i \in DOMAIN rows \ {saver.id} : rows'[i] = rows[i]
        /\ rows'[saver.id].content = saver.content /\ rows'[saver.id].pinned = saver.pin
    BY <1>7 DEF Insert
  <2>2. saver.pc = "insert"
    BY <1>7 DEF Insert
  <2>3. CASE CarriesPin(c)
    BY <2>1, <2>3 DEF CarriesPin, PinnedContent
  <2>4. ASSUME NEW i \in DOMAIN rows \ {saver.id}, rows[i].content = c, rows[i].pinned
        PROVE  PinnedContent(c)'
    BY <2>1, <2>4 DEF PinnedContent
  <2>5. saver.id \notin DOMAIN rows
    BY <2>2 DEF FileInv, FreshId
  <2> QED
    BY <2>3, <2>4, <2>5 DEF PinnedContent
<1>8. CASE Evict
  <2>1. PICK v \in saver.victims : rows' = Without({v})
    BY <1>8 DEF Evict
  <2>2. DOMAIN rows' = DOMAIN rows \ {v}
    BY <2>1, FewerRows DEF TypeInv
  <2>3. saver.pc = "evict"
    BY <1>8 DEF Evict
  <2>4. PICK i \in DOMAIN rows : rows[i].content = c /\ rows[i].pinned
    BY <2>3 DEF PinnedContent, CarriesPin
  <2>5. i # v
    BY <2>3, <2>4 DEF PinInv, Unpinned
  <2> QED
    BY <2>1, <2>2, <2>4, <2>5 DEF PinnedContent, Without
<1> QED
  BY <1>2, <1>3, <1>4, <1>5, <1>6, <1>7, <1>8 DEF SaverStep

\* Without toggles a copy, its repair and every eviction preserve a pin.
THEOREM PinsAreKept ==
  ASSUME "toggle" \notin Ops
  PROVE  Spec => PinKept
<1>1. PinInv /\ TypeInv /\ OpsInv /\ [Next]_vars => PinInv'
  BY PinStep
<1>2. TypeInv /\ FileInv /\ OpsInv /\ PinInv /\ [Next]_vars =>
        [\A c \in Contents :
           PinnedContent(c) /\ ~PinnedContent(c)' => ~up' \/ client' # client]_vars
  BY PinsCarried
<1> QED
  BY TypeInit, TypeStep, FileInit, FileStep, OpsInit, OpsStep, PinInit, <1>1, <1>2,
     PTL DEF Spec, PinKept

-----------------------------------------------------------------------------
(* The capacity *)

HoldsPin == {"drop_file", "write", "rename", "insert", "rollback"}

\* A pinned row that is to be inserted again has made room for itself.
RoomForPin ==
  saver.pin =>
    /\ saver.pc \notin {"find", "touch"}
    /\ saver.pc \in {"check", "drop_row"} =>
         saver.found \in DOMAIN rows \/ Cardinality(DOMAIN rows) < MaxItems
    /\ saver.pc \in HoldsPin => Cardinality(DOMAIN rows) < MaxItems

\* Between the insert and the eviction there is one row too many, as long as
\* nobody deletes anything; the new row itself may be evicted.
OneTooMany ==
  /\ Cardinality(DOMAIN rows) = MaxItems + 1
  /\ saver.pc \in {"count", "oldest", "evict"}
  /\ saver.pc \in {"count", "oldest"} => saver.id \in Unpinned
  /\ saver.pc = "oldest" => saver.excess >= 1
  /\ saver.pc = "evict" => saver.victims \subseteq DOMAIN rows

CapacityInv ==
  /\ Cardinality(DOMAIN rows) <= MaxItems \/ OneTooMany
  /\ RoomForPin

\* A part of a finite set has fewer elements than the whole.
LEMMA FewerCounted ==
  ASSUME NEW S, IsFiniteSet(S), NEW T, T \subseteq S
  PROVE  /\ Cardinality(S) \in Nat /\ Cardinality(T) \in Nat
         /\ Cardinality(T) <= Cardinality(S)
         /\ T # S => Cardinality(T) < Cardinality(S)
<1>1. /\ IsFiniteSet(T)
      /\ Cardinality(T) <= Cardinality(S)
      /\ Cardinality(S) = Cardinality(T) => S = T
  BY FS_Subset
<1>2. Cardinality(S) \in Nat /\ Cardinality(T) \in Nat
  BY <1>1, FS_CardinalityType
<1> QED
  BY <1>1, <1>2

\* Where there is an unpinned row, there is one with no older unpinned row:
\* the sets of older rows are finite, so one of them is minimal.
LEMMA OldestExists ==
  ASSUME TypeInv, Unpinned # {}, NEW n \in Nat, n >= 1
  PROVE  Oldest(n) # {}
<1> DEFINE D == DOMAIN rows
           Older(i) == {j \in Unpinned : rows[j].created < rows[i].created}
           T == {Older(i) : i \in Unpinned}
           R == StrictSubsetOrdering(D)
<1>1. IsFiniteSet(D)
  BY RowCount DEF TypeInv
<1>2. IsWellFoundedOn(R, FiniteSubsetsOf(D))
  BY FS_StrictSubsetOrderingWellFounded
<1>3. IsWellFoundedOn(R, SUBSET D)
  BY <1>1, <1>2, FS_FiniteSubsetsOfFinite
<1>4. T \subseteq SUBSET D /\ T # {}
  BY DEF Unpinned
<1> HIDE DEF R, T
<1>5. PICK x \in T : \A y \in T : ~(<<y, x>> \in R)
  BY <1>3, <1>4, WFMin
<1>6. PICK i \in Unpinned : x = Older(i)
  BY <1>5 DEF T
<1>7. \A j \in Unpinned : rows[j].created \in Nat
  BY DEF TypeInv, TypeOK, Unpinned, Row
<1>8. ASSUME NEW j \in Older(i) PROVE FALSE
  <2>1. j \in Unpinned /\ rows[j].created < rows[i].created
    BY <1>8
  <2>2. Older(j) \subseteq Older(i)
    BY <1>7, <2>1
  <2>3. j \notin Older(j)
    BY <1>7, <2>1
  <2>4. Older(j) \in T /\ Older(j) \in SUBSET D /\ Older(i) \in SUBSET D
    BY <2>1 DEF T, Unpinned
  <2>5. <<Older(j), Older(i)>> \in R
    BY <1>8, <2>2, <2>3, <2>4 DEF R, StrictSubsetOrdering
  <2> QED
    BY <1>5, <1>6, <2>4, <2>5
<1>9. Older(i) = {}
  BY <1>8
<1>10. Cardinality({j \in Unpinned : rows[j].created < rows[i].created}) < n
  <2>1. {j \in Unpinned : rows[j].created < rows[i].created} = {}
    BY <1>9
  <2>2. Cardinality({}) = 0
    BY FS_EmptySet
  <2> QED
    BY <2>1, <2>2
<1>11. i \in Oldest(n)
  BY <1>6, <1>10 DEF Oldest
<1> QED
  BY <1>11

\* Deletions only make room.
LEMMA CapacityOther ==
  ASSUME TypeInv, CapacityInv, RowsStay, saver' = saver
  PROVE  CapacityInv'
<1> DEFINE n == Cardinality(DOMAIN rows)
           m == Cardinality(DOMAIN rows')
<1>1. /\ n \in Nat /\ m \in Nat /\ m <= n
      /\ DOMAIN rows' # DOMAIN rows => m < n
  <2>1. IsFiniteSet(DOMAIN rows) /\ DOMAIN rows' \subseteq DOMAIN rows
    BY RowCount DEF RowsStay, TypeInv
  <2> QED
    BY <2>1, FewerCounted
<1>2. MaxItems \in Nat
  BY LimitAssumption
<1>3. m = Cardinality(DOMAIN rows)'
  OBVIOUS
<1>4. n <= MaxItems \/ OneTooMany
  BY DEF CapacityInv
<1>5. OneTooMany => n = MaxItems + 1
  BY DEF OneTooMany
<1> HIDE DEF n, m
<1>6. RoomForPin'
  <2>1. RoomForPin /\ (saver.pin => saver.pc \notin {"find", "touch"})
    BY DEF CapacityInv, RoomForPin
  <2>2. saver.pin /\ saver.pc \in HoldsPin => m < MaxItems
    BY <1>1, <1>2, <2>1 DEF RoomForPin, n
  <2>3. saver.pin /\ saver.pc \in {"check", "drop_row"} =>
          saver.found \in DOMAIN rows' \/ m < MaxItems
    <3>1. SUFFICES ASSUME saver.pin, saver.pc \in {"check", "drop_row"},
                          saver.found \notin DOMAIN rows'
                   PROVE  m < MaxItems
      OBVIOUS
    <3>2. CASE saver.found \in DOMAIN rows
      <4>1. m < n
        BY <1>1, <3>1, <3>2
      <4>2. n <= MaxItems
        BY <1>4, <3>1 DEF OneTooMany
      <4> QED
        BY <1>1, <1>2, <4>1, <4>2
    <3>3. CASE saver.found \notin DOMAIN rows
      BY <1>1, <1>2, <2>1, <3>1, <3>3 DEF RoomForPin, n
    <3> QED
      BY <3>2, <3>3
  <2> QED
    BY <1>3, <2>1, <2>2, <2>3 DEF RoomForPin
<1>7. CASE DOMAIN rows' = DOMAIN rows
  <2>1. Cardinality(DOMAIN rows)' = Cardinality(DOMAIN rows)
    BY <1>7
  <2>2. OneTooMany => OneTooMany'
    BY <1>7, <2>1 DEF OneTooMany, RowsStay, Unpinned
  <2> QED
    BY <1>4, <1>6, <2>1, <2>2 DEF CapacityInv, n
<1>8. CASE DOMAIN rows' # DOMAIN rows
  <2>1. m <= MaxItems
    BY <1>1, <1>2, <1>4, <1>5, <1>8
  <2> QED
    BY <1>3, <1>6, <2>1 DEF CapacityInv
<1> QED
  BY <1>7, <1>8

\* The table is within its limit at the start ...
LEMMA CapacityInit ==
  ASSUME Len(InitRows) <= MaxItems
  PROVE  Init => CapacityInv
<1> SUFFICES ASSUME Init PROVE CapacityInv
  OBVIOUS
<1>1. Len(InitRows) \in Nat
  BY InitRowsAssumption
<1>2. DOMAIN rows = 1..Len(InitRows)
  BY DEF Init
<1>3. Cardinality(DOMAIN rows) = Len(InitRows)
  BY <1>1, <1>2, FS_Interval
<1>4. ~saver.pin
  BY DEF Init, IdleSaver
<1> QED
  BY <1>3, <1>4 DEF CapacityInv, RoomForPin

\* A step of the saver that leaves the rows alone.
LEMMA CapacityLocal ==
  ASSUME CapacityInv, rows' = rows, saver.pc \notin {"count", "oldest", "evict"},
         saver'.pin => saver.pin /\ saver'.pc \in HoldsPin \cup {"drop_row", "idle"},
         saver'.pin /\ saver'.pc \in HoldsPin => saver.pc \in HoldsPin,
         saver'.pc = "drop_row" => saver.pc = "check" /\ saver'.found = saver.found
  PROVE  CapacityInv'
<1>1. Cardinality(DOMAIN rows)' = Cardinality(DOMAIN rows)
  OBVIOUS
<1>2. Cardinality(DOMAIN rows) <= MaxItems
  BY DEF CapacityInv, OneTooMany
<1>3. RoomForPin'
  BY <1>1 DEF CapacityInv, RoomForPin, HoldsPin
<1> QED
  BY <1>1, <1>2, <1>3 DEF CapacityInv

\* ... and every save that puts it over the limit is on its way to evict.
LEMMA CapacityStep ==
  ASSUME "toggle" \notin Ops, "crash" \notin Faults
  PROVE  TypeInv /\ FileInv /\ OpsInv /\ CapacityInv /\ [Next]_vars => CapacityInv'
<1> SUFFICES ASSUME TypeInv, FileInv, OpsInv, CapacityInv, [Next]_vars PROVE CapacityInv'
  OBVIOUS
<1>1. saver \in SaverType /\ rows \in [DOMAIN rows -> Row]
  BY DEF TypeInv, TypeOK
<1>2. /\ IsFiniteSet(DOMAIN rows) /\ Cardinality(DOMAIN rows) \in Nat /\ MaxItems \in Nat
  BY RowCount, LimitAssumption DEF TypeInv
<1> DEFINE n == Cardinality(DOMAIN rows)
<1>3. n <= MaxItems \/ OneTooMany
  BY DEF CapacityInv
<1>4. CASE ~SaverStep
  <2>1. RowsStay /\ (saver' = saver \/ \E c \in Contents : Save(c))
    BY <1>4, OthersRows DEF Crash
  <2>2. CASE \E c \in Contents : Save(c)
    <3>1. rows' = rows /\ saver.pc = "idle" /\ ~saver'.pin /\ saver'.pc = "find"
      BY <2>2 DEF Save, IdleSaver
    <3> QED
      BY <3>1, CapacityLocal
  <2> QED
    BY <2>1, <2>2, CapacityOther
<1>5. CASE FindText
  BY <1>1, <1>5, CapacityLocal DEF FindText, SaverType, CapacityInv, RoomForPin
<1>6. CASE FindImage
  <2>1. rows' = rows /\ n <= MaxItems /\ ~saver.pin
    BY <1>3, <1>6 DEF FindImage, OneTooMany, CapacityInv, RoomForPin
  <2>2. CASE \E i \in Matches(saver.content) :
               saver' = [saver EXCEPT !.pc = "check", !.found = i, !.pin = rows[i].pinned]
    BY <1>1, <2>1, <2>2 DEF Matches, CapacityInv, RoomForPin, HoldsPin, SaverType
  <2>3. CASE saver' = [saver EXCEPT !.pc = "write"]
    BY <1>1, <2>1, <2>3 DEF CapacityInv, RoomForPin, SaverType
  <2> QED
    BY <1>6, <2>2, <2>3 DEF FindImage
<1>7. CASE CheckFile
  BY <1>1, <1>7, CapacityLocal DEF CheckFile, HoldsPin, SaverType
<1>8. CASE Touch
  <2>1. ~saver.pin /\ saver.pc = "touch" /\ ~saver'.pin
    BY <1>1, <1>8 DEF Touch, CapacityInv, RoomForPin, SaverType
  <2>2. DOMAIN rows' = DOMAIN rows
    BY <1>8 DEF Touch
  <2>3. Cardinality(DOMAIN rows)' <= MaxItems
    BY <1>3, <2>1, <2>2 DEF OneTooMany
  <2> QED
    BY <2>1, <2>3 DEF CapacityInv, RoomForPin
<1>9. CASE DropStaleRow
  <2>1. DOMAIN rows' = DOMAIN rows \ {saver.found}
    BY <1>9, FewerRows DEF DropStaleRow, TypeInv
  <2>2. saver.pc = "drop_row" /\ saver' = [saver EXCEPT !.pc = "drop_file"]
    BY <1>9 DEF DropStaleRow
  <2> DEFINE m == Cardinality(DOMAIN rows \ {saver.found})
  <2>3. m = IF saver.found \in DOMAIN rows THEN n - 1 ELSE n
    BY <1>2, FS_RemoveElement
  <2>4. n <= MaxItems /\ n \in Nat
    BY <1>2, <1>3, <2>2 DEF OneTooMany
  <2>5. saver.pin => saver.found \in DOMAIN rows \/ n < MaxItems
    BY <2>2 DEF CapacityInv, RoomForPin
  <2>6. Cardinality(DOMAIN rows)' = m
    BY <2>1
  <2>7. saver'.pin = saver.pin /\ saver'.pc = "drop_file"
    BY <1>1, <2>2 DEF SaverType
  <2> HIDE DEF n, m
  <2>8. m <= MaxItems /\ (saver.pin => m < MaxItems)
    BY <1>2, <2>3, <2>4, <2>5
  <2> QED
    BY <2>6, <2>7, <2>8 DEF CapacityInv, RoomForPin, HoldsPin
<1>10. CASE DropStaleFile \/ WriteTemp \/ CommitFile \/ InsertFails
  BY <1>1, <1>10, CapacityLocal
     DEF DropStaleFile, WriteTemp, CommitFile, InsertFails, HoldsPin, SaverType
<1>11. CASE WriteFails \/ RollbackFile
  <2>1. rows' = rows /\ ~saver'.pin /\ saver'.pc = "idle"
        /\ saver.pc \notin {"count", "oldest", "evict"}
    BY <1>11 DEF WriteFails, RollbackFile, Exit, IdleSaver
  <2> QED
    BY <2>1, CapacityLocal
<1>12. CASE Insert
  <2>1. /\ DOMAIN rows' = DOMAIN rows \cup {saver.id}
        /\ rows'[saver.id].pinned = saver.pin
        /\ saver.pc = "insert" /\ saver' = [saver EXCEPT !.pc = "count"]
    BY <1>12 DEF Insert
  <2>2. saver.id \notin DOMAIN rows
    BY <2>1 DEF FileInv, FreshId
  <2> DEFINE m == Cardinality(DOMAIN rows \cup {saver.id})
  <2>3. m = n + 1
    BY <1>2, <2>2, FS_AddElement
  <2>4. n <= MaxItems /\ n \in Nat /\ (saver.pin => n < MaxItems)
    BY <1>2, <1>3, <2>1 DEF OneTooMany, CapacityInv, RoomForPin, HoldsPin
  <2>5. Cardinality(DOMAIN rows)' = m
    BY <2>1
  <2>6. saver'.pc = "count" /\ saver'.id = saver.id /\ saver'.pin = saver.pin
    BY <1>1, <2>1 DEF SaverType
  <2>7. ~saver.pin => (saver.id \in Unpinned)'
    BY <2>1, <2>6 DEF Unpinned
  <2> HIDE DEF n, m
  <2>8. m <= MaxItems \/ (m = MaxItems + 1 /\ ~saver.pin)
    BY <1>2, <2>3, <2>4
  <2> QED
    BY <2>5, <2>6, <2>7, <2>8 DEF CapacityInv, OneTooMany, RoomForPin, HoldsPin
<1>13. CASE CountRows
  <2>1. rows' = rows /\ saver.pc = "count"
    BY <1>13 DEF CountRows
  <2>2. CASE n <= MaxItems
    <3>1. saver'.pc = "announce"
      BY <1>1, <1>13, <2>2 DEF CountRows, SaverType
    <3> QED
      BY <2>1, <2>2, <3>1 DEF CapacityInv, RoomForPin, HoldsPin
  <2>3. CASE n > MaxItems
    <3>1. saver' = [saver EXCEPT !.pc = "oldest", !.excess = n - MaxItems]
      BY <1>2, <1>13, <2>3 DEF CountRows
    <3>2. saver'.pc = "oldest" /\ saver'.excess = n - MaxItems /\ saver'.id = saver.id
      BY <1>1, <3>1 DEF SaverType
    <3>3. n = MaxItems + 1 /\ saver.id \in Unpinned
      BY <1>2, <1>3, <2>1, <2>3 DEF OneTooMany
    <3>4. saver'.excess >= 1
      BY <1>2, <3>2, <3>3
    <3> QED
      BY <2>1, <3>2, <3>3, <3>4 DEF CapacityInv, OneTooMany, RoomForPin, HoldsPin, Unpinned
  <2> QED
    BY <1>2, <2>2, <2>3
<1>14. CASE SelectVictims
  <2>1. /\ rows' = rows /\ saver.pc = "oldest"
        /\ saver'.pc = IF Oldest(saver.excess) = {} THEN "announce" ELSE "evict"
        /\ saver'.victims = Oldest(saver.excess)
    BY <1>1, <1>14 DEF SelectVictims, SaverType
  <2>2. saver'.victims \subseteq DOMAIN rows
    BY <2>1 DEF Oldest, Unpinned
  <2>3. OneTooMany => Oldest(saver.excess) # {}
    BY <1>1, <2>1, OldestExists DEF OneTooMany, SaverType
  <2> QED
    BY <1>3, <2>1, <2>2, <2>3 DEF CapacityInv, OneTooMany, RoomForPin, HoldsPin
<1>15. CASE Evict
  <2>1. PICK v \in saver.victims : rows' = Without({v})
    BY <1>15 DEF Evict
  <2>2. DOMAIN rows' = DOMAIN rows \ {v}
    BY <2>1, FewerRows DEF TypeInv
  <2>3. saver.pc = "evict" /\ saver'.pc \in {"evict", "prune"}
    BY <1>1, <1>15 DEF Evict, SaverType
  <2> DEFINE m == Cardinality(DOMAIN rows \ {v})
  <2>4. m = IF v \in DOMAIN rows THEN n - 1 ELSE n
    BY <1>2, FS_RemoveElement
  <2>5. n <= MaxItems \/ (n = MaxItems + 1 /\ v \in DOMAIN rows)
    BY <1>3, <2>1, <2>3 DEF OneTooMany
  <2>6. Cardinality(DOMAIN rows)' = m
    BY <2>2
  <2>7. n \in Nat /\ MaxItems \in Nat
    BY <1>2
  <2> HIDE DEF n, m
  <2>8. m <= MaxItems
    BY <2>4, <2>5, <2>7
  <2> QED
    BY <2>3, <2>6, <2>8 DEF CapacityInv, RoomForPin, HoldsPin
<1>16. CASE Prune \/ AnnounceSave
  <2>1. rows' = rows /\ saver.pc \in {"prune", "announce"}
        /\ saver'.pc \in {"prune", "announce", "idle"}
    <3>1. CASE Prune
      BY <1>1, <3>1 DEF Prune, SaverType
    <3>2. CASE AnnounceSave
      BY <3>2 DEF AnnounceSave, IdleSaver
    <3> QED
      BY <1>16, <3>1, <3>2
  <2> QED
    BY <1>3, <2>1 DEF CapacityInv, OneTooMany, RoomForPin, HoldsPin
<1> QED
  BY <1>4, <1>5, <1>6, <1>7, <1>8, <1>9, <1>10, <1>11, <1>12, <1>13, <1>14, <1>15, <1>16
     DEF SaverStep

\* A table that starts within its limit is within it whenever no save is in
\* progress, as long as nobody pins rows and the daemon does not die between
\* an insert and the eviction that follows it.
THEOREM CapacityIsKept ==
  ASSUME "toggle" \notin Ops, "crash" \notin Faults, Len(InitRows) <= MaxItems
  PROVE  Spec => []CapacityKept
<1>1. Init => CapacityInv
  BY CapacityInit
<1>2. TypeInv /\ FileInv /\ OpsInv /\ CapacityInv /\ [Next]_vars => CapacityInv'
  BY CapacityStep
<1>3. CapacityInv => CapacityKept
  BY DEF CapacityInv, OneTooMany, CapacityKept
<1> QED
  BY TypeInit, TypeStep, FileInit, FileStep, OpsInit, OpsStep, <1>1, <1>2, <1>3, PTL DEF Spec

-----------------------------------------------------------------------------
(* Nothing is left over *)

FreshPcs == {"find", "check", "touch", "drop_row", "drop_file",
             "write", "rename", "insert", "rollback"}

\* The saver still has to give file i a row, or to unlink it.
SaverCleans(i) ==
  \/ saver.pc \in {"insert", "rollback"} /\ saver.content \in Images /\ i = saver.id
  \/ saver.pc = "drop_file" /\ i = saver.found
  \/ saver.pc \in {"evict", "prune"} /\ i \in saver.prune

\* Request c still has to unlink it.
ClientCleans(c, i) == client[c].pc \in {"announce", "unlink"} /\ i \in client[c].files

FilesAccounted ==
  up => \A i \in files :
          i \in ImageIds \/ SaverCleans(i) \/ \E c \in Clients : ClientCleans(c, i)

TempsAccounted == up /\ temps # {} => saver.pc = "rename" /\ temps = {saver.id}

\* Who is about to delete rows knows which of them have a file.
DeleteKnows(c) ==
  client[c].pc = "delete" =>
    /\ client[c].id \in ImageIds => client[c].id \in client[c].files
    /\ saver.pc \in FreshPcs => client[c].id # saver.id

EvictKnows == saver.pc = "evict" => saver.victims \cap ImageIds \subseteq saver.prune

\* Only an image has a file to look at, to write or to remove.
ImageWork ==
  saver.pc \in {"check", "drop_row", "drop_file", "write", "rename"} => saver.content \in Images

OrphanInv ==
  /\ ImageWork
  /\ FilesAccounted
  /\ TempsAccounted
  /\ \A c \in Clients : DeleteKnows(c)
  /\ EvictKnows

\* Every file has a row at the start.
LEMMA OrphanInit == Init => OrphanInv
<1> SUFFICES ASSUME Init PROVE OrphanInv
  OBVIOUS
<1>0. ImageWork
  BY DEF Init, IdleSaver, ImageWork
<1>1. saver.pc = "idle" /\ temps = {} /\ \A c \in Clients : client[c].pc = "idle"
  BY DEF Init, IdleSaver, IdleClient
<1>2. files = ImageIds
  BY DEF Init, ImageIds, IsImage
<1> QED
  BY <1>0, <1>1, <1>2 DEF OrphanInv, FilesAccounted, TempsAccounted, DeleteKnows, EvictKnows

\* A step of the saver that removes no row owes what it owed.
LEMMA OrphanSaver ==
  ASSUME OrphanInv, ImageIds' = ImageIds, files' \subseteq files, temps' = temps,
         client' = client, up' = up, saver.pc # "rename",
         saver'.pc \in FreshPcs => saver.pc \in FreshPcs /\ saver'.id = saver.id,
         \A i \in files' : SaverCleans(i) => SaverCleans(i)',
         EvictKnows', ImageWork'
  PROVE  OrphanInv'
<1>1. FilesAccounted'
  BY DEF OrphanInv, FilesAccounted, ClientCleans
<1>2. TempsAccounted'
  BY DEF OrphanInv, TempsAccounted
<1>3. \A c \in Clients : DeleteKnows(c)'
  BY DEF OrphanInv, DeleteKnows
<1> QED
  BY <1>1, <1>2, <1>3 DEF OrphanInv

\* A step of a request answers for the rows it removes.
LEMMA OrphanRequest ==
  ASSUME OrphanInv, RowsKept, saver' = saver, temps' = temps, up' = up,
         files' \subseteq files, NEW c \in Clients,
         \A d \in Clients \ {c} : client'[d] = client[d],
         \A i \in files' : i \in ImageIds \/ ClientCleans(c, i)
                             => i \in ImageIds' \/ ClientCleans(c, i)',
         DeleteKnows(c)'
  PROVE  OrphanInv'
<1>1. ImageIds' \subseteq ImageIds
  BY DEF RowsKept, ImageIds, IsImage
<1>0. ImageWork'
  BY DEF OrphanInv, ImageWork
<1>2. FilesAccounted'
  <2>1. SUFFICES ASSUME up, NEW i \in files'
                 PROVE  i \in ImageIds' \/ SaverCleans(i)'
                        \/ \E d \in Clients : ClientCleans(d, i)'
    BY DEF FilesAccounted
  <2>2. i \in ImageIds \/ SaverCleans(i) \/ \E d \in Clients : ClientCleans(d, i)
    BY <2>1 DEF OrphanInv, FilesAccounted
  <2>3. SaverCleans(i) => SaverCleans(i)'
    BY DEF SaverCleans
  <2>4. \A d \in Clients \ {c} : ClientCleans(d, i) => ClientCleans(d, i)'
    BY DEF ClientCleans
  <2> QED
    BY <2>1, <2>2, <2>3, <2>4
<1>3. TempsAccounted'
  BY DEF OrphanInv, TempsAccounted
<1>4. \A d \in Clients : DeleteKnows(d)'
  BY <1>1 DEF OrphanInv, DeleteKnows
<1>5. EvictKnows'
  BY <1>1 DEF OrphanInv, EvictKnows
<1> QED
  BY <1>0, <1>2, <1>3, <1>4, <1>5 DEF OrphanInv

\* The dead owe nothing: the next daemon reconciles the files with the rows.
LEMMA OrphanExit ==
  ASSUME Exit PROVE OrphanInv'
  BY DEF Exit, IdleSaver, IdleClient, OrphanInv, FilesAccounted, TempsAccounted, DeleteKnows,
         EvictKnows, ImageWork

\* No step of the saver leaves a file behind that nobody will remove.
LEMMA OrphanSaverStep ==
  ASSUME "unlink" \notin Faults, TypeInv, FileInv, OrphanInv, SaverStep
  PROVE  OrphanInv'
<1>1. saver \in SaverType /\ rows \in [DOMAIN rows -> Row]
  BY DEF TypeInv, TypeOK
<1>2. saver.pc # "idle" => up
  BY DEF TypeInv, SaverWorks
<1>3. rows' = rows => ImageIds' = ImageIds
  BY DEF ImageIds, IsImage
<1>4. saver.pc # "rename" => (up => temps = {})
  BY DEF OrphanInv, TempsAccounted
<1>0. ImageWork'
  <2>1. CASE FindImage
    BY <1>1, <2>1 DEF FindImage, ImageWork, SaverType
  <2>2. CASE FindText \/ CheckFile \/ Touch
    BY <1>1, <2>2 DEF FindText, CheckFile, Touch, OrphanInv, ImageWork, SaverType
  <2>3. CASE DropStaleRow \/ DropStaleFile \/ WriteTemp \/ CommitFile \/ Insert \/ InsertFails
    BY <1>1, <2>3 DEF DropStaleRow, DropStaleFile, WriteTemp, CommitFile, Insert, InsertFails,
                      OrphanInv, ImageWork, SaverType
  <2>4. CASE WriteFails \/ RollbackFile \/ AnnounceSave
    BY <2>4 DEF WriteFails, RollbackFile, AnnounceSave, Exit, IdleSaver, ImageWork
  <2>5. CASE CountRows \/ SelectVictims
    BY <1>1, <2>5 DEF CountRows, SelectVictims, ImageWork, SaverType
  <2>6. CASE Evict \/ Prune
    BY <1>1, <2>6 DEF Evict, Prune, ImageWork, SaverType
  <2> QED
    BY <2>1, <2>2, <2>3, <2>4, <2>5, <2>6 DEF SaverStep
<1>5. CASE FindText
  <2>1. /\ saver.pc = "find" /\ saver'.pc \in {"touch", "insert"} /\ saver'.id = saver.id
    BY <1>1, <1>5 DEF FindText, SaverType
  <2> QED
    BY <1>0, <1>3, <1>5, <2>1, OrphanSaver
       DEF FindText, SaverUnchanged, SaverCleans, EvictKnows, FreshPcs
<1>6. CASE FindImage
  <2>1. \/ \E i \in Matches(saver.content) :
             saver' = [saver EXCEPT !.pc = "check", !.found = i, !.pin = rows[i].pinned]
        \/ saver' = [saver EXCEPT !.pc = "write"]
    BY <1>6 DEF FindImage
  <2>2. saver.pc = "find" /\ saver'.pc \in {"check", "write"} /\ saver'.id = saver.id
    BY <1>1, <1>6, <2>1 DEF FindImage, SaverType
  <2> QED
    BY <1>0, <1>3, <1>6, <2>2, OrphanSaver
       DEF FindImage, SaverUnchanged, SaverCleans, EvictKnows, FreshPcs
<1>7. CASE CheckFile
  <2>1. saver.pc = "check" /\ saver'.pc \in {"touch", "drop_row"} /\ saver'.id = saver.id
    BY <1>1, <1>7 DEF CheckFile, SaverType
  <2> QED
    BY <1>0, <1>3, <1>7, <2>1, OrphanSaver
       DEF CheckFile, SaverUnchanged, SaverCleans, EvictKnows, FreshPcs
<1>8. CASE Touch
  <2>1. saver.pc = "touch" /\ saver'.pc \in {"announce", "write", "insert"}
        /\ saver'.id = saver.id
    BY <1>1, <1>8 DEF Touch, SaverType
  <2>2. ImageIds' = ImageIds
    BY <1>1, <1>8 DEF Touch, ImageIds, IsImage, Row
  <2> QED
    BY <1>0, <1>8, <2>1, <2>2, OrphanSaver
       DEF Touch, SaverUnchanged, SaverCleans, EvictKnows, FreshPcs
<1>9. CASE DropStaleRow
  <2>1. DOMAIN rows' = DOMAIN rows \ {saver.found} /\ rows' = Without({saver.found})
    BY <1>9, FewerRows DEF DropStaleRow, TypeInv
  <2>2. ImageIds' = ImageIds \ {saver.found}
    BY <2>1 DEF ImageIds, IsImage, Without
  <2>3. saver.pc = "drop_row" /\ saver'.pc = "drop_file" /\ saver'.found = saver.found
        /\ saver'.id = saver.id
    BY <1>1, <1>9 DEF DropStaleRow, SaverType
  <2>4. UNCHANGED <<files, temps, client, up>>
    BY <1>9 DEF DropStaleRow, SaverUnchanged
  <2>5. FilesAccounted'
    BY <2>2, <2>3, <2>4 DEF OrphanInv, FilesAccounted, SaverCleans, ClientCleans
  <2>6. \A c \in Clients : DeleteKnows(c)'
    BY <2>2, <2>3, <2>4 DEF OrphanInv, DeleteKnows, FreshPcs
  <2> QED
    BY <1>0, <1>2, <1>4, <2>3, <2>4, <2>5, <2>6 DEF OrphanInv, TempsAccounted, EvictKnows
<1>10. CASE DropStaleFile
  <2>1. saver.pc = "drop_file" /\ saver'.pc = "write" /\ saver'.id = saver.id
        /\ files' = files \ {saver.found}
    BY <1>1, <1>10 DEF DropStaleFile, Unlink, SaverType
  <2> QED
    BY <1>0, <1>3, <1>10, <2>1, OrphanSaver
       DEF DropStaleFile, SaverUnchanged, SaverCleans, EvictKnows, FreshPcs
<1>11. CASE WriteTemp
  <2>1. saver.pc = "write" /\ saver'.pc = "rename" /\ saver'.id = saver.id
        /\ temps' = temps \cup {saver.id}
    BY <1>1, <1>11 DEF WriteTemp, SaverType
  <2>2. UNCHANGED <<rows, files, client, up>>
    BY <1>11 DEF WriteTemp, SaverUnchanged
  <2>3. temps' = {saver.id}
    BY <1>0, <1>2, <1>4, <2>1
  <2>4. FilesAccounted'
    BY <1>3, <2>1, <2>2 DEF OrphanInv, FilesAccounted, SaverCleans, ClientCleans
  <2>5. \A c \in Clients : DeleteKnows(c)'
    BY <1>3, <2>1, <2>2 DEF OrphanInv, DeleteKnows, FreshPcs
  <2> QED
    BY <1>0, <2>1, <2>3, <2>4, <2>5 DEF OrphanInv, TempsAccounted, EvictKnows
<1>12. CASE CommitFile
  <2>1. saver.pc = "rename" /\ saver'.pc = "insert" /\ saver'.id = saver.id
        /\ temps' = temps \ {saver.id} /\ files' = files \cup {saver.id}
        /\ saver.content \in Images /\ saver'.content = saver.content
    BY <1>1, <1>12 DEF CommitFile, OrphanInv, ImageWork, SaverType
  <2>2. UNCHANGED <<rows, client, up>>
    BY <1>12 DEF CommitFile, SaverUnchanged
  <2>3. temps' = {}
    BY <1>2, <2>1 DEF OrphanInv, TempsAccounted
  <2>4. FilesAccounted'
    BY <1>3, <2>1, <2>2 DEF OrphanInv, FilesAccounted, SaverCleans, ClientCleans
  <2>5. \A c \in Clients : DeleteKnows(c)'
    BY <1>3, <2>1, <2>2 DEF OrphanInv, DeleteKnows, FreshPcs
  <2> QED
    BY <1>0, <2>1, <2>3, <2>4, <2>5 DEF OrphanInv, TempsAccounted, EvictKnows
<1>13. CASE WriteFails \/ RollbackFile
  BY <1>13, OrphanExit DEF WriteFails, RollbackFile
<1>14. CASE Insert
  <2>1. /\ DOMAIN rows' = DOMAIN rows \cup {saver.id}
        /\ \A i \in DOMAIN rows \ {saver.id} : rows'[i] = rows[i]
        /\ rows'[saver.id].content = saver.content
    BY <1>14 DEF Insert
  <2>2. saver.pc = "insert" /\ saver'.pc = "count" /\ saver.id \notin DOMAIN rows
    BY <1>1, <1>14 DEF Insert, SaverType, FileInv, FreshId
  <2>3. UNCHANGED <<files, temps, client, up>>
    BY <1>14 DEF Insert, SaverUnchanged
  <2>4. ImageIds' = IF saver.content \in Images THEN ImageIds \cup {saver.id} ELSE ImageIds
    BY <2>1, <2>2 DEF ImageIds, IsImage
  <2>5. FilesAccounted'
    BY <2>2, <2>3, <2>4 DEF OrphanInv, FilesAccounted, SaverCleans, ClientCleans
  <2>6. \A c \in Clients : DeleteKnows(c)'
    BY <2>2, <2>3, <2>4 DEF OrphanInv, DeleteKnows, FreshPcs
  <2> QED
    BY <1>0, <1>2, <1>4, <2>2, <2>3, <2>5, <2>6 DEF OrphanInv, TempsAccounted, EvictKnows
<1>15. CASE InsertFails
  <2>1. saver.pc = "insert" /\ saver'.pc = "rollback" /\ saver'.id = saver.id
        /\ saver'.content = saver.content
    BY <1>1, <1>15 DEF InsertFails, SaverType
  <2> QED
    BY <1>0, <1>3, <1>15, <2>1, OrphanSaver
       DEF InsertFails, SaverUnchanged, SaverCleans, EvictKnows, FreshPcs
<1>16. CASE CountRows
  <2>1. saver.pc = "count" /\ saver'.pc \in {"announce", "oldest"}
    BY <1>1, <1>16 DEF CountRows, SaverType
  <2> QED
    BY <1>0, <1>3, <1>16, <2>1, OrphanSaver
       DEF CountRows, SaverUnchanged, SaverCleans, EvictKnows, FreshPcs
<1>17. CASE SelectVictims
  <2>1. saver.pc = "oldest" /\ saver'.pc \in {"announce", "evict"}
        /\ saver'.prune = saver'.victims \cap ImageIds
    BY <1>1, <1>17 DEF SelectVictims, SaverType
  <2> QED
    BY <1>0, <1>3, <1>17, <2>1, OrphanSaver
       DEF SelectVictims, SaverUnchanged, SaverCleans, EvictKnows, FreshPcs
<1>18. CASE Evict
  <2>1. PICK v \in saver.victims :
          /\ rows' = Without({v})
          /\ saver' = [saver EXCEPT !.victims = @ \ {v},
                                    !.pc = IF saver.victims = {v}
                                             THEN "prune" ELSE "evict"]
    BY <1>18 DEF Evict
  <2>2. ImageIds' = ImageIds \ {v}
    BY <2>1, FewerRows DEF ImageIds, IsImage, Without, TypeInv
  <2>3. saver.pc = "evict" /\ saver'.pc \in {"evict", "prune"}
        /\ saver'.prune = saver.prune /\ saver'.victims \subseteq saver.victims
    BY <1>1, <1>18, <2>1 DEF Evict, SaverType
  <2>4. UNCHANGED <<files, temps, client, up>>
    BY <1>18 DEF Evict, SaverUnchanged
  <2>5. v \in ImageIds => v \in saver.prune
    BY <2>1, <2>3 DEF OrphanInv, EvictKnows
  <2>6. FilesAccounted'
    BY <2>2, <2>3, <2>4, <2>5 DEF OrphanInv, FilesAccounted, SaverCleans, ClientCleans
  <2>7. (\A c \in Clients : DeleteKnows(c)') /\ EvictKnows'
    BY <2>2, <2>3, <2>4 DEF OrphanInv, DeleteKnows, EvictKnows, FreshPcs
  <2> QED
    BY <1>0, <1>2, <1>4, <2>3, <2>4, <2>6, <2>7 DEF OrphanInv, TempsAccounted
<1>19. CASE Prune
  <2>1. saver.pc = "prune" /\ saver'.pc \in {"prune", "announce"} /\ files' \subseteq files
        /\ \A i \in files' : i \in saver.prune => saver'.pc = "prune" /\ i \in saver'.prune
    <3>1. CASE \E v \in saver.prune :
                 files' = files \ {v} /\ saver' = [saver EXCEPT !.prune = @ \ {v}]
      BY <1>1, <1>19, <3>1 DEF Prune, SaverType
    <3>2. CASE saver.prune = {} /\ saver' = [saver EXCEPT !.pc = "announce"] /\ files' = files
      BY <1>1, <1>19, <3>2 DEF Prune, SaverType
    <3> QED
      BY <1>19, <3>1, <3>2 DEF Prune, Unlink
  <2> QED
    BY <1>0, <1>3, <1>19, <2>1, OrphanSaver
       DEF Prune, SaverUnchanged, SaverCleans, EvictKnows, FreshPcs
<1>20. CASE AnnounceSave
  <2>1. saver.pc = "announce" /\ saver'.pc = "idle"
    BY <1>20 DEF AnnounceSave, IdleSaver
  <2> QED
    BY <1>0, <1>3, <1>20, <2>1, OrphanSaver
       DEF AnnounceSave, SaverUnchanged, SaverCleans, EvictKnows, FreshPcs
<1> QED
  BY <1>5, <1>6, <1>7, <1>8, <1>9, <1>10, <1>11, <1>12, <1>13, <1>14, <1>15, <1>16, <1>17,
     <1>18, <1>19, <1>20 DEF SaverStep

\* Nor does a request.
LEMMA OrphanRequestStep ==
  ASSUME "unlink" \notin Faults, "clear" \notin Ops, TypeInv, FileInv, OpsInv, OrphanInv,
         NEW c \in Clients, Request(c) \/ RequestStep(c)
  PROVE  OrphanInv'
<1>1. client \in [Clients -> ClientType] /\ rows \in [DOMAIN rows -> Row]
  BY DEF TypeInv, TypeOK
<1>2. client[c].pc # "clear" /\ ~BeginClear(c)
  BY DEF OpsInv, BeginClear, StartRequest
<1>3. ASSUME rows' = rows PROVE RowsKept /\ ImageIds' = ImageIds
  BY <1>3 DEF RowsKept, ImageIds, IsImage
<1>4. CASE \E i \in DOMAIN rows : BeginDelete(c, i)
  <2>1. PICK i \in DOMAIN rows : BeginDelete(c, i)
    BY <1>4
  <2>2. client' = [client EXCEPT ![c] =
                     [pc |-> "delete", id |-> i, files |-> {i} \cap ImageIds]]
        /\ client[c].pc = "idle"
    BY <2>1 DEF BeginDelete, StartRequest
  <2>3. client'[c].id = i /\ client'[c].files = {i} \cap ImageIds
    BY <1>1, <2>2
  <2>4. DeleteKnows(c)'
    BY <1>3, <2>1, <2>3 DEF BeginDelete, ClientUnchanged, DeleteKnows, FreshPcs, FileInv, FreshId
  <2>5. ~\E j : ClientCleans(c, j)
    BY <2>2 DEF ClientCleans
  <2> QED
    BY <1>1, <1>3, <2>1, <2>2, <2>4, <2>5, OrphanRequest DEF BeginDelete, ClientUnchanged
<1>5. CASE DeleteRow(c)
  <2>1. rows' = Without({client[c].id}) /\ DOMAIN rows' = DOMAIN rows \ {client[c].id}
    BY <1>5, FewerRows DEF DeleteRow, TypeInv
  <2>2. RowsKept /\ ImageIds' = ImageIds \ {client[c].id}
    BY <2>1 DEF RowsKept, ImageIds, IsImage, Without
  <2>3. client[c].pc = "delete"
        /\ client' = [client EXCEPT ![c] = IF client[c].id \in DOMAIN rows
                                             THEN [@ EXCEPT !.pc = "announce"]
                                             ELSE IdleClient]
    BY <1>5 DEF DeleteRow
  <2>4. client[c].id \in ImageIds =>
          client'[c].pc = "announce" /\ client[c].id \in client'[c].files
    BY <1>1, <2>3 DEF OrphanInv, DeleteKnows, ImageIds, ClientType
  <2>5. client'[c].pc # "delete"
    BY <1>1, <2>3 DEF IdleClient, ClientType
  <2>6. \A i \in files' : i \in ImageIds \/ ClientCleans(c, i)
                             => i \in ImageIds' \/ ClientCleans(c, i)'
    BY <2>2, <2>3, <2>4 DEF ClientCleans
  <2>7. \A d \in Clients \ {c} : client'[d] = client[d]
    BY <1>1, <2>3
  <2>8. UNCHANGED <<saver, temps, up, files>>
    BY <1>5 DEF DeleteRow, ClientUnchanged
  <2> QED
    BY <2>2, <2>5, <2>6, <2>7, <2>8, OrphanRequest DEF DeleteKnows
<1>6. CASE \E i \in DOMAIN rows : BeginToggle(c, i) \/ Promote(c, i)
  <2>1. RowsKept /\ ImageIds' = ImageIds
    BY <1>1, <1>6 DEF BeginToggle, Promote, RowsKept, ImageIds, IsImage, Row
  <2>2. client[c].pc = "idle" /\ client'[c].pc \in {"pin", "unpin", "announce"}
        /\ \A d \in Clients \ {c} : client'[d] = client[d]
    BY <1>1, <1>6 DEF BeginToggle, Promote, StartRequest, ClientType
  <2>3. UNCHANGED <<saver, temps, up, files>>
    BY <1>6 DEF BeginToggle, Promote, ClientUnchanged
  <2>4. DeleteKnows(c)' /\ \A i : ~ClientCleans(c, i)
    BY <2>2 DEF ClientCleans, DeleteKnows
  <2>5. \A i \in files' : i \in ImageIds \/ ClientCleans(c, i)
                             => i \in ImageIds' \/ ClientCleans(c, i)'
    BY <2>1, <2>4
  <2>6. saver' = saver /\ temps' = temps /\ up' = up /\ files' \subseteq files
    BY <2>3
  <2> QED
    BY <2>1, <2>2, <2>4, <2>5, <2>6, OrphanRequest
<1>7. CASE Pin(c) \/ Unpin(c)
  <2>1. RowsKept /\ ImageIds' = ImageIds
    <3>1. rows' = rows \/ \E i, b : rows' = [rows EXCEPT ![i].pinned = b]
      BY <1>7 DEF Pin, Unpin, SetPinned
    <3>2. DOMAIN rows' = DOMAIN rows
          /\ \A i \in DOMAIN rows : rows'[i].content = rows[i].content
      BY <1>1, <3>1 DEF Row
    <3> QED
      BY <3>2 DEF RowsKept, ImageIds, IsImage
  <2>2. client[c].pc \in {"pin", "unpin"}
    BY <1>7 DEF Pin, Unpin
  <2>3. client' = [client EXCEPT ![c] = [@ EXCEPT !.pc = "announce"]]
        \/ client' = [client EXCEPT ![c] = IdleClient]
    BY <1>7 DEF Pin, Unpin, SetPinned
  <2>4. client'[c].pc # "delete" /\ \A d \in Clients \ {c} : client'[d] = client[d]
    BY <1>1, <2>3 DEF IdleClient, ClientType
  <2>5. UNCHANGED <<saver, temps, up, files>>
    BY <1>7 DEF Pin, Unpin, ClientUnchanged
  <2> QED
    BY <2>1, <2>2, <2>4, <2>5, OrphanRequest DEF ClientCleans, DeleteKnows
<1>8. CASE AnnounceRequest(c)
  <2>1. client[c].pc = "announce" /\ client'[c].pc = "unlink"
        /\ client'[c].files = client[c].files
        /\ \A d \in Clients \ {c} : client'[d] = client[d]
    BY <1>1, <1>8 DEF AnnounceRequest, ClientType
  <2> QED
    BY <1>3, <1>8, <2>1, OrphanRequest
       DEF AnnounceRequest, ClientUnchanged, ClientCleans, DeleteKnows
<1>9. CASE UnlinkFiles(c)
  <2>1. /\ client[c].pc = "unlink" /\ client[c] \in ClientType
        /\ UNCHANGED <<rows, saver, temps, up>>
    BY <1>1, <1>9 DEF UnlinkFiles, ClientUnchanged
  <2>2. CASE \E i \in client[c].files :
               files' = files \ {i} /\ client' = [client EXCEPT ![c].files = @ \ {i}]
    <3>1. PICK i \in client[c].files :
               files' = files \ {i} /\ client' = [client EXCEPT ![c].files = @ \ {i}]
      BY <2>2
    <3>2. client'[c].pc = "unlink" /\ client'[c].files = client[c].files \ {i}
          /\ \A d \in Clients \ {c} : client'[d] = client[d]
      BY <1>1, <2>1, <3>1 DEF ClientType
    <3> QED
      BY <1>3, <2>1, <3>1, <3>2, OrphanRequest DEF ClientCleans, DeleteKnows
  <2>3. CASE client[c].files = {} /\ client' = [client EXCEPT ![c] = IdleClient]
             /\ files' = files
    <3>1. client'[c].pc = "idle" /\ \A d \in Clients \ {c} : client'[d] = client[d]
      BY <1>1, <2>3 DEF IdleClient
    <3> QED
      BY <1>3, <2>1, <2>3, <3>1, OrphanRequest DEF ClientCleans, DeleteKnows
  <2> QED
    BY <1>9, <2>2, <2>3 DEF UnlinkFiles, Unlink
<1>10. CASE RequestFails(c)
  <2>1. client[c].pc \notin {"announce", "unlink"} /\ client'[c].pc = "idle"
        /\ \A d \in Clients \ {c} : client'[d] = client[d]
    BY <1>1, <1>10 DEF RequestFails, IdleClient
  <2> QED
    BY <1>3, <1>10, <2>1, OrphanRequest
       DEF RequestFails, ClientUnchanged, ClientCleans, DeleteKnows
<1> QED
  BY <1>2, <1>4, <1>5, <1>6, <1>7, <1>8, <1>9, <1>10 DEF Request, RequestStep, ClearRows

\* Nor does any other step: a restart removes what a crash left.
LEMMA OrphanStep ==
  ASSUME "unlink" \notin Faults, "clear" \notin Ops
  PROVE  TypeInv /\ FileInv /\ OpsInv /\ OrphanInv /\ [Next]_vars => OrphanInv'
<1> SUFFICES ASSUME TypeInv, FileInv, OpsInv, OrphanInv, [Next]_vars PROVE OrphanInv'
  OBVIOUS
<1>1. rows' = rows => ImageIds' = ImageIds
  BY DEF ImageIds, IsImage
<1>2. CASE SaverStep
  BY <1>2, OrphanSaverStep
<1>3. ASSUME NEW c \in Clients, Request(c) \/ RequestStep(c) PROVE OrphanInv'
  BY <1>3, OrphanRequestStep
<1>4. CASE \E c \in Contents : Save(c)
  <2>1. saver.pc = "idle" /\ saver'.pc = "find" /\ saver'.id = clock + 1
    BY <1>4 DEF Save, IdleSaver
  <2>2. UNCHANGED <<rows, files, temps, client, up>>
    BY <1>4 DEF Save
  <2>3. \A c \in Clients : DeleteKnows(c)'
    <3>1. \A c \in Clients : client[c].id \in 0..clock /\ clock \in Nat
      BY DEF TypeInv, TypeOK, ClientType
    <3> QED
      BY <1>1, <2>1, <2>2, <3>1 DEF OrphanInv, DeleteKnows
  <2>4. FilesAccounted'
    BY <1>1, <2>1, <2>2 DEF OrphanInv, FilesAccounted, SaverCleans, ClientCleans
  <2> QED
    BY <2>1, <2>2, <2>3, <2>4 DEF OrphanInv, TempsAccounted, EvictKnows, ImageWork
<1>5. CASE Crash
  BY <1>5, OrphanExit DEF Crash
<1>6. CASE Restart
  <2>1. saver.pc = "idle" /\ \A c \in Clients : client[c].pc = "idle"
    BY <1>6 DEF Restart, TypeInv, SaverWorks, ClientWorks
  <2> QED
    BY <1>1, <1>6, <2>1 DEF Restart, OrphanInv, FilesAccounted, TempsAccounted, DeleteKnows,
                            EvictKnows, ImageWork
<1>7. CASE (\E i \in files : LoseFile(i)) \/ UNCHANGED vars
  <2>1. UNCHANGED <<rows, temps, saver, client, up>> /\ files' \subseteq files
    BY <1>7 DEF LoseFile, vars
  <2>2. FilesAccounted'
    BY <1>1, <2>1 DEF OrphanInv, FilesAccounted, SaverCleans, ClientCleans
  <2> QED
    BY <1>1, <2>1, <2>2 DEF OrphanInv, TempsAccounted, DeleteKnows, EvictKnows, ImageWork
<1> QED
  BY <1>2, <1>3, <1>4, <1>5, <1>6, <1>7 DEF Next

\* Whatever saves, deletions, toggles, failures and crashes are mixed, an idle
\* daemon has no file without a row: only a clear, whose list of files is older
\* than its DELETE, and a file that cannot be removed leave one.
THEOREM NothingIsOrphaned ==
  ASSUME "unlink" \notin Faults, "clear" \notin Ops
  PROVE  Spec => []NoOrphanWhenIdle
<1>1. TypeInv /\ FileInv /\ OpsInv /\ OrphanInv /\ [Next]_vars => OrphanInv'
  BY OrphanStep
<1>2. OrphanInv => NoOrphanWhenIdle
  BY DEF OrphanInv, FilesAccounted, TempsAccounted, SaverCleans, ClientCleans,
         NoOrphanWhenIdle, AllIdle
<1> QED
  BY TypeInit, TypeStep, FileInit, FileStep, OpsInit, OpsStep, OrphanInit, <1>1, <1>2,
     PTL DEF Spec
=============================================================================
