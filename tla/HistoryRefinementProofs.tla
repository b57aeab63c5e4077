----------------------- MODULE HistoryRefinementProofs -----------------------
(***************************************************************************)
(* History implements RevisionedStore, the promise made to its watchers,   *)
(* for every value of the constants: every step of the saver, of a request *)
(* or of the surroundings is a change that is owed an announcement, an     *)
(* announcement, the end or the start of the process, or nothing at all    *)
(* to a watcher.                                                           *)
(***************************************************************************)
EXTENDS HistoryProofs

Task == Clients \cup {"saver"}

\* The kinds of steps a watcher can tell apart.
Unseen == /\ Visible' = Visible
          /\ rev' = rev
          /\ PendingTasks' = PendingTasks
          /\ up' = up

Changes(t) == /\ up
              /\ up' = up
              /\ rev' = rev
              /\ PendingTasks' = PendingTasks \cup {t}

Announces(t) == /\ t \in PendingTasks
                /\ rev' = rev + 1
                /\ PendingTasks' = PendingTasks \ {t}
                /\ Visible' = Visible
                /\ up' = up

Dies == /\ up
        /\ ~up'
        /\ rev' = 1
        /\ PendingTasks' = {}
        /\ Visible' = Visible

Starts == /\ ~up
          /\ up'
          /\ rev' = rev
          /\ PendingTasks' = PendingTasks
          /\ Visible' = Visible

\* They are the steps of RevisionedStore.
LEMMA WatchedStep ==
  ASSUME Unseen \/ (\E t \in Task : Changes(t) \/ Announces(t)) \/ Dies \/ Starts,
         up \in BOOLEAN, up' \in BOOLEAN
  PROVE  [Store!StoreNext]_(Store!storeVars)
<1>1. CASE Unseen
  BY <1>1 DEF Unseen, Store!storeVars
<1>2. ASSUME NEW t \in Task, Changes(t) PROVE Store!StoreNext
  <2>1. Store!Change(t)
    BY <1>2 DEF Changes, Store!Change
  <2> QED
    BY <2>1 DEF Task, Store!StoreNext
<1>3. ASSUME NEW t \in Task, Announces(t) PROVE Store!StoreNext
  <2>1. Store!Advance(t)
    BY <1>3 DEF Announces, Store!Advance
  <2> QED
    BY <2>1 DEF Task, Store!StoreNext
<1>4. CASE Dies
  <2>1. Store!Die
    BY <1>4 DEF Dies, Store!Die
  <2> QED
    BY <2>1 DEF Store!StoreNext
<1>5. CASE Starts
  <2>1. Store!Start
    BY <1>5 DEF Starts, Store!Start
  <2> QED
    BY <2>1 DEF Store!StoreNext
<1> QED
  BY <1>1, <1>2, <1>3, <1>4, <1>5

-----------------------------------------------------------------------------
(* Who owes an announcement *)

\* Who owes an announcement, task by task.
LEMMA Owing ==
  /\ "saver" \in PendingTasks <=> SaverOwes
  /\ \A c \in Clients : c \in PendingTasks <=> client[c].pc = "announce"
  BY ClientAssumption DEF PendingTasks

\* How a step of the saver changes what is owed ...
LEMMA SaverPending ==
  ASSUME client' = client
  PROVE  /\ SaverOwes' => PendingTasks' = PendingTasks \cup {"saver"}
         /\ ~SaverOwes' => PendingTasks' = PendingTasks \ {"saver"}
  BY ClientAssumption DEF PendingTasks

\* ... and how a step of a request does.
LEMMA RequestPending ==
  ASSUME NEW c \in Clients, saver' = saver,
         \A d \in Clients \ {c} : client'[d] = client[d]
  PROVE  /\ client'[c].pc = "announce" => PendingTasks' = PendingTasks \cup {c}
         /\ client'[c].pc # "announce" => PendingTasks' = PendingTasks \ {c}
<1>1. SaverOwes' <=> SaverOwes
  BY DEF SaverOwes
<1> QED
  BY <1>1, ClientAssumption DEF PendingTasks

\* GetHistory shows what the rows say.
LEMMA SameRows == rows' = rows => Visible' = Visible
  BY DEF Visible

\* When the process ends, so do the debts.
LEMMA ExitDies ==
  ASSUME up, Exit, rows' = rows
  PROVE  Dies
<1>1. PendingTasks' = {}
  BY DEF Exit, IdleSaver, IdleClient, PendingTasks, SaverOwes
<1> QED
  BY <1>1, SameRows DEF Exit, Dies

\* A statement that names rows that are gone removes nothing.
LEMMA NothingRemoved ==
  ASSUME TypeOK, NEW S, S \cap DOMAIN rows = {}
  PROVE  Without(S) = rows
<1>1. DOMAIN rows \ S = DOMAIN rows
  OBVIOUS
<1> QED
  BY <1>1 DEF Without, TypeOK

-----------------------------------------------------------------------------
(* Initial states and steps *)

\* The initial states are those of RevisionedStore.
LEMMA StoreInitial == Init => Store!StoreInit
<1> SUFFICES ASSUME Init PROVE Store!StoreInit
  OBVIOUS
<1>1. PendingTasks = {}
  BY DEF Init, IdleSaver, IdleClient, PendingTasks, SaverOwes
<1> QED
  BY <1>1 DEF Init, Store!StoreInit

\* Every step is one of the kinds of steps a watcher can tell apart.
LEMMA StepsSeen ==
  ASSUME TypeInv, TypeInv', [Next]_vars
  PROVE  Unseen \/ (\E t \in Task : Changes(t) \/ Announces(t)) \/ Dies \/ Starts
<1> USE DEF Task
<1>1. CASE \E c \in Contents : Save(c)
  <2>1. rows' = rows /\ rev' = rev /\ up' = up /\ client' = client
    BY <1>1 DEF Save
  <2>2. ~SaverOwes /\ ~SaverOwes'
    BY <1>1 DEF Save, IdleSaver, SaverOwes
  <2>3. Unseen
    BY <2>1, <2>2, SameRows, SaverPending, Owing DEF Unseen
  <2> QED
    BY <2>3
<1>2. CASE FindText
  <2>1. rows' = rows /\ rev' = rev /\ up /\ up' = up /\ client' = client
    BY <1>2 DEF FindText, SaverUnchanged, TypeInv, SaverWorks
  <2>2. ~SaverOwes
    BY <1>2 DEF FindText, SaverOwes
  <2>3. CASE SaverOwes'
    BY <2>1, <2>3, SaverPending DEF Changes
  <2>4. CASE ~SaverOwes'
    BY <2>1, <2>2, <2>4, SameRows, SaverPending, Owing DEF Unseen
  <2> QED
    BY <2>3, <2>4
<1>3. CASE FindImage
  <2>1. rows' = rows /\ rev' = rev /\ up /\ up' = up /\ client' = client
    BY <1>3 DEF FindImage, SaverUnchanged, TypeInv, SaverWorks
  <2>2. ~SaverOwes
    BY <1>3 DEF FindImage, SaverOwes
  <2>3. CASE SaverOwes'
    BY <2>1, <2>3, SaverPending DEF Changes
  <2>4. CASE ~SaverOwes'
    BY <2>1, <2>2, <2>4, SameRows, SaverPending, Owing DEF Unseen
  <2> QED
    BY <2>3, <2>4
<1>4. CASE CheckFile
  <2>1. rows' = rows /\ rev' = rev /\ up' = up /\ client' = client
    BY <1>4 DEF CheckFile, SaverUnchanged
  <2>2. SaverOwes' <=> SaverOwes
    BY <1>4 DEF CheckFile, SaverOwes, TypeInv, TypeOK, SaverType
  <2>3. Unseen
    BY <2>1, <2>2, SameRows, SaverPending, Owing DEF Unseen
  <2> QED
    BY <2>3
<1>5. CASE Touch
  <2>1. up /\ rev' = rev /\ up' = up /\ client' = client
    BY <1>5 DEF Touch, SaverUnchanged, TypeInv, SaverWorks
  <2>2. SaverOwes'
    BY <1>5 DEF Touch, SaverOwes, TypeInv, TypeOK, SaverType
  <2>3. Changes("saver")
    BY <2>1, <2>2, SaverPending DEF Changes
  <2> QED
    BY <2>3
<1>6. CASE DropStaleRow
  <2>1. up /\ rev' = rev /\ up' = up /\ client' = client
    BY <1>6 DEF DropStaleRow, SaverUnchanged, TypeInv, SaverWorks
  <2>2. SaverOwes'
    BY <1>6 DEF DropStaleRow, SaverOwes, TypeInv, TypeOK, SaverType
  <2>3. Changes("saver")
    BY <2>1, <2>2, SaverPending DEF Changes
  <2> QED
    BY <2>3
<1>7. CASE DropStaleFile
  <2>1. rows' = rows /\ rev' = rev /\ up' = up /\ client' = client
    BY <1>7 DEF DropStaleFile, SaverUnchanged
  <2>2. SaverOwes' <=> SaverOwes
    BY <1>7 DEF DropStaleFile, SaverOwes, TypeInv, TypeOK, SaverType
  <2>3. Unseen
    BY <2>1, <2>2, SameRows, SaverPending, Owing DEF Unseen
  <2> QED
    BY <2>3
<1>8. CASE WriteTemp
  <2>1. rows' = rows /\ rev' = rev /\ up' = up /\ client' = client
    BY <1>8 DEF WriteTemp, SaverUnchanged
  <2>2. SaverOwes' <=> SaverOwes
    BY <1>8 DEF WriteTemp, SaverOwes, TypeInv, TypeOK, SaverType
  <2>3. Unseen
    BY <2>1, <2>2, SameRows, SaverPending, Owing DEF Unseen
  <2> QED
    BY <2>3
<1>9. CASE CommitFile
  <2>1. rows' = rows /\ rev' = rev /\ up' = up /\ client' = client
    BY <1>9 DEF CommitFile, SaverUnchanged
  <2>2. SaverOwes' <=> SaverOwes
    BY <1>9 DEF CommitFile, SaverOwes, TypeInv, TypeOK, SaverType
  <2>3. Unseen
    BY <2>1, <2>2, SameRows, SaverPending, Owing DEF Unseen
  <2> QED
    BY <2>3
<1>10. CASE WriteFails
  BY <1>10, ExitDies DEF WriteFails, TypeInv, SaverWorks
<1>11. CASE Insert
  <2>1. up /\ rev' = rev /\ up' = up /\ client' = client
    BY <1>11 DEF Insert, SaverUnchanged, TypeInv, SaverWorks
  <2>2. SaverOwes'
    BY <1>11 DEF Insert, SaverOwes, TypeInv, TypeOK, SaverType
  <2>3. Changes("saver")
    BY <2>1, <2>2, SaverPending DEF Changes
  <2> QED
    BY <2>3
<1>12. CASE InsertFails
  <2>1. rows' = rows /\ rev' = rev /\ up' = up /\ client' = client
    BY <1>12 DEF InsertFails, SaverUnchanged
  <2>2. SaverOwes' <=> SaverOwes
    BY <1>12 DEF InsertFails, SaverOwes, TypeInv, TypeOK, SaverType
  <2>3. Unseen
    BY <2>1, <2>2, SameRows, SaverPending, Owing DEF Unseen
  <2> QED
    BY <2>3
<1>13. CASE RollbackFile
  BY <1>13, ExitDies DEF RollbackFile, TypeInv, SaverWorks
<1>14. CASE CountRows
  <2>1. rows' = rows /\ rev' = rev /\ up' = up /\ client' = client
    BY <1>14 DEF CountRows, SaverUnchanged
  <2>2. SaverOwes' <=> SaverOwes
    BY <1>14 DEF CountRows, SaverOwes, TypeInv, TypeOK, SaverType
  <2>3. Unseen
    BY <2>1, <2>2, SameRows, SaverPending, Owing DEF Unseen
  <2> QED
    BY <2>3
<1>15. CASE SelectVictims
  <2>1. rows' = rows /\ rev' = rev /\ up' = up /\ client' = client
    BY <1>15 DEF SelectVictims, SaverUnchanged
  <2>2. SaverOwes' <=> SaverOwes
    BY <1>15 DEF SelectVictims, SaverOwes, TypeInv, TypeOK, SaverType
  <2>3. Unseen
    BY <2>1, <2>2, SameRows, SaverPending, Owing DEF Unseen
  <2> QED
    BY <2>3
<1>16. CASE Evict
  <2>1. up /\ rev' = rev /\ up' = up /\ client' = client
    BY <1>16 DEF Evict, SaverUnchanged, TypeInv, SaverWorks
  <2>2. SaverOwes'
    BY <1>16 DEF Evict, SaverOwes, TypeInv, TypeOK, SaverType
  <2>3. Changes("saver")
    BY <2>1, <2>2, SaverPending DEF Changes
  <2> QED
    BY <2>3
<1>17. CASE Prune
  <2>1. rows' = rows /\ rev' = rev /\ up' = up /\ client' = client
    BY <1>17 DEF Prune, SaverUnchanged
  <2>2. SaverOwes' <=> SaverOwes
    BY <1>17 DEF Prune, SaverOwes, TypeInv, TypeOK, SaverType
  <2>3. Unseen
    BY <2>1, <2>2, SameRows, SaverPending, Owing DEF Unseen
  <2> QED
    BY <2>3
<1>18. CASE AnnounceSave
  <2>1. rows' = rows /\ rev' = rev + 1 /\ up' = up /\ client' = client
    BY <1>18 DEF AnnounceSave, SaverUnchanged
  <2>2. SaverOwes /\ ~SaverOwes'
    BY <1>18 DEF AnnounceSave, IdleSaver, SaverOwes
  <2>3. Announces("saver")
    BY <2>1, <2>2, SameRows, SaverPending, Owing DEF Announces
  <2> QED
    BY <2>3
<1>19. CASE \E c \in Clients : \E i \in DOMAIN rows : BeginDelete(c, i)
  <2>1. PICK c \in Clients, i \in DOMAIN rows : BeginDelete(c, i)
    BY <1>19
  <2>2. rows' = rows /\ rev' = rev /\ up' = up /\ saver' = saver
    BY <2>1 DEF BeginDelete, ClientUnchanged
  <2>3. /\ \A d \in Clients \ {c} : client'[d] = client[d]
        /\ client[c].pc # "announce" /\ client'[c].pc # "announce"
    BY <2>1 DEF BeginDelete, StartRequest, TypeInv, TypeOK, ClientType
  <2>4. Unseen
    BY <2>2, <2>3, SameRows, RequestPending, Owing DEF Unseen
  <2> QED
    BY <2>4
<1>20. CASE \E c \in Clients : DeleteRow(c)
  <2>1. PICK c \in Clients : DeleteRow(c)
    BY <1>20
  <2>2. rev' = rev /\ up /\ up' = up /\ saver' = saver
    BY <2>1 DEF DeleteRow, ClientUnchanged, TypeInv, ClientWorks
  <2>3. /\ \A d \in Clients \ {c} : client'[d] = client[d]
        /\ client[c].pc # "announce"
    BY <2>1 DEF DeleteRow, IdleClient, TypeInv, TypeOK, ClientType
  <2>4. CASE client'[c].pc = "announce"
    BY <2>2, <2>3, <2>4, RequestPending DEF Changes
  <2>5. CASE client'[c].pc # "announce"
    <3>1. rows' = rows
      BY <2>1, <2>5, NothingRemoved DEF DeleteRow, IdleClient, TypeInv, TypeOK, ClientType
    <3> QED
      BY <2>2, <2>3, <2>5, <3>1, SameRows, RequestPending, Owing DEF Unseen
  <2> QED
    BY <2>4, <2>5
<1>21. CASE \E c \in Clients : BeginClear(c)
  <2>1. PICK c \in Clients : BeginClear(c)
    BY <1>21
  <2>2. rows' = rows /\ rev' = rev /\ up' = up /\ saver' = saver
    BY <2>1 DEF BeginClear, ClientUnchanged
  <2>3. /\ \A d \in Clients \ {c} : client'[d] = client[d]
        /\ client[c].pc # "announce" /\ client'[c].pc # "announce"
    BY <2>1 DEF BeginClear, StartRequest, TypeInv, TypeOK, ClientType
  <2>4. Unseen
    BY <2>2, <2>3, SameRows, RequestPending, Owing DEF Unseen
  <2> QED
    BY <2>4
<1>22. CASE \E c \in Clients : ClearRows(c)
  <2>1. PICK c \in Clients : ClearRows(c)
    BY <1>22
  <2>2. rev' = rev /\ up /\ up' = up /\ saver' = saver
    BY <2>1 DEF ClearRows, ClientUnchanged, TypeInv, ClientWorks
  <2>3. /\ \A d \in Clients \ {c} : client'[d] = client[d]
        /\ client[c].pc # "announce"
    BY <2>1 DEF ClearRows, TypeInv, TypeOK, ClientType
  <2>4. CASE client'[c].pc = "announce"
    BY <2>2, <2>3, <2>4, RequestPending DEF Changes
  <2>5. CASE client'[c].pc # "announce"
    <3>1. rows' = rows
      BY <2>1, <2>5, NothingRemoved DEF ClearRows, TypeInv, TypeOK, ClientType
    <3> QED
      BY <2>2, <2>3, <2>5, <3>1, SameRows, RequestPending, Owing DEF Unseen
  <2> QED
    BY <2>4, <2>5
<1>23. CASE \E c \in Clients : \E i \in DOMAIN rows : BeginToggle(c, i)
  <2>1. PICK c \in Clients, i \in DOMAIN rows : BeginToggle(c, i)
    BY <1>23
  <2>2. rows' = rows /\ rev' = rev /\ up' = up /\ saver' = saver
    BY <2>1 DEF BeginToggle, ClientUnchanged
  <2>3. /\ \A d \in Clients \ {c} : client'[d] = client[d]
        /\ client[c].pc # "announce" /\ client'[c].pc # "announce"
    BY <2>1 DEF BeginToggle, StartRequest, TypeInv, TypeOK, ClientType
  <2>4. Unseen
    BY <2>2, <2>3, SameRows, RequestPending, Owing DEF Unseen
  <2> QED
    BY <2>4
<1>24. CASE \E c \in Clients : Pin(c)
  <2>1. PICK c \in Clients : Pin(c)
    BY <1>24
  <2>2. rev' = rev /\ up /\ up' = up /\ saver' = saver
    BY <2>1 DEF Pin, ClientUnchanged, TypeInv, ClientWorks
  <2>3. /\ \A d \in Clients \ {c} : client'[d] = client[d]
        /\ client[c].pc # "announce"
    BY <2>1 DEF Pin, SetPinned, IdleClient, TypeInv, TypeOK, ClientType
  <2>4. CASE client'[c].pc = "announce"
    BY <2>2, <2>3, <2>4, RequestPending DEF Changes
  <2>5. CASE client'[c].pc # "announce"
    <3>1. rows' = rows
      BY <2>1, <2>5 DEF Pin, SetPinned, IdleClient, TypeInv, TypeOK, ClientType
    <3> QED
      BY <2>2, <2>3, <2>5, <3>1, SameRows, RequestPending, Owing DEF Unseen
  <2> QED
    BY <2>4, <2>5
<1>25. CASE \E c \in Clients : Unpin(c)
  <2>1. PICK c \in Clients : Unpin(c)
    BY <1>25
  <2>2. rev' = rev /\ up /\ up' = up /\ saver' = saver
    BY <2>1 DEF Unpin, ClientUnchanged, TypeInv, ClientWorks
  <2>3. /\ \A d \in Clients \ {c} : client'[d] = client[d]
        /\ client[c].pc # "announce"
    BY <2>1 DEF Unpin, SetPinned, IdleClient, TypeInv, TypeOK, ClientType
  <2>4. CASE client'[c].pc = "announce"
    BY <2>2, <2>3, <2>4, RequestPending DEF Changes
  <2>5. CASE client'[c].pc # "announce"
    <3>1. rows' = rows
      BY <2>1, <2>5 DEF Unpin, SetPinned, IdleClient, TypeInv, TypeOK, ClientType
    <3> QED
      BY <2>2, <2>3, <2>5, <3>1, SameRows, RequestPending, Owing DEF Unseen
  <2> QED
    BY <2>4, <2>5
<1>26. CASE \E c \in Clients : \E i \in DOMAIN rows : Promote(c, i)
  <2>1. PICK c \in Clients, i \in DOMAIN rows : Promote(c, i)
    BY <1>26
  <2>2. rev' = rev /\ up /\ up' = up /\ saver' = saver
    BY <2>1 DEF Promote, StartRequest, ClientUnchanged
  <2>3. /\ \A d \in Clients \ {c} : client'[d] = client[d]
        /\ client'[c].pc = "announce"
    BY <2>1 DEF Promote, TypeInv, TypeOK, ClientType
  <2> QED
    BY <2>2, <2>3, RequestPending DEF Changes
<1>27. CASE \E c \in Clients : AnnounceRequest(c)
  <2>1. PICK c \in Clients : AnnounceRequest(c)
    BY <1>27
  <2>2. rows' = rows /\ rev' = rev + 1 /\ up' = up /\ saver' = saver
    BY <2>1 DEF AnnounceRequest, ClientUnchanged
  <2>3. /\ \A d \in Clients \ {c} : client'[d] = client[d]
        /\ client[c].pc = "announce" /\ client'[c].pc # "announce"
    BY <2>1 DEF AnnounceRequest, TypeInv, TypeOK, ClientType
  <2>4. Announces(c)
    BY <2>2, <2>3, SameRows, RequestPending, Owing DEF Announces
  <2> QED
    BY <2>4
<1>28. CASE \E c \in Clients : UnlinkFiles(c)
  <2>1. PICK c \in Clients : UnlinkFiles(c)
    BY <1>28
  <2>2. rows' = rows /\ rev' = rev /\ up' = up /\ saver' = saver
    BY <2>1 DEF UnlinkFiles, ClientUnchanged
  <2>3. /\ \A d \in Clients \ {c} : client'[d] = client[d]
        /\ client[c].pc # "announce" /\ client'[c].pc # "announce"
    BY <2>1 DEF UnlinkFiles, IdleClient, TypeInv, TypeOK, ClientType
  <2>4. Unseen
    BY <2>2, <2>3, SameRows, RequestPending, Owing DEF Unseen
  <2> QED
    BY <2>4
<1>29. CASE \E c \in Clients : RequestFails(c)
  <2>1. PICK c \in Clients : RequestFails(c)
    BY <1>29
  <2>2. rows' = rows /\ rev' = rev /\ up' = up /\ saver' = saver
    BY <2>1 DEF RequestFails, ClientUnchanged
  <2>3. /\ \A d \in Clients \ {c} : client'[d] = client[d]
        /\ client[c].pc # "announce" /\ client'[c].pc # "announce"
    BY <2>1 DEF RequestFails, IdleClient, TypeInv, TypeOK, ClientType
  <2>4. Unseen
    BY <2>2, <2>3, SameRows, RequestPending, Owing DEF Unseen
  <2> QED
    BY <2>4
<1>30. CASE Crash
  BY <1>30, ExitDies DEF Crash
<1>31. CASE Restart
  <2>1. PendingTasks' = PendingTasks
    BY <1>31 DEF Restart, PendingTasks, SaverOwes
  <2> QED
    BY <1>31, <2>1, SameRows DEF Restart, Starts
<1>32. CASE \E i \in files : LoseFile(i)
  <2>1. PendingTasks' = PendingTasks
    BY <1>32 DEF LoseFile, PendingTasks, SaverOwes
  <2> QED
    BY <1>32, <2>1, SameRows DEF LoseFile, Unseen
<1>33. CASE UNCHANGED vars
  <2>1. PendingTasks' = PendingTasks
    BY <1>33 DEF vars, PendingTasks, SaverOwes
  <2> QED
    BY <1>33, <2>1, SameRows DEF vars, Unseen
<1> QED
  BY <1>1, <1>2, <1>3, <1>4, <1>5, <1>6, <1>7, <1>8, <1>9, <1>10, <1>11, <1>12, <1>13, <1>14,
     <1>15, <1>16, <1>17, <1>18, <1>19, <1>20, <1>21, <1>22, <1>23, <1>24, <1>25, <1>26,
     <1>27, <1>28, <1>29, <1>30, <1>31, <1>32, <1>33
     DEF Next, SaverStep, Request, RequestStep

\* So it is a step of RevisionedStore.
LEMMA StoreStep == TypeInv /\ TypeInv' /\ [Next]_vars => [Store!StoreNext]_(Store!storeVars)
<1> SUFFICES ASSUME TypeInv, TypeInv', [Next]_vars
             PROVE  [Store!StoreNext]_(Store!storeVars)
  OBVIOUS
<1>1. Unseen \/ (\E t \in Task : Changes(t) \/ Announces(t)) \/ Dies \/ Starts
  BY StepsSeen
<1> QED
  BY <1>1, WatchedStep DEF TypeInv, TypeOK

\* Whatever changes what GetHistory shows is followed by an advance of the
\* revision, in every execution: History implements RevisionedStore.
THEOREM ChangesAnnounced == Spec => EveryChangeAnnounced
<1>1. Init => TypeInv
  BY TypeInit
<1> QED
  BY <1>1, TypeStep, StoreInitial, StoreStep, PTL
     DEF Spec, EveryChangeAnnounced, Store!StoreSpec
=============================================================================
