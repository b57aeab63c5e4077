------------------------------ MODULE History ------------------------------
(***************************************************************************)
(* crates/history and crates/storage: the clipboard history of the daemon. *)
(*                                                                         *)
(* One saver (the main task of daemon/src/main.rs, which runs              *)
(* history_service.save inline) and several IPC connection tasks share an  *)
(* SQLite table, a directory of PNG files and a revision counter.  Every   *)
(* SQL statement and every file operation is an await point, so each is an *)
(* action of its own; between two of them any other task may run.          *)
(*                                                                         *)
(* Data.  A content identity (the SHA-256 of a text, the rgba-v1 hash of   *)
(* an image) is a member of Texts or Images.  A row's id is a number       *)
(* handed out by `clock', which also serves as created_at, so the uuids    *)
(* are unique and ORDER BY created_at is an order on numbers.  pinned_at   *)
(* keeps only whether it is set.  The file of row i is named i, as         *)
(* ImageStore::relative_path_for names it after the item id.               *)
(***************************************************************************)
EXTENDS Integers, FiniteSets, Sequences

CONSTANTS
  Texts, Images,  \* content identities, by kind
  None,           \* no content
  Clients,        \* IPC connection tasks
  MaxItems,       \* HistoryConfig.max_items
  InitRows,       \* rows left by earlier sessions, oldest first
  Ops,            \* the client requests that are enabled
  Faults,         \* the faults that are enabled
  MaxClock,       \* bound: ids and timestamps handed out
  MaxRev,         \* bound: no operation starts at a higher revision
  MaxLost         \* bound: image files removed behind the daemon's back

Contents == Texts \cup Images

AllOps == {"delete", "clear", "toggle", "promote"}

\* "crash": the daemon dies anywhere; "write": an image file cannot be
\* written; "unlink": a file cannot be removed; "db": a statement fails;
\* "lose": somebody else removes an image file.
AllFaults == {"crash", "write", "unlink", "db", "lose"}

\* `legacy' rows carry the digest used before rgba-v1, which no lookup by
\* the current identity finds.
Row == [content : Contents, created : Nat, pinned : BOOLEAN, legacy : BOOLEAN]

ASSUME ContentAssumption ==
  /\ Texts \cap Images = {}
  /\ None \notin Contents

ASSUME ClientAssumption == {"saver", "migration"} \cap Clients = {}

ASSUME LimitAssumption ==
  /\ MaxItems \in Nat
  /\ MaxClock \in Nat
  /\ MaxRev \in Nat
  /\ MaxLost \in Nat

ASSUME FaultAssumption == Ops \subseteq AllOps /\ Faults \subseteq AllFaults

\* What earlier sessions leave: at most one row per current identity, and
\* only images can carry a legacy digest.
ASSUME InitRowsAssumption ==
  /\ InitRows \in Seq([content : Contents, pinned : BOOLEAN, legacy : BOOLEAN])
  /\ \A i \in 1..Len(InitRows) :
       InitRows[i].legacy => InitRows[i].content \in Images
  /\ \A i, j \in 1..Len(InitRows) :
       /\ ~InitRows[i].legacy /\ ~InitRows[j].legacy
       /\ InitRows[i].content = InitRows[j].content
       => i = j

VARIABLES
  rows,    \* clipboard_items: live ids -> Row
  files,   \* ids whose images/<id>.png exists
  temps,   \* ids whose .pookie-image-*.tmp exists
  lost,    \* ids whose file was removed by somebody else
  rev,     \* HistoryRevisionNotifier
  gate,    \* owner of image_mutation_gate, or "free"
  saver,   \* the save in progress
  client,  \* the request in progress on each connection
  clock,   \* last id and timestamp handed out
  up       \* the daemon process is alive

vars == <<rows, files, temps, lost, rev, gate, saver, client, clock, up>>

-----------------------------------------------------------------------------
(* The rows *)

IsImage(i) == rows[i].content \in Images

ImageIds == {i \in DOMAIN rows : IsImage(i)}

Without(S) == [i \in DOMAIN rows \ S |-> rows[i]]

\* StorageRepository::find_by_hash_and_type
Matches(c) == {i \in DOMAIN rows : rows[i].content = c /\ ~rows[i].legacy}

Unpinned == {i \in DOMAIN rows : ~rows[i].pinned}

\* StorageRepository::get_oldest
Oldest(n) ==
  {i \in Unpinned :
     Cardinality({j \in Unpinned : rows[j].created < rows[i].created}) < n}

\* What GetHistory shows of a table.
Visible ==
  [i \in DOMAIN rows |->
     [content |-> rows[i].content,
      created |-> rows[i].created,
      pinned  |-> rows[i].pinned]]

-----------------------------------------------------------------------------
(* The tasks *)

\* HistoryMigration adds the second owner.
GateOwners == {"saver", "migration"}

SaverPcs == {"idle", "find", "check", "touch", "drop_row", "drop_file",
             "write", "rename", "insert", "rollback", "count", "oldest",
             "evict", "prune", "announce"}

\* id: the new item's; found: the row with the same identity; pin: the
\* pinned_at to carry over; excess, victims, prune: enforce_limit's locals.
IdleSaver ==
  [pc |-> "idle", content |-> None, id |-> 0, found |-> 0, pin |-> FALSE,
   excess |-> 0, victims |-> {}, prune |-> {}]

ClientPcs == {"idle", "delete", "clear", "pin", "unpin", "announce", "unlink"}

\* id: the item the request names; files: what is left to unlink.
IdleClient == [pc |-> "idle", id |-> 0, files |-> {}]

AllIdle == saver.pc = "idle" /\ \A c \in Clients : client[c].pc = "idle"

Init ==
  /\ rows = [i \in 1..Len(InitRows) |->
               [content |-> InitRows[i].content,
                created |-> i,
                pinned  |-> InitRows[i].pinned,
                legacy  |-> InitRows[i].legacy]]
  /\ files = {i \in 1..Len(InitRows) : InitRows[i].content \in Images}
  /\ temps = {}
  /\ lost = {}
  /\ rev = 1
  /\ gate = "free"
  /\ saver = IdleSaver
  /\ client = [c \in Clients |-> IdleClient]
  /\ clock = Len(InitRows)
  /\ up = TRUE

\* ImageStore::delete_image, whose failures every caller only logs.
Unlink(i) ==
  \/ files' = files \ {i}
  \/ "unlink" \in Faults /\ i \in files /\ files' = files

\* As Exit, with a counter that starts at 0.
ExitZeroRevision ==
  /\ up' = FALSE
  /\ rev' = 0
  /\ gate' = "free"
  /\ saver' = IdleSaver
  /\ client' = [c \in Clients |-> IdleClient]

\* The process ends: what was only in memory is gone.
Exit ==
  /\ up' = FALSE
  /\ rev' = 1
  /\ gate' = "free"
  /\ saver' = IdleSaver
  /\ client' = [c \in Clients |-> IdleClient]

-----------------------------------------------------------------------------
(* save: the main task takes one clipboard event at a time *)

SaverUnchanged == UNCHANGED <<lost, client, clock, up>>

\* An event that passed the self-write check and the policy is handed to save.
Save(c) ==
  /\ up
  /\ saver.pc = "idle"
  /\ clock < MaxClock
  /\ rev < MaxRev
  /\ clock' = clock + 1
  /\ saver' = [IdleSaver EXCEPT !.pc = "find", !.content = c, !.id = clock + 1]
  /\ UNCHANGED <<rows, files, temps, lost, rev, gate, client, up>>

\* save_text: find_by_hash_and_type(hash, "text")
FindText ==
  /\ saver.pc = "find"
  /\ saver.content \in Texts
  /\ \/ \E i \in Matches(saver.content) :
          saver' = [saver EXCEPT !.pc = "touch", !.found = i]
     \/ /\ Matches(saver.content) = {}
        /\ saver' = [saver EXCEPT !.pc = "insert"]
  /\ UNCHANGED <<rows, files, temps, rev, gate>>
  /\ SaverUnchanged

\* save_image: take image_mutation_gate, then find_by_hash_and_type(hash, "image")
FindImage ==
  /\ saver.pc = "find"
  /\ saver.content \in Images
  /\ gate = "free"
  /\ gate' = "saver"
  /\ \/ \E i \in Matches(saver.content) :
          saver' = [saver EXCEPT !.pc = "check", !.found = i,
                                 !.pin = rows[i].pinned]
     \/ /\ Matches(saver.content) = {}
        /\ saver' = [saver EXCEPT !.pc = "write"]
  /\ UNCHANGED <<rows, files, temps, rev>>
  /\ SaverUnchanged

\* As CheckFile, without pinned_at = existing.pinned_at.
CheckFileDropsPin ==
  /\ saver.pc = "check"
  /\ saver' = [saver EXCEPT !.pc = IF saver.found \in files
                                     THEN "touch" ELSE "drop_row",
                            !.pin = FALSE]
  /\ UNCHANGED <<rows, files, temps, rev, gate>>
  /\ SaverUnchanged

\* save_image: image_exists.  Only a missing file carries the pin over.
CheckFile ==
  /\ saver.pc = "check"
  /\ saver' = IF saver.found \in files
                THEN [saver EXCEPT !.pc = "touch", !.pin = FALSE]
                ELSE [saver EXCEPT !.pc = "drop_row"]
  /\ UNCHANGED <<rows, files, temps, rev, gate>>
  /\ SaverUnchanged

\* As Touch, without the return after the promotion.
TouchFallsThrough ==
  /\ saver.pc = "touch"
  /\ rows' = [i \in DOMAIN rows |->
                IF i = saver.found THEN [rows[i] EXCEPT !.created = saver.id]
                ELSE rows[i]]
  /\ saver' = [saver EXCEPT !.pc = IF saver.content \in Images
                                     THEN "write" ELSE "insert"]
  /\ UNCHANGED <<files, temps, rev, gate>>
  /\ SaverUnchanged

\* update_created_at on the row found; a row deleted meanwhile is saved anew.
Touch ==
  /\ saver.pc = "touch"
  /\ \/ /\ saver.found \in DOMAIN rows
        /\ rows' = [rows EXCEPT ![saver.found].created = saver.id]
        /\ saver' = [saver EXCEPT !.pc = "announce"]
     \/ /\ saver.found \notin DOMAIN rows
        /\ saver' = [saver EXCEPT !.pc = IF saver.content \in Images
                                           THEN "write" ELSE "insert"]
        /\ UNCHANGED rows
  /\ UNCHANGED <<files, temps, rev, gate>>
  /\ SaverUnchanged

\* Repair of a row whose file disappeared: delete_by_id ...
DropStaleRow ==
  /\ saver.pc = "drop_row"
  /\ rows' = Without({saver.found})
  /\ saver' = [saver EXCEPT !.pc = "drop_file"]
  /\ UNCHANGED <<files, temps, rev, gate>>
  /\ SaverUnchanged

\* ... then delete_image.
DropStaleFile ==
  /\ saver.pc = "drop_file"
  /\ Unlink(saver.found)
  /\ saver' = [saver EXCEPT !.pc = "write"]
  /\ UNCHANGED <<rows, temps, rev, gate>>
  /\ SaverUnchanged

\* ImageStore::write_image, first half: the temporary file.
WriteTemp ==
  /\ saver.pc = "write"
  /\ temps' = temps \cup {saver.id}
  /\ saver' = [saver EXCEPT !.pc = "rename"]
  /\ UNCHANGED <<rows, files, rev, gate>>
  /\ SaverUnchanged

\* ImageStore::write_image, second half: rename into place.
CommitFile ==
  /\ saver.pc = "rename"
  /\ temps' = temps \ {saver.id}
  /\ files' = files \cup {saver.id}
  /\ saver' = [saver EXCEPT !.pc = "insert"]
  /\ UNCHANGED <<rows, rev, gate>>
  /\ SaverUnchanged

\* write_image fails and removes its temporary file if it can; save returns
\* the error and main returns it.
WriteFails ==
  /\ "write" \in Faults
  /\ saver.pc \in {"write", "rename"}
  /\ \/ temps' = temps \ {saver.id}
     \/ temps' = temps
  /\ Exit
  /\ UNCHANGED <<rows, files, lost, clock>>

\* StorageRepository::insert
Insert ==
  /\ saver.pc = "insert"
  /\ rows' = [i \in DOMAIN rows \cup {saver.id} |->
                IF i = saver.id
                  THEN [content |-> saver.content, created |-> saver.id,
                        pinned |-> saver.pin, legacy |-> FALSE]
                  ELSE rows[i]]
  /\ saver' = [saver EXCEPT !.pc = "count"]
  /\ UNCHANGED <<files, temps, rev, gate>>
  /\ SaverUnchanged

\* The insert of an image fails: its file is rolled back first.
InsertFails ==
  /\ "db" \in Faults
  /\ saver.pc = "insert"
  /\ saver.content \in Images
  /\ saver' = [saver EXCEPT !.pc = "rollback"]
  /\ UNCHANGED <<rows, files, temps, rev, gate>>
  /\ SaverUnchanged

\* The rollback's delete_image; whatever it returns, save fails and main ends.
RollbackFile ==
  /\ saver.pc = "rollback"
  /\ Unlink(saver.id)
  /\ Exit
  /\ UNCHANGED <<rows, temps, lost, clock>>

\* As CountRows, one too lenient.
CountRowsLenient ==
  /\ saver.pc = "count"
  /\ saver' = IF Cardinality(DOMAIN rows) <= MaxItems + 1
                THEN [saver EXCEPT !.pc = "announce"]
                ELSE [saver EXCEPT !.pc = "oldest",
                                   !.excess = Cardinality(DOMAIN rows) - MaxItems]
  /\ UNCHANGED <<rows, files, temps, rev, gate>>
  /\ SaverUnchanged

\* enforce_limit: SELECT COUNT(*)
CountRows ==
  /\ saver.pc = "count"
  /\ saver' = IF Cardinality(DOMAIN rows) <= MaxItems
                THEN [saver EXCEPT !.pc = "announce"]
                ELSE [saver EXCEPT !.pc = "oldest",
                                   !.excess = Cardinality(DOMAIN rows) - MaxItems]
  /\ UNCHANGED <<rows, files, temps, rev, gate>>
  /\ SaverUnchanged

\* enforce_limit: get_oldest(excess)
SelectVictims ==
  /\ saver.pc = "oldest"
  /\ LET chosen == Oldest(saver.excess) IN
       saver' = [saver EXCEPT !.pc = IF chosen = {} THEN "announce" ELSE "evict",
                              !.victims = chosen,
                              !.prune = chosen \cap ImageIds]
  /\ UNCHANGED <<rows, files, temps, rev, gate>>
  /\ SaverUnchanged

\* enforce_limit: one DELETE of delete_by_ids.  It names an id and nothing
\* else: whether the row is still unpinned, or still the oldest, or whether
\* the table is still over its limit is not looked at again.
Evict ==
  /\ saver.pc = "evict"
  /\ \E v \in saver.victims :
       /\ rows' = Without({v})
       /\ saver' = [saver EXCEPT !.victims = @ \ {v},
                                 !.pc = IF saver.victims = {v}
                                          THEN "prune" ELSE "evict"]
  /\ UNCHANGED <<files, temps, rev, gate>>
  /\ SaverUnchanged

\* enforce_limit: cleanup_item_files over the rows chosen above.
Prune ==
  /\ saver.pc = "prune"
  /\ \/ \E v \in saver.prune :
          /\ Unlink(v)
          /\ saver' = [saver EXCEPT !.prune = @ \ {v}]
     \/ /\ saver.prune = {}
        /\ saver' = [saver EXCEPT !.pc = "announce"]
        /\ UNCHANGED files
  /\ UNCHANGED <<rows, temps, rev, gate>>
  /\ SaverUnchanged

\* notifier.advance(), and the gate is dropped as save_image returns.
AnnounceSave ==
  /\ saver.pc = "announce"
  /\ rev' = rev + 1
  /\ gate' = IF gate = "saver" THEN "free" ELSE gate
  /\ saver' = IdleSaver
  /\ UNCHANGED <<rows, files, temps>>
  /\ SaverUnchanged

SaverStep ==
  \/ FindText \/ FindImage \/ CheckFile \/ Touch
  \/ DropStaleRow \/ DropStaleFile
  \/ WriteTemp \/ CommitFile \/ WriteFails
  \/ Insert \/ InsertFails \/ RollbackFile
  \/ CountRows \/ SelectVictims \/ Evict \/ Prune
  \/ AnnounceSave

-----------------------------------------------------------------------------
(* The requests of the IPC connections *)

ClientUnchanged == UNCHANGED <<temps, lost, gate, saver, up>>

StartRequest(c, op) ==
  /\ up
  /\ op \in Ops
  /\ client[c].pc = "idle"
  /\ rev < MaxRev

\* delete: get_by_id
BeginDelete(c, i) ==
  /\ StartRequest(c, "delete")
  /\ i \in DOMAIN rows
  /\ client' = [client EXCEPT ![c] =
                  [pc |-> "delete", id |-> i, files |-> {i} \cap ImageIds]]
  /\ UNCHANGED <<rows, files, rev, clock>>
  /\ ClientUnchanged

\* As DeleteRow, without notifier.advance().
DeleteRowSilently(c) ==
  /\ client[c].pc = "delete"
  /\ rows' = Without({client[c].id})
  /\ client' = [client EXCEPT ![c] = IF client[c].id \in DOMAIN rows
                                       THEN [@ EXCEPT !.pc = "unlink"]
                                       ELSE IdleClient]
  /\ UNCHANGED <<files, rev, clock>>
  /\ ClientUnchanged

\* delete: delete_by_id; Ok(false) when somebody else was first.
DeleteRow(c) ==
  /\ client[c].pc = "delete"
  /\ rows' = Without({client[c].id})
  /\ client' = [client EXCEPT ![c] = IF client[c].id \in DOMAIN rows
                                       THEN [@ EXCEPT !.pc = "announce"]
                                       ELSE IdleClient]
  /\ UNCHANGED <<files, rev, clock>>
  /\ ClientUnchanged

\* clear: get_all, which decides the files that will be unlinked
BeginClear(c) ==
  /\ StartRequest(c, "clear")
  /\ client' = [client EXCEPT ![c] =
                  [pc |-> "clear", id |-> 0, files |-> ImageIds]]
  /\ UNCHANGED <<rows, files, rev, clock>>
  /\ ClientUnchanged

\* clear: DELETE FROM clipboard_items, whatever it holds by now
ClearRows(c) ==
  /\ client[c].pc = "clear"
  /\ rows' = Without(DOMAIN rows)
  /\ client' = [client EXCEPT ![c].pc = IF DOMAIN rows # {}
                                          THEN "announce" ELSE "unlink"]
  /\ UNCHANGED <<files, rev, clock>>
  /\ ClientUnchanged

\* toggle_pin: get_by_id decides the direction
BeginToggle(c, i) ==
  /\ StartRequest(c, "toggle")
  /\ i \in DOMAIN rows
  /\ client' = [client EXCEPT ![c] =
                  [pc |-> IF rows[i].pinned THEN "unpin" ELSE "pin",
                   id |-> i, files |-> {}]]
  /\ UNCHANGED <<rows, files, rev, clock>>
  /\ ClientUnchanged

\* pin and unpin: the UPDATE applies only to a row in the state it expects.
SetPinned(c, pinned) ==
  LET i == client[c].id
      hit == i \in DOMAIN rows /\ rows[i].pinned # pinned
  IN  /\ rows' = IF hit THEN [rows EXCEPT ![i].pinned = pinned] ELSE rows
      /\ client' = [client EXCEPT ![c] = IF hit
                                           THEN [@ EXCEPT !.pc = "announce"]
                                           ELSE IdleClient]

Pin(c) ==
  /\ client[c].pc = "pin"
  /\ SetPinned(c, TRUE)
  /\ UNCHANGED <<files, rev, clock>>
  /\ ClientUnchanged

Unpin(c) ==
  /\ client[c].pc = "unpin"
  /\ SetPinned(c, FALSE)
  /\ UNCHANGED <<files, rev, clock>>
  /\ ClientUnchanged

\* promote, the last database step of an activation
Promote(c, i) ==
  /\ StartRequest(c, "promote")
  /\ clock < MaxClock
  /\ i \in DOMAIN rows
  /\ clock' = clock + 1
  /\ rows' = [rows EXCEPT ![i].created = clock + 1]
  /\ client' = [client EXCEPT ![c].pc = "announce"]
  /\ UNCHANGED <<files, rev>>
  /\ ClientUnchanged

\* As AnnounceRequest, returning before cleanup_item_file.
AnnounceAndReturn(c) ==
  /\ client[c].pc = "announce"
  /\ rev' = rev + 1
  /\ client' = [client EXCEPT ![c] = IdleClient]
  /\ UNCHANGED <<rows, files, clock>>
  /\ ClientUnchanged

\* notifier.advance()
AnnounceRequest(c) ==
  /\ client[c].pc = "announce"
  /\ rev' = rev + 1
  /\ client' = [client EXCEPT ![c].pc = "unlink"]
  /\ UNCHANGED <<rows, files, clock>>
  /\ ClientUnchanged

\* cleanup_item_file(s), then the reply
UnlinkFiles(c) ==
  /\ client[c].pc = "unlink"
  /\ \/ \E i \in client[c].files :
          /\ Unlink(i)
          /\ client' = [client EXCEPT ![c].files = @ \ {i}]
     \/ /\ client[c].files = {}
        /\ client' = [client EXCEPT ![c] = IdleClient]
        /\ UNCHANGED files
  /\ UNCHANGED <<rows, rev, clock>>
  /\ ClientUnchanged

\* As RequestFails, cleaning up files although the statement failed.
RequestFailsLate(c) ==
  /\ "db" \in Faults
  /\ client[c].pc \in {"delete", "clear", "pin", "unpin"}
  /\ client' = [client EXCEPT ![c].pc = "unlink"]
  /\ UNCHANGED <<rows, files, rev, clock>>
  /\ ClientUnchanged

\* A statement fails; the request is answered with IpcResponse::Error.
RequestFails(c) ==
  /\ "db" \in Faults
  /\ client[c].pc \in {"delete", "clear", "pin", "unpin"}
  /\ client' = [client EXCEPT ![c] = IdleClient]
  /\ UNCHANGED <<rows, files, rev, clock>>
  /\ ClientUnchanged

RequestStep(c) ==
  \/ DeleteRow(c) \/ ClearRows(c) \/ Pin(c) \/ Unpin(c)
  \/ AnnounceRequest(c) \/ UnlinkFiles(c) \/ RequestFails(c)

Request(c) ==
  \/ BeginClear(c)
  \/ \E i \in DOMAIN rows :
       BeginDelete(c, i) \/ BeginToggle(c, i) \/ Promote(c, i)

-----------------------------------------------------------------------------
(* The process and its surroundings *)

\* The daemon dies, or main returns an error or obeys a signal: every task is
\* dropped at the await it has reached.
Crash ==
  /\ "crash" \in Faults
  /\ up
  /\ Exit
  /\ UNCHANGED <<rows, files, temps, lost, clock>>

\* main: a new daemon opens the database and runs reconcile_image_store
\* before any other task exists.
Restart ==
  /\ ~up
  /\ up' = TRUE
  /\ files' = files \cap ImageIds
  /\ temps' = {}
  /\ UNCHANGED <<rows, lost, rev, gate, saver, client, clock>>

\* Somebody else removes an image file.
LoseFile(i) ==
  /\ "lose" \in Faults
  /\ Cardinality(lost) < MaxLost
  /\ i \in files
  /\ files' = files \ {i}
  /\ lost' = lost \cup {i}
  /\ UNCHANGED <<rows, temps, rev, gate, saver, client, clock, up>>

Next ==
  \/ \E c \in Contents : Save(c)
  \/ SaverStep
  \/ \E c \in Clients : Request(c) \/ RequestStep(c)
  \/ Crash
  \/ Restart
  \/ \E i \in files : LoseFile(i)

Spec == Init /\ [][Next]_vars

\* Tokio polls every task that can run, and SQLite and the file system answer;
\* nothing obliges a user to send requests, or the daemon to be restarted.
Fairness ==
  /\ WF_vars(SaverStep)
  /\ \A c \in Clients : WF_vars(RequestStep(c))

FairSpec == Spec /\ Fairness

-----------------------------------------------------------------------------
(* Properties *)

SaverType ==
  [pc : SaverPcs, content : Contents \cup {None}, id : 0..clock,
   found : 0..clock, pin : BOOLEAN, excess : Nat,
   victims : SUBSET (1..clock), prune : SUBSET (1..clock)]

ClientType == [pc : ClientPcs, id : 0..clock, files : SUBSET (1..clock)]

TypeOK ==
  /\ DOMAIN rows \subseteq 1..clock
  /\ rows \in [DOMAIN rows -> Row]
  /\ files \subseteq 1..clock
  /\ temps \subseteq 1..clock
  /\ lost \subseteq 1..clock
  /\ rev \in Nat \ {0}
  /\ gate \in GateOwners \cup {"free"}
  /\ saver \in SaverType
  /\ client \in [Clients -> ClientType]
  /\ clock \in Nat
  /\ up \in BOOLEAN

\* A row of an image names a file that exists, unless somebody else removed
\* it: whatever mixture of saves, deletions, clears, evictions, failed writes
\* and crashes is under way, no cleanup ever reaches the file of a live row,
\* and no row is inserted before its file.  (docs/clipboard/overview.md,
\* "Dual-Layer Storage"; the order of the steps in save_image, delete, clear
\* and enforce_limit.)
NoDanglingImage == \A i \in ImageIds : i \in files \cup lost

\* No two rows carry the same current identity, so a copy always finds the one
\* row to promote.  The table has no UNIQUE index: this rests on the single
\* saver, and for images on image_mutation_gate.
UniqueIdentity == \A c \in Contents : Cardinality(Matches(c)) <= 1

\* While the daemon is idle, every image file and no temporary file is left
\* that a row does not name: each operation cleans up after itself even when
\* another one interferes.  It holds only without the faults and without
\* clear, whose list of files is older than the rows it deletes.
NoOrphanWhenIdle == up /\ AllIdle => files \subseteq ImageIds /\ temps = {}

\* Outside a save the table is within max_items: enforce_limit evicts as many
\* rows as the insert put it over the limit, although it counts, selects and
\* deletes in three steps that deletions and promotions may interleave.
CapacityKept == saver.pc = "idle" => Cardinality(DOMAIN rows) <= MaxItems

\* The saver holds in memory the pin of a row it is about to insert again.
CarriesPin(c) ==
  /\ saver.pc \in {"drop_file", "write", "rename", "insert", "rollback"}
  /\ saver.content = c
  /\ saver.pin

PinnedContent(c) ==
  CarriesPin(c) \/ \E i \in DOMAIN rows : rows[i].content = c /\ rows[i].pinned

\* A pinned content stays pinned until a request unpins, deletes or clears it,
\* or the daemon dies: a copy of it keeps the pin, also when its file is gone
\* and the row is replaced, and eviction passes it over.  It holds only while
\* nobody toggles pins during a save: the saver acts on the pin it read at its
\* lookup and on the victims it chose.  (docs/clipboard/overview.md, "In-Place
\* Duplicate Promotion" and "Pinned Item Protection".)
PinKept ==
  [][\A c \in Contents :
       PinnedContent(c) /\ ~PinnedContent(c)' => ~up' \/ client' # client]_vars

\* Eviction never removes a row that is pinned when its turn comes.
PinnedNeverEvicted ==
  [][saver.pc = "evict"
       => \A i \in DOMAIN rows \ DOMAIN rows' : ~rows[i].pinned]_vars

\* Every save ends, whatever the requests do meanwhile.
SaveEnds == saver.pc # "idle" ~> saver.pc = "idle"

-----------------------------------------------------------------------------
(* The promise to the watchers *)

\* From its first possible write until it announces, a save owes an advance.
SaverOwes == saver.pc \notin {"idle", "find", "check", "touch", "drop_row"}

PendingTasks ==
  {c \in Clients : client[c].pc = "announce"}
    \cup {t \in {"saver"} : SaverOwes}

Store == INSTANCE RevisionedStore
           WITH Tasks <- Clients \cup {"saver"},
                items <- Visible,
                pending <- PendingTasks

\* Whoever changes what GetHistory shows has advanced the revision before its
\* operation ends, or the daemon has died.
EveryChangeAnnounced == Store!StoreSpec
=============================================================================
