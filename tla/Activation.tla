----------------------------- MODULE Activation -----------------------------
(***************************************************************************)
(* Activations (daemon/src/activation_service.rs) write history items to   *)
(* the clipboard, promote them, restore the window the popup was opened    *)
(* from and paste; the watchers of Selection bring the daemon's own writes *)
(* back to the main task, which tells them from the user's copies by a     *)
(* marker (clipboard_state.rs).                                            *)
(*                                                                         *)
(* The main task and the connection tasks run on different threads, so an  *)
(* event may be handled between a write and its mark.                      *)
(*                                                                         *)
(* Data.  The history is reduced to which contents have a row, and under   *)
(* which id: History models the rest.  The 250 ms of focus_service.rs are  *)
(* a timeout that may happen at any poll.                                  *)
(***************************************************************************)
EXTENDS Selection

CONSTANTS
  Normal,   \* what a copy is recorded as, NoContent if the policy rejects it
  Clients,  \* connection tasks
  Windows,
  NoTarget,
  MaxOwned, \* bound: selections in a behaviour
  MaxIds    \* bound: row ids handed out

Items == {Normal[c] : c \in Copies} \ {NoContent}

ASSUME NormalAssumption ==
  /\ Normal \in [Copies -> Copies \cup {NoContent}]
  /\ \A c \in Copies : Normal[c] # NoContent => Normal[Normal[c]] = Normal[c]

ASSUME WindowAssumption == NoTarget \notin Windows

ASSUME InstanceAssumption ==
  \A i \in Instances : i.clients \subseteq Clients /\ i.windows \subseteq Windows

ASSUME BoundAssumption == MaxOwned \in Nat /\ MaxIds \in Nat

VARIABLES
  row,      \* the id of the row of each item, 0 if it has none
  lastId,
  marker,   \* ClipboardState.last_written
  main,     \* the serial the main task is saving, or 0
  act,      \* the activation on each connection
  active,   \* the window that has the focus
  dropped,  \* serials ignored as self-writes
  saved     \* serials recorded in the history

avars == <<selVars, row, lastId, marker, main, act, active, dropped, saved>>

daemonVars == <<row, lastId, marker, main, dropped, saved>>

ActPcs == {"idle", "read", "write", "mark", "promote", "restore", "poll", "paste"}

Outcomes == {"none", "Pasted", "ClipboardUpdated", "PasteFailed", "NotFound",
             "UnsupportedContent", "Error"}

\* did: what this activation has done, outcome: its answer.
IdleAct ==
  [pc |-> "idle", item |-> NoContent, id |-> 0, target |-> NoTarget,
   did |-> {}, outcome |-> "none"]

AInit ==
  /\ SelInit
  /\ row = [x \in Items |-> 0]
  /\ lastId = 0
  /\ marker = NoContent
  /\ main = 0
  /\ act = [c \in Clients |-> IdleAct]
  /\ active \in instance.windows
  /\ dropped = {}
  /\ saved = {}

-----------------------------------------------------------------------------
(* The user, the display server and the window manager *)

\* Activations under way have their write's place in `owned' reserved.
Room ==
  Len(owned) + Cardinality({c \in Clients : act[c].pc \in {"read", "write"}})
    < MaxOwned

Copy(c) ==
  /\ c \in instance.copies
  /\ Room
  /\ Own(c, "user")
  /\ UNCHANGED <<daemonVars, act, active>>

Close ==
  /\ Room
  /\ Vanish
  /\ UNCHANGED <<daemonVars, act, active>>

WatcherStep ==
  /\ Watch
  /\ UNCHANGED <<daemonVars, act, active>>

\* The window manager activates what it was asked to, or the user switches.
Focus(w) ==
  /\ w \in instance.windows \ {active}
  /\ active' = w
  /\ UNCHANGED <<selVars, daemonVars, act>>

-----------------------------------------------------------------------------
(* The main task *)

\* As Receive, not consuming the marker that matched.
ReceiveKeepsMarker ==
  /\ main = 0
  /\ channel # <<>>
  /\ channel' = Tail(channel)
  /\ LET k == Head(channel)
         self == owned[k].content = marker IN
       /\ dropped' = IF self THEN dropped \cup {k} ELSE dropped
       /\ main' = IF self \/ Normal[owned[k].content] = NoContent THEN 0 ELSE k
  /\ UNCHANGED <<instance, owned, unread, reading, missed, row, lastId, marker,
                 act, active, saved>>

\* An event: is_self_write, then normalisation and policy.
Receive ==
  /\ main = 0
  /\ channel # <<>>
  /\ channel' = Tail(channel)
  /\ LET k == Head(channel)
         self == owned[k].content = marker IN
       /\ marker' = IF self THEN NoContent ELSE marker
       /\ dropped' = IF self THEN dropped \cup {k} ELSE dropped
       /\ main' = IF self \/ Normal[owned[k].content] = NoContent THEN 0 ELSE k
  /\ UNCHANGED <<instance, owned, unread, reading, missed, row, lastId, act,
                 active, saved>>

\* As Save, inserting under an id that was not generated.
SaveUnnumbered ==
  /\ main # 0
  /\ row' = [row EXCEPT ![Normal[owned[main].content]] = lastId + 1]
  /\ saved' = saved \cup {main}
  /\ main' = 0
  /\ UNCHANGED <<selVars, lastId, marker, act, active, dropped>>

\* history_service.save: promote the row of that content or insert one.
Save ==
  /\ main # 0
  /\ LET x == Normal[owned[main].content] IN
       \/ /\ row[x] # 0
          /\ UNCHANGED <<row, lastId>>
       \/ /\ row[x] = 0
          /\ lastId' = lastId + 1
          /\ row' = [row EXCEPT ![x] = lastId + 1]
  /\ saved' = saved \cup {main}
  /\ main' = 0
  /\ UNCHANGED <<selVars, marker, act, active, dropped>>

\* A row is deleted or evicted.
Remove(x) ==
  /\ row[x] # 0
  /\ lastId < MaxIds
  /\ row' = [row EXCEPT ![x] = 0]
  /\ UNCHANGED <<selVars, lastId, marker, main, act, active, dropped, saved>>

-----------------------------------------------------------------------------
(* An activation *)

ActUnchanged == UNCHANGED <<daemonVars, active>>

Goto(c, pc) == act' = [act EXCEPT ![c].pc = pc]

\* Done with step `what', on to pc.
Did(c, what, pc) ==
  act' = [act EXCEPT ![c].pc = pc, ![c].did = @ \cup {what}]

\* Answered after step `what': the rest of the activation is forgotten.
Answers(c, what, outcome) ==
  act' = [act EXCEPT ![c] =
            [IdleAct EXCEPT !.did = act[c].did \cup what, !.outcome = outcome]]

Answer(c, outcome) == Answers(c, {}, outcome)

\* get_by_id finds the item, or does not; target is what CaptureFocusTarget
\* had returned.
Activate(c, x, w) ==
  /\ c \in instance.clients
  /\ w \in instance.windows \cup {NoTarget}
  /\ act[c].pc = "idle"
  /\ \/ /\ row[x] # 0
        /\ Room
        /\ act' = [act EXCEPT ![c] =
                     [IdleAct EXCEPT !.pc = "read", !.item = x, !.id = row[x],
                                     !.target = w]]
     \/ /\ row[x] = 0
        /\ act' = [act EXCEPT ![c] = [IdleAct EXCEPT !.outcome = "NotFound"]]
  /\ UNCHANGED selVars
  /\ ActUnchanged

\* The content: a text is at hand, an image is read and decoded, or is not.
ReadContent(c) ==
  /\ act[c].pc = "read"
  /\ Goto(c, "write") \/ Answer(c, "UnsupportedContent") \/ Answer(c, "Error")
  /\ UNCHANGED selVars
  /\ ActUnchanged

Locked == \E d \in Clients : act[d].pc = "mark"

\* clipboard_service.lock(), then backend.write_content
Write(c) ==
  /\ act[c].pc = "write"
  /\ ~Locked
  /\ Own(act[c].item, "pookie")
  /\ Did(c, "write", "mark")
  /\ ActUnchanged

\* As WriteFails, with the content marked before it is written.
WriteFailsMarked(c) ==
  /\ act[c].pc = "write"
  /\ ~Locked
  /\ marker' = act[c].item
  /\ Answer(c, "Error")
  /\ UNCHANGED <<selVars, row, lastId, main, active, dropped, saved>>

\* write_content fails: nothing is marked.
WriteFails(c) ==
  /\ act[c].pc = "write"
  /\ ~Locked
  /\ Answer(c, "Error")
  /\ UNCHANGED selVars
  /\ ActUnchanged

\* As Mark, when the guard of the mutex is never dropped.
MarkKeepsLock(c) ==
  /\ act[c].pc = "mark"
  /\ marker' = act[c].item
  /\ UNCHANGED <<selVars, row, lastId, main, dropped, saved, act, active>>

\* mark_written, and the mutex is released.
Mark(c) ==
  /\ act[c].pc = "mark"
  /\ marker' = act[c].item
  /\ Goto(c, "promote")
  /\ UNCHANGED <<selVars, row, lastId, main, dropped, saved, active>>

Promoted(c) == row[act[c].item] = act[c].id

\* As Promote, ignoring what promote returned.
PromoteUnchecked(c) ==
  /\ act[c].pc = "promote"
  /\ \/ /\ act[c].target = NoTarget
        /\ Answers(c, IF Promoted(c) THEN {"promote"} ELSE {}, "ClipboardUpdated")
     \/ /\ act[c].target # NoTarget
        /\ act' = [act EXCEPT ![c].pc = "restore",
                              ![c].did = IF Promoted(c) THEN @ \cup {"promote"} ELSE @]
  /\ UNCHANGED selVars
  /\ ActUnchanged

\* history_service.promote, and the end of an activation without a target.
Promote(c) ==
  /\ act[c].pc = "promote"
  /\ \/ /\ ~Promoted(c)
        /\ Answer(c, "NotFound")
     \/ /\ Promoted(c)
        /\ act[c].target = NoTarget
        /\ Answers(c, {"promote"}, "ClipboardUpdated")
     \/ /\ Promoted(c)
        /\ act[c].target # NoTarget
        /\ Did(c, "promote", "restore")
  /\ UNCHANGED selVars
  /\ ActUnchanged

\* The UPDATE fails: activate returns the error.
PromoteFails(c) ==
  /\ act[c].pc = "promote"
  /\ Answer(c, "Error")
  /\ UNCHANGED selVars
  /\ ActUnchanged

\* focus_service.restore_and_wait: backend.restore
Restore(c) ==
  /\ act[c].pc = "restore"
  /\ Goto(c, "poll") \/ Answer(c, "PasteFailed")
  /\ UNCHANGED selVars
  /\ ActUnchanged

\* focus_service.restore_and_wait: is_active, tried until it is or time is up
Poll(c) ==
  /\ act[c].pc = "poll"
  /\ \/ active = act[c].target /\ Did(c, "confirm", "paste")
     \/ Answer(c, "PasteFailed")
  /\ UNCHANGED selVars
  /\ ActUnchanged

\* capability() and paste(): Ctrl+V goes to the window that has the focus now.
\* A call that fails may have pressed it, and one that is given up leaves a
\* worker that may still press it.
Paste(c) ==
  /\ act[c].pc = "paste"
  /\ \/ \E o \in {"Pasted", "ClipboardUpdated", "PasteFailed"} :
          Answers(c, {"paste"}, o)
     \/ \E o \in {"ClipboardUpdated", "PasteFailed"} : Answer(c, o)
  /\ UNCHANGED selVars
  /\ ActUnchanged

ActStep(c) ==
  \/ ReadContent(c) \/ Write(c) \/ WriteFails(c) \/ Mark(c)
  \/ Promote(c) \/ PromoteFails(c)
  \/ Restore(c) \/ Poll(c) \/ Paste(c)

ANext ==
  \/ \E c \in Copies : Copy(c)
  \/ Close
  \/ WatcherStep
  \/ Receive
  \/ Save
  \/ \E x \in Items : Remove(x)
  \/ \E w \in Windows : Focus(w)
  \/ \E c \in Clients :
       \/ ActStep(c)
       \/ \E x \in Items, w \in Windows \cup {NoTarget} : Activate(c, x, w)

ASpec == AInit /\ [][ANext]_avars

\* The tasks of the daemon run, and the mutex of the clipboard service is
\* tokio's, which is handed over in the order of the requests.  Nothing obliges
\* the user, an application or the window manager.
AFairness ==
  \A c \in Clients :
    /\ WF_avars(ActStep(c))
    /\ SF_avars(Write(c) \/ WriteFails(c))

AFairSpec == ASpec /\ AFairness

-----------------------------------------------------------------------------
(* Properties *)

ATypeOK ==
  /\ SelTypeOK
  /\ row \in [Items -> 0..lastId]
  /\ lastId \in Nat
  /\ marker \in Items \cup {NoContent}
  /\ main \in {0} \cup DOMAIN owned
  /\ act \in [Clients -> [pc : ActPcs, item : Items \cup {NoContent}, id : 0..lastId,
                          target : Windows \cup {NoTarget},
                          did : SUBSET {"write", "promote", "confirm", "paste"},
                          outcome : Outcomes]]
  /\ active \in Windows
  /\ dropped \subseteq DOMAIN owned
  /\ saved \subseteq DOMAIN owned

Writes == {k \in DOMAIN owned : owned[k].by = "pookie"}

Last(S) == CHOOSE k \in S : \A j \in S : j <= k

\* Outside a write the marker is empty or describes the daemon's last write,
\* whatever other activations and events did: a fingerprint of an earlier or a
\* failed write never comes back.  (clipboard_service.rs, write; the comment
\* at :44 of that file.)
MarkerIsLastWrite ==
  ~Locked => \/ marker = NoContent
             \/ Writes # {} /\ marker = owned[Last(Writes)].content

Of(S, x) == {k \in S : owned[k].content = x}

\* A write of the daemon costs the history at most one event, and that one of
\* the same content: of the user's copies no more can be taken for self-writes
\* than the daemon made writes of that content.  (clipboard_state.rs,
\* is_self_write: a match consumes the marker.)
OneDropPerWrite ==
  \A x \in Items : Cardinality(Of(dropped, x)) <= Cardinality(Of(Writes, x))

\* Of what the user copied last nothing but its own read is in danger: unless
\* that fails while it is current, it is recorded once the watcher and the main
\* task are done, or was taken for a self-write or rejected by the policy.
\* Reads of earlier copies that are slow, fail or arrive late and out of order
\* never cost it.  (x11_watcher.rs:207, ext_data_control.rs:82: one read for
\* each change.  A save that fails is of History.)
LastCopyKept ==
  Watched /\ main = 0 /\ Current # 0 /\ owned[Current].by = "user"
    => \/ Current \in saved \cup dropped \cup missed
       \/ Normal[owned[Current].content] = NoContent

\* An answer says what was done.  Pasted: the target was seen active and then
\* the keys were sent; with it, ClipboardUpdated or PasteFailed: the item was
\* written, and promoted while its row was alive; with any other answer no key
\* was sent and none will be.  (That ClipboardUpdated and PasteFailed say as
\* much of the keys, as docs/activation/overview.md:123 has it, does not hold:
\* LateKeys of Delivery.)
OutcomeHonest ==
  \A c \in Clients :
    /\ act[c].outcome \in {"Pasted", "ClipboardUpdated", "PasteFailed"}
         => {"write", "promote"} \subseteq act[c].did
    /\ act[c].outcome = "Pasted" => "paste" \in act[c].did
    /\ "paste" \in act[c].did
         => /\ {"write", "promote", "confirm"} \subseteq act[c].did
            /\ act[c].outcome \in {"Pasted", "ClipboardUpdated", "PasteFailed"}

\* An activation is answered, whatever windows, users and other activations
\* do, those that contend for the clipboard's mutex included.
ActivationEnds == \A c \in Clients : act[c].pc # "idle" ~> act[c].pc = "idle"

\* Nothing the daemon wrote to the clipboard is recorded as a copy.
NoReentry == saved \cap Writes = {}
=============================================================================
