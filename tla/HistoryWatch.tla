---------------------------- MODULE HistoryWatch ----------------------------
(***************************************************************************)
(* The live view of the history: popups (crates/ui/src/app.rs) follow the  *)
(* store through GetHistory and WaitForHistoryChange, each sent on a       *)
(* connection of its own.                                                  *)
(*                                                                         *)
(* The daemon's side is RevisionedStore, which History implements: tasks   *)
(* change the table and announce it later, and the daemon may die and be   *)
(* started again with the revision back at 1.                              *)
(*                                                                         *)
(* Data.  The table is a member of Tables.  A connection's record stands   *)
(* for the request on its way, the handler's locals and the reply on its   *)
(* way back; a reply already written outlives the daemon.                  *)
(***************************************************************************)
EXTENDS RevisionedStore

CONSTANTS
  Tables,    \* what the table may hold
  Nothing,   \* a popup that has loaded nothing yet
  Popups,    \* popup processes, each with its watch thread
  MaxRev,    \* bound: no task starts at a higher revision
  MaxEpoch   \* bound: how many daemons are started

ASSUME TableAssumption == Nothing \notin Tables

ASSUME BoundAssumption == MaxRev \in Nat /\ MaxEpoch \in Nat \ {0}

VARIABLES
  epoch,  \* which daemon this is
  popup,  \* the watch thread, the channel to the popup and what it shows
  conn    \* the connection of each watch thread

wvars == <<storeVars, epoch, popup, conn>>

PopupPcs == {"closed", "first", "watch", "reload", "over"}

\* rev, epoch: of the snapshot tracked; sent: the last snapshot put into the
\* channel (poll_history drains it and keeps the last); shown: HistoryState.
ClosedPopup ==
  [pc |-> "closed", rev |-> 0, epoch |-> 0, sent |-> Nothing, shown |-> Nothing]

ConnPcs == {"none", "before", "read", "after", "subscribe", "waiting",
            "snapshot", "changed", "unchanged", "error", "broken"}

InDaemon == {"before", "read", "after", "subscribe", "waiting"}

\* rev: get_all_snapshot's `before', or the revision a watcher has seen.
NoConn == [pc |-> "none", rev |-> 0, items |-> Nothing, epoch |-> 0]

WInit ==
  /\ StoreInit
  /\ items \in Tables
  /\ epoch = 1
  /\ popup = [p \in Popups |-> ClosedPopup]
  /\ conn = [p \in Popups |-> NoConn]

-----------------------------------------------------------------------------
(* The daemon *)

Mutate(t) ==
  /\ t \in pending \/ rev < MaxRev
  /\ items' \in Tables
  /\ Change(t)
  /\ UNCHANGED <<epoch, popup, conn>>

Announce(t) ==
  /\ Advance(t)
  /\ UNCHANGED <<epoch, popup, conn>>

\* A connection that was not answered yet is closed.
DaemonDies ==
  /\ Die
  /\ conn' = [p \in Popups |->
                IF conn[p].pc \in InDaemon
                  THEN [NoConn EXCEPT !.pc = "broken"] ELSE conn[p]]
  /\ UNCHANGED <<epoch, popup>>

DaemonStarts ==
  /\ epoch < MaxEpoch
  /\ Start
  /\ epoch' = epoch + 1
  /\ UNCHANGED <<popup, conn>>

Handler(p, pc) ==
  /\ conn[p].pc = pc
  /\ UNCHANGED <<storeVars, epoch, popup>>

\* get_all_snapshot: let before = self.current_revision()
SnapshotBefore(p) ==
  /\ Handler(p, "before")
  /\ conn' = [conn EXCEPT ![p].pc = "read", ![p].rev = rev]

\* get_all_snapshot: repository.get_all() ...
SnapshotRead(p) ==
  /\ Handler(p, "read")
  /\ conn' = [conn EXCEPT ![p].pc = "after", ![p].items = items]

\* ... which may fail.
SnapshotReadFails(p) ==
  /\ Handler(p, "read")
  /\ conn' = [conn EXCEPT ![p].pc = "error"]

\* As SnapshotAfter, answering with the later revision instead of retrying.
SnapshotAfterUnchecked(p) ==
  /\ Handler(p, "after")
  /\ conn' = [conn EXCEPT ![p].pc = "snapshot", ![p].rev = rev, ![p].epoch = epoch]

\* get_all_snapshot: answer if nothing was announced meanwhile, else retry
SnapshotAfter(p) ==
  /\ Handler(p, "after")
  /\ conn' = IF conn[p].rev = rev
               THEN [conn EXCEPT ![p].pc = "snapshot", ![p].epoch = epoch]
               ELSE [conn EXCEPT ![p].pc = "before"]

\* WaitForHistoryChange: subscribe, borrow_and_update, compare
Subscribe(p) ==
  /\ Handler(p, "subscribe")
  /\ conn' = IF popup[p].rev = rev
               THEN [conn EXCEPT ![p].pc = "waiting", ![p].rev = rev]
               ELSE [conn EXCEPT ![p].pc = "changed"]

\* WaitForHistoryChange: rx.changed()
Wake(p) ==
  /\ Handler(p, "waiting")
  /\ conn[p].rev # rev
  /\ conn' = [conn EXCEPT ![p].pc = "changed"]

\* WaitForHistoryChange: the timeout, which looks once more
Expire(p) ==
  /\ Handler(p, "waiting")
  /\ conn' = [conn EXCEPT ![p].pc = IF popup[p].rev = rev THEN "unchanged"
                                    ELSE "changed"]

HandlerStep(p) ==
  \/ SnapshotBefore(p) \/ SnapshotRead(p) \/ SnapshotReadFails(p) \/ SnapshotAfter(p)
  \/ Subscribe(p) \/ Wake(p) \/ Expire(p)

-----------------------------------------------------------------------------
(* The popup *)

PopupUnchanged == UNCHANGED <<storeVars, epoch>>

Launch(p) ==
  /\ popup[p].pc = "closed"
  /\ popup' = [popup EXCEPT ![p].pc = "first"]
  /\ UNCHANGED conn
  /\ PopupUnchanged

\* get_history and wait_for_history_change: connect and send.
Send(p) ==
  /\ popup[p].pc \in {"first", "watch", "reload"}
  /\ conn[p].pc = "none"
  /\ conn' = [conn EXCEPT ![p].pc = IF ~up THEN "broken"
                                    ELSE IF popup[p].pc = "watch"
                                      THEN "subscribe" ELSE "before"]
  /\ UNCHANGED popup
  /\ PopupUnchanged

Receive(p, replies) ==
  /\ conn[p].pc \in replies
  /\ conn' = [conn EXCEPT ![p] = NoConn]
  /\ PopupUnchanged

\* A snapshot arrives: tracked_revision, and history_tx.send.
TakeSnapshot(p) ==
  /\ popup[p].pc \in {"first", "reload"}
  /\ Receive(p, {"snapshot"})
  /\ popup' = [popup EXCEPT ![p].pc = "watch",
                            ![p].rev = conn[p].rev,
                            ![p].epoch = conn[p].epoch,
                            ![p].sent = conn[p].items]

\* GetHistory fails: the thread ends if it was the first, and otherwise
\* watches on with the revision it had.
SnapshotFails(p) ==
  /\ popup[p].pc \in {"first", "reload"}
  /\ Receive(p, {"error", "broken"})
  /\ popup' = [popup EXCEPT ![p].pc = IF popup[p].pc = "first" THEN "over"
                                      ELSE "watch"]

\* HistoryChanged: fetch a new snapshot.
SeeChange(p) ==
  /\ popup[p].pc = "watch"
  /\ Receive(p, {"changed"})
  /\ popup' = [popup EXCEPT ![p].pc = "reload"]

\* HistoryUnchanged: it always carries since_revision, so wait again.
SeeNoChange(p) ==
  /\ popup[p].pc = "watch"
  /\ Receive(p, {"unchanged"})
  /\ UNCHANGED popup

\* The watch itself fails: the loop is left, and the popup keeps its list.
WatchFails(p) ==
  /\ popup[p].pc = "watch"
  /\ Receive(p, {"broken"})
  /\ popup' = [popup EXCEPT ![p].pc = "over"]

\* As Poll, ignoring what comes after the first snapshot.
PollOnce(p) ==
  /\ popup[p].sent # Nothing
  /\ popup[p].shown = Nothing
  /\ popup' = [popup EXCEPT ![p].shown = popup[p].sent]
  /\ UNCHANGED conn
  /\ PopupUnchanged

\* poll_history, in the frame that request_repaint asked for
Poll(p) ==
  /\ popup[p].sent # Nothing
  /\ popup[p].shown # popup[p].sent
  /\ popup' = [popup EXCEPT ![p].shown = popup[p].sent]
  /\ UNCHANGED conn
  /\ PopupUnchanged

PopupStep(p) ==
  \/ Send(p) \/ TakeSnapshot(p) \/ SnapshotFails(p)
  \/ SeeChange(p) \/ SeeNoChange(p) \/ WatchFails(p)

WNext ==
  \/ \E t \in Tasks : Mutate(t) \/ Announce(t)
  \/ DaemonDies
  \/ DaemonStarts
  \/ \E p \in Popups : HandlerStep(p) \/ Launch(p) \/ PopupStep(p) \/ Poll(p)

WSpec == WInit /\ [][WNext]_wvars

\* Tasks of a live daemon announce what they changed, handlers are polled, and
\* a popup's thread and its frames run.  A SELECT that is tried again and again
\* does not fail every time.  Nothing obliges a task to change the table, a
\* popup to be opened, or the daemon to die or to be started.
WFairness ==
  /\ \A t \in Tasks : WF_wvars(Announce(t))
  /\ \A p \in Popups : /\ WF_wvars(HandlerStep(p))
                       /\ SF_wvars(SnapshotRead(p))
                       /\ WF_wvars(PopupStep(p))
                       /\ WF_wvars(Poll(p))

WFairSpec == WSpec /\ WFairness

-----------------------------------------------------------------------------
(* Properties *)

WTypeOK ==
  /\ items \in Tables
  /\ rev \in Nat \ {0}
  /\ pending \subseteq Tasks
  /\ up \in BOOLEAN
  /\ epoch \in 1..MaxEpoch
  /\ popup \in [Popups -> [pc : PopupPcs, rev : Nat, epoch : 0..MaxEpoch,
                           sent : Tables \cup {Nothing},
                           shown : Tables \cup {Nothing}]]
  /\ conn \in [Popups -> [pc : ConnPcs, rev : Nat, items : Tables \cup {Nothing},
                          epoch : 0..MaxEpoch]]

Follows(p) == popup[p].pc \in {"watch", "reload"} /\ popup[p].epoch = epoch /\ up

\* A popup that tracks the current revision of a quiet daemon has the current
\* table, though snapshots are read in three steps and changes become visible
\* before they are announced.  (docs/ipc/overview.md, "Monotonic History
\* Revisions & Live Refresh Contract".)  It speaks of the daemon that sent the
\* snapshot: a revision of an earlier one may be the same number.
TrackedIsCurrent ==
  \A p \in Popups :
    Follows(p) /\ popup[p].rev = rev /\ pending = {} => popup[p].sent = items

\* A popup that follows the daemon shows the table in the end, whatever was
\* changed, announced, read or timed out in between, and whichever snapshots
\* failed: no change is missed between two requests.
Converges ==
  <>[](\A p \in Popups : Follows(p) /\ pending = {} => popup[p].shown = items)
=============================================================================
