----------------------------- MODULE Selection -----------------------------
(***************************************************************************)
(* The clipboard of the session as the watchers of crates/pookie-clipboard *)
(* see it: who owned it, which of its contents are read, and in which      *)
(* order they reach the daemon's main task.                                *)
(*                                                                         *)
(* X11 (x11_watcher.rs): each XFixes notification makes the one worker     *)
(* read whatever the selection holds by then.  Wayland                     *)
(* (ext_data_control.rs, wlr_data_control.rs): each Selection event starts *)
(* a thread that reads that one offer, which an owner that was replaced    *)
(* may no longer serve.  Either may fail whoever owns the selection (the   *)
(* 100 ms of a conversion, a pipe, an owner that does not serve), and is    *)
(* not tried again.                                                        *)
(*                                                                         *)
(* Data.  A copy is known by its serial, its place in `owned'.  MIME types *)
(* and the loss of a copy in a format the watchers do not take are left    *)
(* out.  The channel holds 100 events in the code and never fills here.    *)
(***************************************************************************)
EXTENDS Naturals, Sequences, FiniteSets

CONSTANTS
  Copies,     \* what somebody may put on the clipboard
  NoContent,
  Instances   \* the sessions considered: their display server and copies

ASSUME CopyAssumption == NoContent \notin Copies

ASSUME SessionAssumption ==
  \A i \in Instances : i.platform \in {"x11", "wayland"} /\ i.copies \subseteq Copies

VARIABLES
  instance,
  owned,    \* every selection so far, the last one current
  unread,   \* serials the watcher has been notified of
  reading,  \* serials whose reader thread is at work (Wayland)
  channel,  \* serials delivered to the main task
  missed    \* serials whose read failed while they were current (ghost)

selVars == <<instance, owned, unread, reading, channel, missed>>

platform == instance.platform

Owners == {"user", "pookie", "nobody"}

Current == Len(owned)

Gone == [content |-> NoContent, by |-> "nobody"]

\* The watchers read the selection they find when they start.
SelInit ==
  /\ instance \in Instances
  /\ owned \in {<<>>} \cup
                {<<[content |-> c, by |-> "user"]>> : c \in instance.copies}
  /\ unread = DOMAIN owned
  /\ reading = {}
  /\ channel = <<>>
  /\ missed = {}

\* Somebody sets the clipboard.
Own(c, who) ==
  /\ owned' = Append(owned, [content |-> c, by |-> who])
  /\ unread' = unread \cup {Len(owned) + 1}
  /\ UNCHANGED <<instance, reading, channel, missed>>

\* The owner closes its window, or the selection is cleared: there is nothing
\* to read any more, and nothing is notified that would be read.
Vanish ==
  /\ owned # <<>>
  /\ owned[Current] # Gone
  /\ owned' = Append(owned, Gone)
  /\ UNCHANGED <<instance, unread, reading, channel, missed>>

Oldest(k) == k \in unread /\ \A j \in unread : k <= j

\* X11: the notification of k is handled by reading the current selection.
ReadCurrent(k) ==
  /\ platform = "x11"
  /\ Oldest(k)
  /\ owned[Current] # Gone
  /\ unread' = unread \ {k}
  /\ channel' = Append(channel, Current)
  /\ UNCHANGED <<instance, owned, reading, missed>>

\* X11: the read fails or is late, and its error is ignored.
ReadFails(k) ==
  /\ platform = "x11"
  /\ Oldest(k)
  /\ unread' = unread \ {k}
  /\ missed' = missed \cup ({k} \cap {Current})
  /\ UNCHANGED <<instance, owned, reading, channel>>

\* As Request, not resetting clipboard_requested with a new selection.
RequestOnce(k) ==
  /\ platform = "wayland"
  /\ Oldest(k)
  /\ unread' = unread \ {k}
  /\ reading' = IF k = Current /\ reading = {} THEN reading \cup {k} ELSE reading
  /\ UNCHANGED <<instance, owned, channel, missed>>

\* Wayland: request_content spawns a reader; the offer of a selection that was
\* replaced is dead, and reading it yields nothing.
Request(k) ==
  /\ platform = "wayland"
  /\ Oldest(k)
  /\ unread' = unread \ {k}
  /\ reading' = IF k = Current THEN reading \cup {k} ELSE reading
  /\ UNCHANGED <<instance, owned, channel, missed>>

\* Wayland: a reader thread sends what it read.
Deliver(k) ==
  /\ k \in reading
  /\ reading' = reading \ {k}
  /\ channel' = Append(channel, k)
  /\ UNCHANGED <<instance, owned, unread, missed>>

\* Wayland: the pipe, the owner or the deadline of the read fails it, and the
\* thread ends.
DeliverFails(k) ==
  /\ k \in reading
  /\ reading' = reading \ {k}
  /\ missed' = missed \cup ({k} \cap {Current})
  /\ UNCHANGED <<instance, owned, unread, channel>>

Watch ==
  \/ \E k \in unread : ReadCurrent(k) \/ ReadFails(k) \/ Request(k)
  \/ \E k \in reading : Deliver(k) \/ DeliverFails(k)

\* Nothing is under way between the clipboard and the main task.
Watched == unread = {} /\ reading = {} /\ channel = <<>>

SelTypeOK ==
  /\ instance \in Instances
  /\ owned \in Seq([content : Copies \cup {NoContent}, by : Owners])
  /\ unread \subseteq DOMAIN owned
  /\ reading \subseteq DOMAIN owned
  /\ channel \in Seq(DOMAIN owned)
  /\ missed \subseteq DOMAIN owned
=============================================================================
