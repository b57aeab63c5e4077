------------------------- MODULE HistoryWatchProofs -------------------------
(***************************************************************************)
(* A theorem about HistoryWatch: what a popup tracks is current whenever   *)
(* the daemon is quiet, for every number of popups, tasks, tables,         *)
(* revisions and restarts.                                                 *)
(***************************************************************************)
EXTENDS HistoryWatch, TLAPS

\* A snapshot of table `it' taken by daemon e at revision r is not newer than
\* the daemon, and if its revision is still the current one and nobody owes
\* an announcement, then it is the current table.
Sound(it, r, e) ==
  /\ e <= epoch
  /\ e = epoch /\ up => r <= rev
  /\ e = epoch /\ up /\ r = rev /\ pending = {} => it = items

PopupSound(p) ==
  popup[p].pc \in {"watch", "reload"} =>
    Sound(popup[p].sent, popup[p].rev, popup[p].epoch)

ConnSound(p) ==
  /\ conn[p].pc \in InDaemon => up
  /\ conn[p].pc \in {"read", "after"} => conn[p].rev <= rev
  /\ conn[p].pc = "after" => Sound(conn[p].items, conn[p].rev, epoch)
  /\ conn[p].pc = "snapshot" => Sound(conn[p].items, conn[p].rev, conn[p].epoch)

WInv ==
  /\ WTypeOK
  /\ \A p \in Popups : PopupSound(p) /\ ConnSound(p)

\* The type invariant at the start ...
LEMMA WTypeInit == WInit => WTypeOK
  BY TableAssumption, BoundAssumption
     DEF WInit, StoreInit, WTypeOK, ClosedPopup, NoConn, PopupPcs, ConnPcs

\* ... and at every step.
LEMMA WTypeStep == WTypeOK /\ [WNext]_wvars => WTypeOK'
<1> SUFFICES ASSUME WTypeOK, [WNext]_wvars PROVE WTypeOK'
  OBVIOUS
<1> USE DEF WTypeOK
<1>1. CASE \E t \in Tasks : Mutate(t)
  BY <1>1 DEF Mutate, Change
<1>2. CASE \E t \in Tasks : Announce(t)
  BY <1>2 DEF Announce, Advance
<1>3. CASE DaemonDies
  <2>1. up' \in BOOLEAN
    BY <1>3 DEF DaemonDies, Die
  <2>2. conn' \in [Popups -> [pc : ConnPcs, rev : Nat, items : Tables \cup {Nothing},
                             epoch : 0..MaxEpoch]]
    BY <1>3, BoundAssumption DEF DaemonDies, NoConn, ConnPcs
  <2> QED
    BY <1>3, <2>1, <2>2, SMTT(20) DEF DaemonDies, Die
<1>4. CASE DaemonStarts
  <2>1. up' \in BOOLEAN
    BY <1>4 DEF DaemonStarts, Start
  <2> QED
    BY <1>4, <2>1, BoundAssumption DEF DaemonStarts, Start
<1>5. ASSUME NEW p \in Popups, HandlerStep(p) PROVE WTypeOK'
  BY <1>5 DEF HandlerStep, SnapshotBefore, SnapshotRead, SnapshotReadFails, SnapshotAfter,
              Subscribe, Wake, Expire, Handler, storeVars, ConnPcs
<1>6. ASSUME NEW p \in Popups, Launch(p) \/ Poll(p) PROVE WTypeOK'
  BY <1>6, SMTT(20) DEF Launch, Poll, PopupUnchanged, storeVars, PopupPcs
<1>7. ASSUME NEW p \in Popups, PopupStep(p) PROVE WTypeOK'
  <2>1. NoConn \in [pc : ConnPcs, rev : Nat, items : Tables \cup {Nothing},
                    epoch : 0..MaxEpoch]
    BY BoundAssumption DEF NoConn, ConnPcs
  <2>2. UNCHANGED <<storeVars, epoch>>
    BY <1>7 DEF PopupStep, Send, TakeSnapshot, SnapshotFails, SeeChange, SeeNoChange,
                WatchFails, Receive, PopupUnchanged
  <2>3. conn' \in [Popups -> [pc : ConnPcs, rev : Nat, items : Tables \cup {Nothing},
                              epoch : 0..MaxEpoch]]
    <3>1. CASE Send(p)
      BY <3>1 DEF Send, ConnPcs
    <3>2. CASE ~Send(p)
      BY <1>7, <2>1, <3>2 DEF PopupStep, TakeSnapshot, SnapshotFails, SeeChange,
                              SeeNoChange, WatchFails, Receive
    <3> QED
      BY <3>1, <3>2
  <2>4. popup' \in [Popups -> [pc : PopupPcs, rev : Nat, epoch : 0..MaxEpoch,
                               sent : Tables \cup {Nothing},
                               shown : Tables \cup {Nothing}]]
    BY <1>7 DEF PopupStep, Send, TakeSnapshot, SnapshotFails, SeeChange, SeeNoChange,
                WatchFails, PopupPcs
  <2> QED
    BY <2>2, <2>3, <2>4 DEF storeVars
<1>8. CASE UNCHANGED wvars
  BY <1>8 DEF wvars, storeVars
<1> QED
  BY <1>1, <1>2, <1>3, <1>4, <1>5, <1>6, <1>7, <1>8 DEF WNext

\* What was sound stays so when the daemon moves on.
LEMMA SoundKept ==
  ASSUME WTypeOK, NEW it, NEW r \in Nat, NEW e \in Nat, Sound(it, r, e),
         \/ \E t \in Tasks : Mutate(t) \/ Announce(t)
         \/ DaemonDies
         \/ DaemonStarts
         \/ UNCHANGED <<storeVars, epoch>>
  PROVE  Sound(it, r, e)'
<1>1. CASE \E t \in Tasks : Mutate(t)
  BY <1>1 DEF Sound, Mutate, Change, WTypeOK
<1>2. CASE \E t \in Tasks : Announce(t)
  BY <1>2 DEF Sound, Announce, Advance, WTypeOK
<1>3. CASE DaemonDies
  BY <1>3 DEF Sound, DaemonDies, Die, WTypeOK
<1>4. CASE DaemonStarts
  BY <1>4 DEF Sound, DaemonStarts, Start, WTypeOK
<1>5. CASE UNCHANGED <<storeVars, epoch>>
  BY <1>5 DEF Sound, storeVars
<1> QED
  BY <1>1, <1>2, <1>3, <1>4, <1>5

\* The invariant of the watchers at the start ...
LEMMA WInvInit == WInit => WInv
<1> SUFFICES ASSUME WInit PROVE WInv
  OBVIOUS
<1>1. \A p \in Popups : PopupSound(p) /\ ConnSound(p)
  BY DEF WInit, InDaemon, PopupSound, ConnSound, ClosedPopup, NoConn
<1> QED
  BY <1>1, WTypeInit DEF WInv

\* ... and at every step.
LEMMA WInvStep == WInv /\ [WNext]_wvars => WInv'
<1> SUFFICES ASSUME WInv, [WNext]_wvars, NEW p \in Popups
             PROVE  PopupSound(p)' /\ ConnSound(p)'
  BY WTypeStep DEF WInv
<1>0. /\ WTypeOK /\ PopupSound(p) /\ ConnSound(p)
      /\ popup[p].rev \in Nat /\ popup[p].epoch \in Nat
      /\ conn[p].rev \in Nat /\ conn[p].epoch \in Nat /\ epoch \in Nat
  BY DEF WInv, WTypeOK
<1>1. CASE \E t \in Tasks : Mutate(t) \/ Announce(t)
  <2>1. UNCHANGED <<popup, conn, epoch, up>> /\ rev <= rev'
    BY <1>0, <1>1 DEF Mutate, Change, Announce, Advance, WTypeOK
  <2>2. PopupSound(p)'
    BY <1>0, <1>1, <2>1, SoundKept DEF PopupSound
  <2>3. conn[p].pc = "after" => Sound(conn[p].items, conn[p].rev, epoch)'
    BY <1>0, <1>1, <2>1, SoundKept DEF ConnSound
  <2>4. conn[p].pc = "snapshot" => Sound(conn[p].items, conn[p].rev, conn[p].epoch)'
    BY <1>0, <1>1, <2>1, SoundKept DEF ConnSound
  <2>5. conn[p].pc \in {"read", "after"} => conn[p].rev <= rev'
    <3>1. rev \in Nat /\ rev' \in Nat
      BY <1>0, <1>1 DEF Mutate, Change, Announce, Advance, WTypeOK
    <3> QED
      BY <1>0, <2>1, <3>1 DEF ConnSound
  <2> QED
    BY <1>0, <2>1, <2>2, <2>3, <2>4, <2>5 DEF ConnSound
<1>2. CASE DaemonDies
  <2>1. popup' = popup /\ (conn'[p] = conn[p] \/ conn'[p].pc = "broken")
        /\ conn'[p].pc \notin InDaemon
    BY <1>2 DEF DaemonDies, NoConn, InDaemon
  <2>2. PopupSound(p)'
    BY <1>0, <1>2, <2>1, SoundKept DEF PopupSound
  <2>3. conn'[p].pc = "snapshot" => Sound(conn[p].items, conn[p].rev, conn[p].epoch)'
    <3>1. SUFFICES ASSUME conn'[p].pc = "snapshot"
                   PROVE  Sound(conn[p].items, conn[p].rev, conn[p].epoch)'
      OBVIOUS
    <3>2. conn'[p] = conn[p]
      BY <2>1, <3>1
    <3>3. Sound(conn[p].items, conn[p].rev, conn[p].epoch)
      BY <1>0, <3>1, <3>2 DEF ConnSound
    <3> QED
      BY <1>0, <1>2, <3>2, <3>3, SoundKept
  <2> QED
    BY <2>1, <2>2, <2>3 DEF ConnSound, InDaemon
<1>3. CASE DaemonStarts
  <2>1. UNCHANGED <<popup, conn>> /\ ~up
    BY <1>3 DEF DaemonStarts, Start
  <2>2. PopupSound(p)'
    BY <1>0, <1>3, <2>1, SoundKept DEF PopupSound
  <2>3. conn[p].pc = "snapshot" => Sound(conn[p].items, conn[p].rev, conn[p].epoch)'
    BY <1>0, <1>3, <2>1, SoundKept DEF ConnSound
  <2> QED
    BY <1>0, <2>1, <2>2, <2>3 DEF InDaemon, ConnSound
<1>4. ASSUME NEW q \in Popups, HandlerStep(q) \/ Launch(q) \/ PopupStep(q) \/ Poll(q)
      PROVE  PopupSound(p)' /\ ConnSound(p)'
  <2>1. UNCHANGED <<storeVars, epoch>>
    BY <1>4 DEF HandlerStep, SnapshotBefore, SnapshotRead, SnapshotReadFails, SnapshotAfter,
                Subscribe, Wake, Expire, Handler, Launch, PopupStep, Send, TakeSnapshot,
                SnapshotFails, SeeChange, SeeNoChange, WatchFails, Receive, Poll,
                PopupUnchanged
  <2>2. \A it, r, e : Sound(it, r, e)' <=> Sound(it, r, e)
    BY <2>1 DEF Sound, storeVars
  <2>3. CASE HandlerStep(q)
    <3>1. popup' = popup /\ \E h : conn' = [conn EXCEPT ![q] = h]
      BY <2>3 DEF HandlerStep, SnapshotBefore, SnapshotRead, SnapshotReadFails,
                  SnapshotAfter, Subscribe, Wake, Expire, Handler
    <3>0. \A r \in Popups \ {q} : conn'[r] = conn[r]
      BY <1>0, <3>1 DEF WTypeOK
    <3>2. CASE p # q
      BY <1>0, <2>1, <2>2, <3>0, <3>1, <3>2 DEF PopupSound, ConnSound, storeVars
    <3>3. CASE p = q
      <4>1. PopupSound(p)'
        BY <1>0, <2>2, <3>1 DEF PopupSound
      <4>2. CASE SnapshotBefore(p)
        BY <1>0, <2>1, <4>1, <4>2
           DEF SnapshotBefore, Handler, InDaemon, ConnSound, WTypeOK, storeVars
      <4>3. CASE SnapshotRead(p)
        BY <1>0, <2>1, <4>1, <4>3
           DEF SnapshotRead, Handler, InDaemon, ConnSound, Sound, WTypeOK, storeVars
      <4>4. CASE SnapshotAfter(p)
        BY <1>0, <2>1, <4>1, <4>4
           DEF SnapshotAfter, Handler, InDaemon, ConnSound, Sound, WTypeOK, storeVars
      <4>5. CASE SnapshotReadFails(p) \/ Subscribe(p) \/ Wake(p) \/ Expire(p)
        <5>1. conn'[p].pc \in {"error", "waiting", "changed", "unchanged"}
          BY <1>0, <4>5 DEF SnapshotReadFails, Subscribe, Wake, Expire, WTypeOK
        <5>2. conn[p].pc \in InDaemon
          BY <4>5 DEF SnapshotReadFails, Subscribe, Wake, Expire, Handler, InDaemon
        <5> QED
          BY <1>0, <2>1, <4>1, <5>1, <5>2 DEF InDaemon, ConnSound, storeVars
      <4> QED
        BY <2>3, <3>3, <4>2, <4>3, <4>4, <4>5 DEF HandlerStep
    <3> QED
      BY <3>2, <3>3
  <2>4. CASE Launch(q) \/ Poll(q)
    <3>1. conn' = conn
      BY <2>4 DEF Launch, Poll
    <3>2. PopupSound(p)'
      BY <1>0, <2>2, <2>4 DEF Launch, Poll, PopupSound, WTypeOK
    <3> QED
      BY <1>0, <2>1, <2>2, <3>1, <3>2 DEF ConnSound, storeVars
  <2>5. CASE PopupStep(q)
    <3>1. CASE p # q
      <4>1. popup'[p] = popup[p] /\ conn'[p] = conn[p]
        BY <2>5, <3>1, <1>0 DEF PopupStep, Send, TakeSnapshot, SnapshotFails, SeeChange,
                                SeeNoChange, WatchFails, Receive, WTypeOK
      <4> QED
        BY <1>0, <2>1, <2>2, <4>1 DEF PopupSound, ConnSound, storeVars
    <3>2. CASE p = q
      <4>1. ConnSound(p)'
        BY <1>0, <2>1, <2>5, <3>2 DEF PopupStep, Send, TakeSnapshot, SnapshotFails, SeeChange,
                                SeeNoChange, WatchFails, Receive, NoConn, InDaemon, ConnSound,
                                storeVars, WTypeOK
      <4>2. CASE TakeSnapshot(p)
        <5>1. /\ popup'[p].rev = conn[p].rev
              /\ popup'[p].epoch = conn[p].epoch
              /\ popup'[p].sent = conn[p].items
          BY <1>0, <4>2 DEF TakeSnapshot, WTypeOK
        <5>2. Sound(conn[p].items, conn[p].rev, conn[p].epoch)
          BY <1>0, <4>2 DEF TakeSnapshot, Receive, ConnSound
        <5> QED
          BY <2>1, <4>1, <5>1, <5>2 DEF PopupSound, Sound, storeVars
      <4>3. CASE Send(p) \/ SnapshotFails(p) \/ SeeChange(p) \/ SeeNoChange(p) \/ WatchFails(p)
        BY <1>0, <2>2, <4>1, <4>3
           DEF Send, SnapshotFails, SeeChange, SeeNoChange, WatchFails, PopupSound, WTypeOK
      <4> QED
        BY <2>5, <3>2, <4>2, <4>3 DEF PopupStep
    <3> QED
      BY <3>1, <3>2
  <2> QED
    BY <1>4, <2>3, <2>4, <2>5
<1>5. CASE UNCHANGED wvars
  BY <1>0, <1>5 DEF wvars, storeVars, PopupSound, ConnSound, Sound
<1> QED
  BY <1>1, <1>2, <1>3, <1>4, <1>5 DEF WNext

\* A popup that tracks the current revision of a quiet daemon has the current
\* table.
THEOREM TrackingSound == WSpec => []TrackedIsCurrent
<1>1. WInv => TrackedIsCurrent
  BY DEF WInv, WTypeOK, PopupSound, Sound, TrackedIsCurrent, Follows
<1> QED
  BY WInvInit, WInvStep, <1>1, PTL DEF WSpec

\* Every reachable state of the watched history is well typed.
THEOREM WatchIsTyped == WSpec => []WTypeOK
  BY WTypeInit, WTypeStep, PTL DEF WSpec
=============================================================================
