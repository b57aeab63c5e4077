--------------------------- MODULE DeliveryProofs ---------------------------
(***************************************************************************)
(* Theorems about Delivery: its types, the paste of the portal, and the     *)
(* window that is typed into, for any instances and windows.               *)
(***************************************************************************)
EXTENDS Delivery, SequenceTheorems, TLAPS

PortalMoves ==
  \/ WorkerStep \/ TypeFails \/ ConnectFails \/ CompositorStep
  \/ RequestPaste \/ PasteTimesOut
  \/ TakePasted
  \/ RequestShutdown /\ UNCHANGED <<instance, keys>>
  \/ UNCHANGED <<instance, portalVars>> /\ (keys' = keys \/ paste # "Portal")

InSession == worker \in {"run", "typing"}

LastEvent == events[Len(events)]

\* Every command that waits or is typed was sent in the session there is.
Fresh ==
  /\ InSession => \A i \in 1..Len(requests) : ~requests[i].stale
  /\ worker = "typing" => ~typing.request.stale

\* Keys are down only while the worker types on a device that emulates.
KeysUp ==
  /\ worker = "typing" => typing.frame \in 1..4
  /\ paste = "Portal" /\ (worker # "typing" \/ keyboard # "emulating") => keys = {}

\* What the worker believes of the keyboard is what the compositor will have
\* told it when the events are read: the last of them says how it is.
Believed ==
  /\ health = "Ready" => InSession /\ resumed /\ emulating
  /\ ~InSession => events = <<>> /\ keyboard = "gone"
  /\ InSession /\ events = <<>> /\ resumed => keyboard = "emulating"
  /\ InSession /\ events # <<>> =>
       /\ LastEvent = "DevicePaused" => keyboard = "paused"
       /\ LastEvent = "DeviceResumed" => keyboard \in {"resumed", "emulating"}
       /\ LastEvent \notin {"DevicePaused", "DeviceResumed"} => keyboard = "gone"

PortalInv == Fresh /\ KeysUp /\ Believed

-----------------------------------------------------------------------------

\* What disturbances are left is counted down, never below zero.
LEMMA SpendType ==
  ASSUME DesktopTypeOK, NEW k \in Disturbances, Spend(k)
  PROVE  left' \in [Disturbances -> Nat]
BY DEF DesktopTypeOK, Spend

\* What the queues of the portal hold
Requests == [kind : {"Paste", "Shutdown", "none"}, awaited : BOOLEAN, stale : BOOLEAN]

EventKinds == {"DevicePaused", "DeviceResumed", "DeviceRemoved", "Disconnected"}

\* What Head and Tail make of a queue, element by element.
LEMMA QueueTail ==
  ASSUME NEW S, NEW q \in Seq(S), q # <<>>
  PROVE  /\ Head(q) \in S
         /\ Head(q) = q[1]
         /\ Tail(q) \in Seq(S)
         /\ Len(q) \in Nat \ {0}
         /\ Len(Tail(q)) = Len(q) - 1
         /\ \A i \in 1..Len(Tail(q)) : Tail(q)[i] = q[i + 1]
BY HeadTailProperties

\* A queue whose elements are replaced one by one stays as long as it was.
LEMMA QueueMapped ==
  ASSUME NEW S, NEW T, NEW q \in Seq(S), NEW r, r = [i \in DOMAIN q |-> r[i]],
         \A i \in DOMAIN q : r[i] \in T
  PROVE  r \in Seq(T) /\ Len(r) = Len(q)
<1>1. DOMAIN q = 1..Len(q) /\ Len(q) \in Nat
  OBVIOUS
<1>2. r \in [1..Len(q) -> T]
  BY <1>1
<1> QED
  BY <1>1, <1>2

\* The empty sequence is a queue of anything.
LEMMA EmptyQueue == \A S : <<>> \in Seq(S) /\ Len(<<>>) = 0
OBVIOUS

Typed ==
  /\ health \in {"Ready", "Paused", "Recovering", "Failed"}
  /\ worker \in {"run", "typing", "delay", "connect", "dead"}
  /\ resumed \in BOOLEAN
  /\ emulating \in BOOLEAN
  /\ keyboard \in {"emulating", "resumed", "paused", "gone"}
  /\ events \in Seq(EventKinds)
  /\ requests \in Seq(Requests)
  /\ typing \in [frame : 0..4, request : Requests]
  /\ pasted \in {"none", "ok", "Unavailable", "Failed"}

\* The type invariant of PortalPaste, with the queues written as sequences.
LEMMA TypedIsType == PortalTypeOK <=> Typed
BY DEF PortalTypeOK, Typed, Requests, EventKinds

\* A worker that types nothing is typed.
LEMMA IdleType == NotTyping \in [frame : 0..4, request : Requests]
BY DEF NotTyping, PasteRequest, Requests

\* The portal starts typed and with its invariant.
LEMMA PortalStarts == DInit => PortalTypeOK /\ PortalInv
<1> SUFFICES ASSUME DInit PROVE PortalTypeOK /\ PortalInv
  OBVIOUS
<1>1. events = <<>> /\ requests = <<>> /\ keys = {} /\ typing = NotTyping /\ pasted = "none"
  BY DEF DInit, DesktopInit, PortalInit
<1>2. \/ /\ health = "Ready" /\ worker = "run" /\ resumed = TRUE /\ emulating = TRUE
         /\ keyboard = "emulating"
      \/ /\ health = "Failed" /\ worker = "dead" /\ resumed = FALSE /\ emulating = FALSE
         /\ keyboard = "gone"
  BY DEF DInit, PortalInit
<1>3. Len(requests) = 0
  BY <1>1
<1>4. PortalInv
  BY <1>1, <1>2, <1>3 DEF PortalInv, Fresh, KeysUp, Believed, InSession
<1>5. Typed
  BY <1>1, <1>2, EmptyQueue, IdleType DEF Typed
<1> QED
  BY <1>4, <1>5, TypedIsType

\* Each of the four frames of Ctrl+V leaves down some of these two keys.
LEMMA FramesType == \A i \in 1..4 : Frames[i] \in SUBSET {"ctrl", "v"}
BY DEF Frames

Marked == [i \in DOMAIN requests |-> [requests[i] EXCEPT !.stale = TRUE]]

Dropped == [i \in DOMAIN requests |-> [requests[i] EXCEPT !.awaited = FALSE]]

\* What is taken from the queues of the portal, put into them or replaced in
\* them is typed.
LEMMA QueueTypes ==
  ASSUME requests \in Seq(Requests), events \in Seq(EventKinds)
  PROVE  /\ requests # <<>> => Head(requests) \in Requests /\ Tail(requests) \in Seq(Requests)
         /\ events # <<>> => Head(events) \in EventKinds /\ Tail(events) \in Seq(EventKinds)
         /\ \A r \in Requests : Append(requests, r) \in Seq(Requests)
         /\ \A e \in EventKinds : Append(events, e) \in Seq(EventKinds)
         /\ <<>> \in Seq(Requests) /\ <<>> \in Seq(EventKinds)
         /\ Marked \in Seq(Requests)
         /\ Dropped \in Seq(Requests)
<1>1. \A i \in DOMAIN requests : requests[i] \in Requests
  OBVIOUS
<1>2. \A i \in DOMAIN requests : Marked[i] \in Requests /\ Dropped[i] \in Requests
  BY <1>1 DEF Requests, Marked, Dropped
<1>3. Marked = [i \in DOMAIN requests |-> Marked[i]] /\ Dropped = [i \in DOMAIN requests |-> Dropped[i]]
  BY DEF Marked, Dropped
<1>4. Marked \in Seq(Requests) /\ Dropped \in Seq(Requests)
  BY <1>2, <1>3, QueueMapped, Zenon
<1> QED
  BY <1>4, QueueTail

\* Every step keeps the variables of the portal typed.
LEMMA PortalTypes ==
  ASSUME PortalTypeOK, PortalInv, PortalMoves
  PROVE  PortalTypeOK'
<1> SUFFICES ASSUME Typed PROVE Typed'
  BY TypedIsType, PTL
<1> USE QueueTypes DEF Typed
<1>1. CASE ReceivePaste
  BY <1>1 DEF ReceivePaste, Replied, sessionVars, EventKinds
<1>2. CASE ReceiveShutdown
  BY <1>2 DEF ReceiveShutdown, Stop
<1>3. CASE TypeFrame
  <2>1. typing' \in [frame : 0..4, request : Requests]
    BY <1>3, IdleType DEF TypeFrame, PortalInv, KeysUp
  <2>2. pasted' \in {"none", "ok", "Unavailable", "Failed"}
    BY <1>3 DEF TypeFrame, Replied
  <2> QED
    BY <1>3, <2>1, <2>2 DEF TypeFrame, sessionVars
<1>4. CASE DeviceResumed
  <2>1. CASE FlushFails /\ Reconnect
    BY <1>4, <2>1 DEF DeviceResumed, NextEvent, Reconnect, Marked
  <2>2. CASE ~(FlushFails /\ Reconnect)
    BY <1>4, <2>2 DEF DeviceResumed, NextEvent
  <2> QED
    BY <2>1, <2>2
<1>5. CASE DevicePaused
  BY <1>5 DEF DevicePaused, NextEvent
<1>6. CASE SessionLost
  BY <1>6 DEF SessionLost, NextEvent, Reconnect, Marked
<1>7. CASE OfflinePaste
  BY <1>7 DEF OfflinePaste, Replied, sessionVars
<1>8. CASE OfflineShutdown
  BY <1>8 DEF OfflineShutdown, Stop
<1>9. CASE DelayEnds
  BY <1>9 DEF DelayEnds, sessionVars
<1>10. CASE Connects
  BY <1>10 DEF Connects, Established, Stop
<1>11. CASE TypeFails
  <2>1. /\ health' = "Recovering" /\ worker' = "delay" /\ resumed' = FALSE /\ emulating' = FALSE
        /\ keyboard' = "gone" /\ events' = <<>> /\ keys' = {} /\ requests' = Marked
        /\ typing' = NotTyping /\ pasted' \in {pasted, "Failed"}
    BY <1>11 DEF TypeFails, Reconnect, Replied, Marked
  <2> QED
    BY <2>1, IdleType
<1>12. CASE ConnectFails
  BY <1>12 DEF ConnectFails, sessionVars
<1>13. CASE CompositorStep
  <2>1. /\ keyboard' \in {"paused", "resumed", "gone"}
        /\ \E e \in EventKinds : events' = Append(events, e)
        /\ UNCHANGED <<health, worker, resumed, emulating, requests, typing, pasted>>
    <3>1. CASE PauseKeyboard
      BY <3>1 DEF PauseKeyboard, EventKinds
    <3>2. CASE ResumeKeyboard
      BY <3>2 DEF ResumeKeyboard, EventKinds
    <3>3. CASE LoseKeyboard
      BY <3>3 DEF LoseKeyboard, EventKinds
    <3> QED
      BY <1>13, <3>1, <3>2, <3>3 DEF CompositorStep
  <2> QED
    BY <2>1
<1>14. CASE RequestPaste
  BY <1>14 DEF RequestPaste, PasteRequest, Requests, sessionVars
<1>15. CASE PasteTimesOut
  <2>1. requests' = Dropped /\ UNCHANGED <<worker, resumed, emulating, keyboard, events, pasted>>
    BY <1>15 DEF PasteTimesOut, Dropped, sessionVars
  <2>2. typing' \in [frame : 0..4, request : Requests]
    BY <1>15 DEF PasteTimesOut, Requests
  <2> QED
    BY <2>1, <2>2, <1>15 DEF PasteTimesOut
<1>16. CASE TakePasted
  BY <1>16 DEF TakePasted, sessionVars
<1>17. CASE RequestShutdown
  BY <1>17 DEF RequestShutdown, PasteRequest, Requests, sessionVars
<1>18. CASE UNCHANGED portalVars
  BY <1>18 DEF portalVars
<1> QED
  BY <1>1, <1>2, <1>3, <1>4, <1>5, <1>6, <1>7, <1>8, <1>9, <1>10, <1>11, <1>12, <1>13, <1>14,
     <1>15, <1>16, <1>17, <1>18
     DEF PortalMoves, WorkerStep

\* The last event, when one is taken from the queue or put into it.
LEMMA EventQueue ==
  ASSUME events \in Seq(EventKinds)
  PROVE  /\ events # <<>> /\ Tail(events) # <<>> =>
              Tail(events)[Len(Tail(events))] = LastEvent
         /\ events # <<>> /\ Tail(events) = <<>> => LastEvent = Head(events)
         /\ \A e \in EventKinds :
              Append(events, e) # <<>> /\ Append(events, e)[Len(Append(events, e))] = e
<1>1. events # <<>> => /\ Len(events) \in Nat \ {0} /\ Len(Tail(events)) = Len(events) - 1
                       /\ Tail(events) \in Seq(EventKinds) /\ Head(events) = events[1]
                       /\ \A i \in 1..Len(Tail(events)) : Tail(events)[i] = events[i + 1]
  BY QueueTail
<1>2. events # <<>> /\ Tail(events) # <<>> => Len(Tail(events)) \in Nat \ {0}
  BY <1>1, EmptySeq
<1> QED
  BY <1>1, <1>2, AppendProperties DEF LastEvent

\* The commands that wait, when one is taken from the queue or put into it.
LEMMA RequestQueue ==
  ASSUME requests \in Seq(Requests)
  PROVE  /\ requests # <<>> =>
              /\ 1 \in 1..Len(requests) /\ Head(requests) = requests[1]
              /\ \A i \in 1..Len(Tail(requests)) :
                   i + 1 \in 1..Len(requests) /\ Tail(requests)[i] = requests[i + 1]
         /\ \A r \in Requests : \A i \in 1..Len(Append(requests, r)) :
              \/ Append(requests, r)[i] = r
              \/ i \in 1..Len(requests) /\ Append(requests, r)[i] = requests[i]
         /\ \A i \in 1..Len(Dropped) :
              i \in 1..Len(requests) /\ Dropped[i].stale = requests[i].stale
         /\ 1..Len(<<>>) = {}
<1>1. requests # <<>> => /\ Len(requests) \in Nat \ {0} /\ Len(Tail(requests)) = Len(requests) - 1
                         /\ Head(requests) = requests[1]
                       /\ \A i \in 1..Len(Tail(requests)) : Tail(requests)[i] = requests[i + 1]
  BY QueueTail
<1>2. Len(Dropped) = Len(requests) /\ DOMAIN requests = 1..Len(requests)
  BY DEF Dropped
<1>3. \A i \in 1..Len(requests) : Dropped[i].stale = requests[i].stale
  <2> TAKE i \in 1..Len(requests)
  <2>1. requests[i] \in Requests /\ Dropped[i] = [requests[i] EXCEPT !.awaited = FALSE]
    BY <1>2 DEF Dropped
  <2> QED
    BY <2>1 DEF Requests
<1> QED
  BY <1>1, <1>2, <1>3, AppendProperties

\* No step lets a command of a session that is gone wait or be typed in the
\* next one: reconnecting marks and drops them.
LEMMA FreshStep ==
  ASSUME PortalTypeOK, PortalInv, PortalMoves
  PROVE  Fresh'
<1> SUFFICES ASSUME Typed PROVE Fresh'
  BY TypedIsType
<1> USE RequestQueue DEF Typed, PortalInv, Fresh, InSession
<1>1. CASE ReceivePaste
  BY <1>1 DEF ReceivePaste, Replied, sessionVars
<1>2. CASE ReceiveShutdown
  BY <1>2 DEF ReceiveShutdown, Stop
<1>3. CASE TypeFrame
  BY <1>3 DEF TypeFrame, Frames, NotTyping, sessionVars
<1>4. CASE DeviceResumed
  BY <1>4 DEF DeviceResumed, NextEvent, Reconnect
<1>5. CASE DevicePaused
  BY <1>5 DEF DevicePaused, NextEvent
<1>6. CASE SessionLost
  BY <1>6 DEF SessionLost, NextEvent, Reconnect
<1>7. CASE OfflinePaste
  BY <1>7 DEF OfflinePaste, sessionVars
<1>8. CASE OfflineShutdown
  BY <1>8 DEF OfflineShutdown, Stop
<1>9. CASE DelayEnds
  BY <1>9 DEF DelayEnds, sessionVars
<1>10. CASE Connects
  BY <1>10 DEF Connects, Established, Stop
<1>11. CASE TypeFails
  BY <1>11 DEF TypeFails, Reconnect
<1>12. CASE ConnectFails
  BY <1>12 DEF ConnectFails, sessionVars
<1>13. CASE CompositorStep
  BY <1>13 DEF CompositorStep, PauseKeyboard, ResumeKeyboard, LoseKeyboard
<1>14. CASE RequestPaste
  BY <1>14 DEF RequestPaste, PasteRequest, Requests, sessionVars
<1>15. CASE PasteTimesOut
  <2>1. requests' = Dropped /\ worker' = worker
    BY <1>15 DEF PasteTimesOut, Dropped
  <2>2. typing'.request.stale = typing.request.stale
    BY <1>15 DEF PasteTimesOut, Requests
  <2> QED
    BY <2>1, <2>2
<1>16. CASE TakePasted
  BY <1>16 DEF TakePasted, sessionVars
<1>17. CASE RequestShutdown /\ UNCHANGED <<instance, keys>>
  BY <1>17 DEF RequestShutdown, PasteRequest, Requests, sessionVars
<1>18. CASE UNCHANGED <<instance, portalVars>> /\ (keys' = keys \/ paste # "Portal")
  BY <1>18 DEF portalVars
<1> QED
  BY <1>1, <1>2, <1>3, <1>4, <1>5, <1>6, <1>7, <1>8, <1>9, <1>10, <1>11, <1>12, <1>13, <1>14,
     <1>15, <1>16, <1>17, <1>18
     DEF PortalMoves, WorkerStep

\* No step leaves a key down that the worker is not in the middle of typing.
LEMMA KeysStep ==
  ASSUME PortalTypeOK, PortalInv, PortalMoves
  PROVE  KeysUp'
<1> SUFFICES ASSUME Typed PROVE KeysUp'
  BY TypedIsType
<1> USE DEF Typed, PortalInv, KeysUp, paste
<1>1. CASE ReceivePaste
  BY <1>1 DEF ReceivePaste, Replied, sessionVars, Fresh, Believed, InSession, desktopVars
<1>2. CASE ReceiveShutdown
  BY <1>2 DEF ReceiveShutdown, Stop, Fresh, Believed, InSession, desktopVars
<1>3. CASE TypeFrame
  BY <1>3 DEF TypeFrame, Frames, NotTyping, sessionVars, Fresh, Believed, InSession, desktopVars
<1>4. CASE DeviceResumed
  BY <1>4 DEF DeviceResumed, NextEvent, Reconnect, Fresh, Believed, InSession, desktopVars
<1>5. CASE DevicePaused
  BY <1>5 DEF DevicePaused, NextEvent, Fresh, Believed, InSession, desktopVars
<1>6. CASE SessionLost
  BY <1>6 DEF SessionLost, NextEvent, Reconnect, Fresh, Believed, InSession, desktopVars
<1>7. CASE OfflinePaste
  BY <1>7 DEF OfflinePaste, sessionVars, Fresh, Believed, InSession, desktopVars
<1>8. CASE OfflineShutdown
  BY <1>8 DEF OfflineShutdown, Stop, Fresh, Believed, InSession, desktopVars
<1>9. CASE DelayEnds
  BY <1>9 DEF DelayEnds, sessionVars, Fresh, Believed, InSession, desktopVars
<1>10. CASE Connects
  BY <1>10 DEF Connects, Established, Stop, Fresh, Believed, InSession, desktopVars
<1>11. CASE TypeFails
  BY <1>11 DEF TypeFails, Reconnect, Fresh, Believed, InSession, desktopVars
<1>12. CASE ConnectFails
  BY <1>12 DEF ConnectFails, sessionVars, Fresh, Believed, InSession, desktopVars
<1>13. CASE CompositorStep
  BY <1>13
     DEF CompositorStep, PauseKeyboard, ResumeKeyboard, LoseKeyboard, Fresh, Believed,
         InSession, desktopVars
<1>14. CASE RequestPaste
  BY <1>14
     DEF RequestPaste, PasteRequest, Requests, sessionVars, Fresh, Believed, InSession,
         desktopVars
<1>15. CASE PasteTimesOut
  BY <1>15 DEF PasteTimesOut, Dropped, sessionVars, Fresh, Believed, InSession, desktopVars
<1>16. CASE TakePasted
  BY <1>16 DEF TakePasted, sessionVars, Fresh, Believed, InSession, desktopVars
<1>17. CASE RequestShutdown /\ UNCHANGED <<instance, keys>>
  BY <1>17
     DEF RequestShutdown, PasteRequest, Requests, sessionVars, Fresh, Believed, InSession,
         desktopVars
<1>18. CASE UNCHANGED <<instance, portalVars>> /\ (keys' = keys \/ paste # "Portal")
  BY <1>18 DEF portalVars
<1> QED
  BY <1>1, <1>2, <1>3, <1>4, <1>5, <1>6, <1>7, <1>8, <1>9, <1>10, <1>11, <1>12, <1>13, <1>14,
     <1>15, <1>16, <1>17, <1>18
     DEF PortalMoves, WorkerStep

\* Every step keeps what the worker believes of the keyboard in line with the
\* events it has not read yet.
LEMMA BelievedStep ==
  ASSUME PortalTypeOK, PortalInv, PortalMoves
  PROVE  Believed'
<1> SUFFICES ASSUME Typed PROVE Believed'
  BY TypedIsType
<1> USE EventQueue DEF Typed, PortalInv, Believed, InSession, LastEvent
<1>1. CASE ReceivePaste
  BY <1>1 DEF ReceivePaste, Replied, sessionVars
<1>2. CASE ReceiveShutdown
  BY <1>2 DEF ReceiveShutdown, Stop
<1>3. CASE TypeFrame
  BY <1>3 DEF TypeFrame, Frames, NotTyping, sessionVars
<1>4. CASE DeviceResumed
  BY <1>4 DEF DeviceResumed, NextEvent, Reconnect
<1>5. CASE DevicePaused
  BY <1>5 DEF DevicePaused, NextEvent
<1>6. CASE SessionLost
  BY <1>6 DEF SessionLost, NextEvent, Reconnect
<1>7. CASE OfflinePaste
  BY <1>7 DEF OfflinePaste, sessionVars
<1>8. CASE OfflineShutdown
  BY <1>8 DEF OfflineShutdown, Stop
<1>9. CASE DelayEnds
  BY <1>9 DEF DelayEnds, sessionVars
<1>10. CASE Connects
  BY <1>10 DEF Connects, Established, Stop
<1>11. CASE TypeFails
  BY <1>11 DEF TypeFails, Reconnect
<1>12. CASE ConnectFails
  BY <1>12 DEF ConnectFails, sessionVars
<1>13. CASE CompositorStep
  <2>1. CASE PauseKeyboard
    BY <2>1 DEF PauseKeyboard, EventKinds
  <2>2. CASE ResumeKeyboard
    BY <2>2 DEF ResumeKeyboard, EventKinds
  <2>3. CASE LoseKeyboard
    BY <2>3 DEF LoseKeyboard, EventKinds, Connected
  <2> QED
    BY <1>13, <2>1, <2>2, <2>3 DEF CompositorStep
<1>14. CASE RequestPaste
  BY <1>14 DEF RequestPaste, PasteRequest, Requests, sessionVars
<1>15. CASE PasteTimesOut
  BY <1>15 DEF PasteTimesOut, Dropped, sessionVars
<1>16. CASE TakePasted
  BY <1>16 DEF TakePasted, sessionVars
<1>17. CASE RequestShutdown /\ UNCHANGED <<instance, keys>>
  BY <1>17 DEF RequestShutdown, PasteRequest, Requests, sessionVars
<1>18. CASE UNCHANGED <<instance, portalVars>> /\ (keys' = keys \/ paste # "Portal")
  BY <1>18 DEF portalVars
<1> QED
  BY <1>1, <1>2, <1>3, <1>4, <1>5, <1>6, <1>7, <1>8, <1>9, <1>10, <1>11, <1>12, <1>13, <1>14,
     <1>15, <1>16, <1>17, <1>18
     DEF PortalMoves, WorkerStep

-----------------------------------------------------------------------------
(* The steps of Delivery *)

\* Who types in the activation's thread has a frame, and is not the portal.
ActInv ==
  /\ act \in [pc : {"idle", "restore", "restoring", "check", "checking", "again",
                   "paste", "pasting", "typing"},
             seen : Nat, frame : 0..4]
  /\ act.pc = "typing" => act.frame \in 1..4 /\ paste # "Portal"

DeliveryInv ==
  DesktopTypeOK /\ KWinTypeOK /\ PortalTypeOK /\ PopupTypeOK /\ ActInv /\ PortalInv

\* The activation that pastes keeps its own invariant, and the instance stays.
LEMMA ActStays ==
  ASSUME ActInv, DesktopTypeOK, DNext
  PROVE  ActInv' /\ instance' = instance
<1> USE DEF ActInv, Idle, Answer, Goto, paste, desktopVars, kwinVars, portalVars, popupVars
<1>1. CASE UserMoves
  BY <1>1 DEF UserMoves, UserFocus, CloseWindow
<1>2. CASE Granted
  BY <1>2 DEF Granted, GrantFocus
<1>3. CASE PopupStep
  BY <1>3 DEF PopupStep, Launch, LaunchFails, Spawn, Reap, Frame
<1>4. CASE KWin
  BY <1>4 DEF KWin, KWinStep, HelperRuns, HelperReloads, TakeCommand, ReadCallback, CallbackTimesOut
<1>5. CASE Portal
  BY <1>5
     DEF Portal, WorkerStep, TypeFails, ConnectFails, CompositorStep, ReceivePaste,
         ReceiveShutdown, TypeFrame, DeviceResumed, DevicePaused, SessionLost, OfflinePaste,
         OfflineShutdown, DelayEnds, Connects, NextEvent, PauseKeyboard, ResumeKeyboard,
         LoseKeyboard
<1>6. CASE Shutdown
  BY <1>6 DEF Shutdown
<1>7. CASE CaptureAtOnce
  BY <1>7 DEF CaptureAtOnce
<1>8. CASE CaptureOnKWin
  BY <1>8 DEF CaptureOnKWin
<1>9. CASE CaptureAnswered
  BY <1>9 DEF CaptureAnswered
<1>10. CASE CaptureTimesOut
  BY <1>10 DEF CaptureTimesOut
<1>11. CASE Activate
  BY <1>11 DEF Activate
<1>12. CASE RestoreAtOnce
  BY <1>12 DEF RestoreAtOnce
<1>13. CASE RestoreOnKWin
  BY <1>13 DEF RestoreOnKWin
<1>14. CASE RestoreAnswered
  BY <1>14 DEF RestoreAnswered
<1>15. CASE CheckAtOnce
  <2>1. CASE act' = Idle
    BY <2>1, <1>15 DEF CheckAtOnce
  <2>2. ASSUME NEW p \in {"paste", "again"}, act' = [act EXCEPT !.pc = p, !.seen = moves]
        PROVE  ActInv' /\ instance' = instance
    BY <2>2, <1>15 DEF CheckAtOnce, DesktopTypeOK
  <2> QED
    BY <2>1, <2>2, <1>15 DEF CheckAtOnce
<1>16. CASE CheckOnKWin
  BY <1>16 DEF CheckOnKWin, Request, DesktopTypeOK
<1>17. CASE CheckAnswered
  BY <1>17 DEF CheckAnswered
<1>18. CASE CheckAgain
  BY <1>18 DEF CheckAgain
<1>19. CASE Paste
  <2>1. CASE act' = Idle
    BY <2>1, <1>19 DEF Paste, RequestPaste
  <2>2. CASE act' = [act EXCEPT !.pc = "pasting"]
    BY <2>2, <1>19 DEF Paste, RequestPaste
  <2>3. CASE paste \in {"X11", "Wlroots"} /\ act' = [act EXCEPT !.pc = "typing", !.frame = 1]
    <3>1. instance' = instance
      BY <1>19 DEF Paste
    <3>2. act'.pc = "typing" /\ act'.frame = 1 /\ paste # "Portal"
      BY <2>3
    <3>3. act' \in [pc : {"idle", "restore", "restoring", "check", "checking", "again",
                         "paste", "pasting", "typing"}, seen : Nat, frame : 0..4]
      <4>1. act' = [act EXCEPT !.pc = "typing", !.frame = 1] /\ 1 \in 0..4
        BY <2>3
      <4> HIDE DEF paste
      <4> QED
        BY <4>1
    <3> QED
      BY <3>1, <3>2, <3>3
  <2> QED
    BY <2>1, <2>2, <2>3, <1>19 DEF Paste
<1>20. CASE TypeKey
  BY <1>20 DEF TypeKey
<1>21. CASE PasteAnswered
  BY <1>21 DEF PasteAnswered, TakePasted
<1>22. CASE KWinTimesOut
  BY <1>22 DEF KWinTimesOut
<1>23. CASE TimeIsUp
  BY <1>23 DEF TimeIsUp
<1>24. CASE TypeKeyFails
  BY <1>24 DEF TypeKeyFails
<1>25. CASE PasteGivenUp
  BY <1>25 DEF PasteGivenUp, PasteTimesOut
<1> QED
  BY <1>1, <1>2, <1>3, <1>4, <1>5, <1>6, <1>7, <1>8, <1>9, <1>10, <1>11, <1>12, <1>13, <1>14,
     <1>15, <1>16, <1>17, <1>18, <1>19, <1>20, <1>21, <1>22, <1>23, <1>24, <1>25
     DEF DNext, CaptureStep, ActStep

\* Every step of Delivery is, to the portal, one of PortalMoves.
LEMMA PortalIsMoved ==
  ASSUME ActInv, DesktopTypeOK, DNext
  PROVE  PortalMoves
<1>0. instance' = instance
  BY ActStays
<1> USE <1>0 DEF PortalMoves, desktopVars, kwinVars, portalVars, popupVars
<1>1. CASE UserMoves
  BY <1>1 DEF UserMoves, UserFocus, CloseWindow
<1>2. CASE Granted
  BY <1>2 DEF Granted, GrantFocus
<1>3. CASE PopupStep
  BY <1>3 DEF PopupStep, Launch, LaunchFails, Spawn, Reap, Frame
<1>4. CASE KWin
  BY <1>4 DEF KWin, KWinStep, HelperRuns, HelperReloads, TakeCommand, ReadCallback, CallbackTimesOut
<1>5. CASE Portal
  BY <1>5 DEF Portal
<1>6. CASE Shutdown
  BY <1>6 DEF Shutdown
<1>7. CASE CaptureAtOnce
  BY <1>7 DEF CaptureAtOnce
<1>8. CASE CaptureOnKWin
  BY <1>8 DEF CaptureOnKWin
<1>9. CASE CaptureAnswered
  BY <1>9 DEF CaptureAnswered
<1>10. CASE CaptureTimesOut
  BY <1>10 DEF CaptureTimesOut
<1>11. CASE Activate
  BY <1>11 DEF Activate
<1>12. CASE RestoreAtOnce
  BY <1>12 DEF RestoreAtOnce
<1>13. CASE RestoreOnKWin
  BY <1>13 DEF RestoreOnKWin
<1>14. CASE RestoreAnswered
  BY <1>14 DEF RestoreAnswered
<1>15. CASE CheckAtOnce
  BY <1>15 DEF CheckAtOnce
<1>16. CASE CheckOnKWin
  BY <1>16 DEF CheckOnKWin
<1>17. CASE CheckAnswered
  BY <1>17 DEF CheckAnswered
<1>18. CASE CheckAgain
  BY <1>18 DEF CheckAgain
<1>19. CASE Paste
  BY <1>19 DEF Paste
<1>20. CASE TypeKey
  BY <1>20 DEF TypeKey, ActInv
<1>21. CASE PasteAnswered
  BY <1>21 DEF PasteAnswered
<1>22. CASE KWinTimesOut
  BY <1>22 DEF KWinTimesOut
<1>23. CASE TimeIsUp
  BY <1>23 DEF TimeIsUp
<1>24. CASE TypeKeyFails
  BY <1>24 DEF TypeKeyFails
<1>25. CASE PasteGivenUp
  BY <1>25 DEF PasteGivenUp
<1> QED
  BY <1>1, <1>2, <1>3, <1>4, <1>5, <1>6, <1>7, <1>8, <1>9, <1>10, <1>11, <1>12, <1>13, <1>14,
     <1>15, <1>16, <1>17, <1>18, <1>19, <1>20, <1>21, <1>22, <1>23, <1>24, <1>25
     DEF DNext, CaptureStep, ActStep

-----------------------------------------------------------------------------
(* Types of the focus on KDE *)

Kinds == {"Capture", "Restore", "IsActive"}

Commands == [kind : Kinds, target : Targets, awaited : BOOLEAN]

Callbacks == [kind : {"Captured", "CaptureUnavailable", "RestoreRequested",
                      "RestoreNoTarget", "RestoreNotFound", "Active", "ActiveNone"},
              window : Targets]

Replies == [result : Results, window : Targets]

KWinTyped ==
  /\ captured \in Targets
  /\ invoked \in Seq(Kinds)
  /\ callbacks \in Seq(Callbacks)
  /\ commands \in Seq(Commands)
  /\ command \in Commands \cup {NoCommand}
  /\ reply \in Replies

\* The type invariant of KWinFocus, with the queues written as sequences.
LEMMA KWinTypedIsType == KWinTypeOK <=> KWinTyped
BY DEF KWinTypeOK, KWinTyped, Kinds, Commands, Callbacks, Replies

KWinMoves ==
  \/ KWinStep
  \/ \E kind \in Kinds, w \in Targets : Request(kind, w)
  \/ TakeReply
  \/ GiveUp
  \/ UNCHANGED kwinVars

GivenUpCommands == [i \in DOMAIN commands |-> [commands[i] EXCEPT !.awaited = FALSE]]

\* What is taken from the queues of KWin and put into them is typed.
LEMMA KWinQueues ==
  ASSUME KWinTyped
  PROVE  /\ invoked # <<>> => Tail(invoked) \in Seq(Kinds)
         /\ \A k \in Kinds : Append(invoked, k) \in Seq(Kinds)
         /\ callbacks # <<>> => Head(callbacks) \in Callbacks /\ Tail(callbacks) \in Seq(Callbacks)
         /\ \A c \in Callbacks : Append(callbacks, c) \in Seq(Callbacks)
         /\ commands # <<>> => Head(commands) \in Commands /\ Tail(commands) \in Seq(Commands)
         /\ \A c \in Commands : Append(commands, c) \in Seq(Commands)
         /\ GivenUpCommands \in Seq(Commands)
<1>1. ASSUME NEW i \in DOMAIN commands PROVE GivenUpCommands[i] \in Commands
  <2>1. commands[i] \in Commands
    BY DEF KWinTyped
  <2>2. GivenUpCommands[i] = [commands[i] EXCEPT !.awaited = FALSE]
    BY DEF GivenUpCommands
  <2> QED
    BY <2>1, <2>2 DEF Commands
<1>2. GivenUpCommands = [i \in DOMAIN commands |-> GivenUpCommands[i]]
  BY DEF GivenUpCommands
<1>3. GivenUpCommands \in Seq(Commands)
  BY <1>1, <1>2, QueueMapped, Zenon DEF KWinTyped
<1> QED
  BY <1>3, QueueTail DEF KWinTyped

\* Whatever the helper may answer is a reply.
LEMMA AnswerType ==
  ASSUME NEW c, NEW r \in Callbacks, NEW a \in Answers(c, r)
  PROVE  a \in Replies
<1>1. NoWindow \in Targets /\ r.window \in Targets
  BY DEF Callbacks, Targets
<1>2. ASSUME NEW result \in Results, NEW w \in Targets, a = Reply(result, w) PROVE a \in Replies
  BY <1>2 DEF Reply, Replies
<1>3. PICK w \in Targets : \E result \in {"ok", "Unavailable", "Failed", "true", "false"} : a = Reply(result, w)
  BY <1>1 DEF Answers
<1> QED
  BY <1>2, <1>3 DEF Results

\* Every step keeps the variables of KWin's helper typed.
LEMMA KWinTypes ==
  ASSUME DesktopTypeOK, KWinTypeOK, KWinMoves
  PROVE  KWinTypeOK'
<1> SUFFICES ASSUME KWinTyped PROVE KWinTyped'
  BY KWinTypedIsType, PTL
<1> USE KWinQueues DEF KWinTyped
<1>1. CASE HelperRuns
  <2>1. ASSUME NEW k \in {"Captured", "CaptureUnavailable", "RestoreRequested",
                      "RestoreNoTarget", "RestoreNotFound", "Active", "ActiveNone"},
               NEW w \in Targets, Says(k, w), captured' \in Targets
        PROVE  KWinTyped'
    BY <1>1, <2>1 DEF HelperRuns, Says, Callback, Callbacks
  <2>2. NoWindow \in Targets /\ open \subseteq Targets
    BY DEF DesktopTypeOK, Targets
  <2> QED
    BY <1>1, <2>1, <2>2
       DEF HelperRuns, CaptureActiveWindow, RestoreCapturedWindow, ReportActiveWindow,
           DesktopTypeOK
<1>2. CASE HelperReloads
  BY <1>2 DEF HelperReloads, Targets
<1>3. CASE TakeCommand
  <2>1. Reply("Failed", NoWindow) \in Replies
    BY DEF Reply, Replies, Results, Targets
  <2>2. commands # <<>> => Head(commands).kind \in Kinds
    BY DEF Commands
  <2> QED
    BY <1>3, <2>1, <2>2 DEF TakeCommand
<1>4. CASE ReadCallback
  BY <1>4, AnswerType DEF ReadCallback, Finish
<1>5. CASE CallbackTimesOut
  BY <1>5 DEF CallbackTimesOut, Finish, Reply, Replies, Results, Targets
<1>6. ASSUME NEW kind \in Kinds, NEW w \in Targets, Request(kind, w)
      PROVE  KWinTyped'
  BY <1>6 DEF Request, Command, Commands
<1>7. CASE TakeReply
  BY <1>7 DEF TakeReply, NoReply, Replies, Results, Targets
<1>8. CASE GiveUp
  <2>1. commands' = GivenUpCommands
    BY <1>8 DEF GiveUp, GivenUpCommands
  <2>2. command' \in Commands \cup {NoCommand}
    <3>1. CASE command \in Commands
      BY <1>8, <3>1 DEF GiveUp, Commands
    <3>2. CASE command = NoCommand
      BY <1>8, <3>2 DEF GiveUp, NoCommand
    <3> QED
      BY <3>1, <3>2
  <2> QED
    BY <2>1, <2>2, <1>8 DEF GiveUp
<1>9. CASE UNCHANGED kwinVars
  BY <1>9 DEF kwinVars
<1> QED
  BY <1>1, <1>2, <1>3, <1>4, <1>5, <1>6, <1>7, <1>8, <1>9 DEF KWinMoves, KWinStep

\* Every step of Delivery is, to the helper of KWin, one of KWinMoves.
LEMMA KWinIsMoved ==
  ASSUME PopupTypeOK, DNext
  PROVE  KWinMoves
<1> USE DEF KWinMoves, Kinds, desktopVars, kwinVars, portalVars, popupVars
<1>1. popup.target \in Targets /\ NoWindow \in Targets
  BY DEF PopupTypeOK, Targets
<1>2. CASE UserMoves
  BY <1>2 DEF UserMoves
<1>3. CASE Granted
  BY <1>3 DEF Granted
<1>4. CASE PopupStep
  BY <1>4 DEF PopupStep
<1>5. CASE KWin
  BY <1>5 DEF KWin
<1>6. CASE Portal
  BY <1>6 DEF Portal
<1>7. CASE Shutdown
  BY <1>7 DEF Shutdown
<1>8. CASE CaptureAtOnce
  BY <1>8 DEF CaptureAtOnce
<1>9. CASE CaptureOnKWin
  BY <1>9, <1>1 DEF CaptureOnKWin
<1>10. CASE CaptureAnswered
  BY <1>10 DEF CaptureAnswered
<1>11. CASE CaptureTimesOut
  BY <1>11 DEF CaptureTimesOut
<1>12. CASE Activate
  BY <1>12 DEF Activate
<1>13. CASE RestoreAtOnce
  BY <1>13 DEF RestoreAtOnce
<1>14. CASE RestoreOnKWin
  BY <1>14, <1>1 DEF RestoreOnKWin
<1>15. CASE RestoreAnswered
  BY <1>15 DEF RestoreAnswered
<1>16. CASE CheckAtOnce
  BY <1>16 DEF CheckAtOnce
<1>17. CASE CheckOnKWin
  BY <1>17, <1>1 DEF CheckOnKWin
<1>18. CASE CheckAnswered
  BY <1>18 DEF CheckAnswered
<1>19. CASE CheckAgain
  BY <1>19 DEF CheckAgain
<1>20. CASE Paste
  BY <1>20 DEF Paste
<1>21. CASE TypeKey
  BY <1>21 DEF TypeKey
<1>22. CASE PasteAnswered
  BY <1>22 DEF PasteAnswered
<1>23. CASE KWinTimesOut
  BY <1>23 DEF KWinTimesOut
<1>24. CASE TimeIsUp
  BY <1>24 DEF TimeIsUp
<1>25. CASE TypeKeyFails
  BY <1>25 DEF TypeKeyFails
<1>26. CASE PasteGivenUp
  BY <1>26 DEF PasteGivenUp
<1> QED
  BY <1>2, <1>3, <1>4, <1>5, <1>6, <1>7, <1>8, <1>9, <1>10, <1>11, <1>12, <1>13, <1>14,
     <1>15, <1>16, <1>17, <1>18, <1>19, <1>20, <1>21, <1>22, <1>23, <1>24, <1>25, <1>26
     DEF DNext, CaptureStep, ActStep

-----------------------------------------------------------------------------
(* Types of the desktop and of the popup *)

\* A disturbance that is spent leaves the rest counted.
LEMMA Spends ==
  ASSUME DesktopTypeOK, NEW k \in Disturbances, Spend(k)
  PROVE  left' \in [Disturbances -> Nat]
BY DEF DesktopTypeOK, Spend

\* Every step keeps the windows, the focus and the rest of the desktop typed.
LEMMA DesktopTypes ==
  ASSUME DeliveryInv, DNext
  PROVE  DesktopTypeOK'
<1>0. /\ \A k \in {"move", "late", "fault", "pause", "stop"} :
           Spend(k) => left' \in [Disturbances -> Nat]
      /\ open \subseteq Targets /\ NoWindow \in Targets /\ Popup \in Targets
      /\ popup.target \in Targets /\ captured \in Targets
      /\ \A i \in 1..4 : Frames[i] \subseteq {"ctrl", "v"}
  BY Spends, FramesType
     DEF Disturbances, DeliveryInv, PopupTypeOK, KWinTypeOK, DesktopTypeOK, Targets
<1> USE <1>0 DEF DeliveryInv, DesktopTypeOK, desktopVars, popupVars
<1>1. CASE UserMoves
  BY <1>1 DEF UserMoves, UserFocus, CloseWindow, Targets
<1>2. CASE Granted
  BY <1>2 DEF Granted, GrantFocus
<1>3. CASE PopupStep
  BY <1>3 DEF PopupStep, Launch, LaunchFails, Spawn, Reap, Frame, LeavesScreen
<1>4. CASE KWin
  BY <1>4
     DEF KWin, KWinStep, HelperRuns, HelperReloads, TakeCommand, ReadCallback,
         CallbackTimesOut, RestoreCapturedWindow
<1>5. CASE Portal
  BY <1>5
     DEF Portal, WorkerStep, TypeFails, ConnectFails, CompositorStep, ReceivePaste,
         ReceiveShutdown, TypeFrame, DeviceResumed, DevicePaused, SessionLost, OfflinePaste,
         OfflineShutdown, DelayEnds, Connects, NextEvent, PauseKeyboard, ResumeKeyboard,
         LoseKeyboard, Stop, Reconnect, FlushFails, PortalInv, KeysUp
<1>6. CASE Shutdown
  BY <1>6 DEF Shutdown
<1>7. CASE CaptureAtOnce
  BY <1>7 DEF CaptureAtOnce
<1>8. CASE CaptureOnKWin
  BY <1>8 DEF CaptureOnKWin
<1>9. CASE CaptureAnswered
  BY <1>9 DEF CaptureAnswered, Opens
<1>10. CASE CaptureTimesOut
  BY <1>10 DEF CaptureTimesOut, Opens, GiveUp
<1>11. CASE Activate
  BY <1>11 DEF Activate
<1>12. CASE RestoreAtOnce
  BY <1>12 DEF RestoreAtOnce
<1>13. CASE RestoreOnKWin
  BY <1>13 DEF RestoreOnKWin
<1>14. CASE RestoreAnswered
  BY <1>14 DEF RestoreAnswered
<1>15. CASE CheckAtOnce
  BY <1>15 DEF CheckAtOnce
<1>16. CASE CheckOnKWin
  BY <1>16 DEF CheckOnKWin
<1>17. CASE CheckAnswered
  BY <1>17 DEF CheckAnswered
<1>18. CASE CheckAgain
  BY <1>18 DEF CheckAgain
<1>19. CASE Paste
  BY <1>19 DEF Paste, RequestPaste
<1>20. CASE TypeKey
  BY <1>20 DEF TypeKey, ActInv
<1>21. CASE PasteAnswered
  BY <1>21 DEF PasteAnswered, TakePasted
<1>22. CASE KWinTimesOut
  BY <1>22 DEF KWinTimesOut, GiveUp
<1>23. CASE TimeIsUp
  BY <1>23 DEF TimeIsUp
<1>24. CASE TypeKeyFails
  BY <1>24 DEF TypeKeyFails
<1>25. CASE PasteGivenUp
  BY <1>25 DEF PasteGivenUp, PasteTimesOut
<1> QED
  BY <1>1, <1>2, <1>3, <1>4, <1>5, <1>6, <1>7, <1>8, <1>9, <1>10, <1>11, <1>12, <1>13, <1>14,
     <1>15, <1>16, <1>17, <1>18, <1>19, <1>20, <1>21, <1>22, <1>23, <1>24, <1>25
     DEF DNext, CaptureStep, ActStep

Popups ==
  [pc : {"none", "launching", "start", "capture", "open", "exited"},
   target : Targets, origin : SUBSET Targets, visible : BOOLEAN,
   hadFocus : BOOLEAN, acquisition : {"waiting", "activating", "timedOut"},
   busy : BOOLEAN, outcome : Outcomes \cup {"none"}, wake : BOOLEAN]

\* An outcome that is published to the popup is one of its outcomes.
LEMMA Published ==
  ASSUME popup \in Popups, NEW o \in Outcomes, Publish(o)
  PROVE  popup' \in Popups /\ popup'.pc = popup.pc
BY DEF Popups, Publish

\* A frame of the popup, whatever its inputs were, leaves it typed.
LEMMA FrameTypes ==
  ASSUME DesktopTypeOK, popup \in Popups, NEW i \in Inputs, Frame(i)
  PROVE  popup' \in Popups /\ popup'.pc # "none"
<1>1. PICK hadFocus \in BOOLEAN, busy \in BOOLEAN, shown \in BOOLEAN, a \in Acquisition :
        \/ popup' = [popup EXCEPT !.pc = "exited", !.visible = FALSE]
        \/ popup' = [[popup EXCEPT !.hadFocus = hadFocus, !.acquisition = a, !.busy = busy,
                                  !.outcome = "none", !.wake = FALSE]
                     EXCEPT !.visible = FALSE, !.busy = TRUE]
        \/ popup' = [[popup EXCEPT !.hadFocus = hadFocus, !.acquisition = a, !.busy = busy,
                                  !.outcome = "none", !.wake = FALSE]
                     EXCEPT !.visible = shown]
  BY DEF Frame, Popups
<1>2. a \in {"waiting", "activating", "timedOut"}
  BY DEF Acquisition, Popups
<1>3. popup.pc = "open"
  BY DEF Frame
<1> QED
  BY <1>1, <1>2, <1>3 DEF Popups

\* Every step keeps the popup typed.
LEMMA PopupTypes ==
  ASSUME DeliveryInv, DNext
  PROVE  PopupTypeOK'
<1>0. /\ popup \in Popups /\ slot = (popup.pc # "none")
      /\ active \in Targets /\ active' \in Targets /\ NoWindow \in Targets
      /\ reply.window \in Targets
  BY DesktopTypes DEF DeliveryInv, DesktopTypeOK, PopupTypeOK, KWinTypeOK, Popups, Targets
<1> SUFFICES popup' \in Popups /\ slot' = (popup'.pc # "none")
  BY DEF PopupTypeOK, Popups
<1>a. ASSUME NEW o \in Outcomes, Answer(o), slot' = slot
      PROVE  popup' \in Popups /\ slot' = (popup'.pc # "none")
  BY <1>0, <1>a, Published DEF Answer
<1> USE <1>0, <1>a DEF Outcomes, desktopVars, popupVars
<1>1. CASE UserMoves
  BY <1>1 DEF UserMoves, Popups
<1>2. CASE Granted
  BY <1>2 DEF Granted
<1>3. CASE PopupStep
  <2>1. CASE Launch \/ LaunchFails \/ Spawn \/ Reap
    <3>1. NoProcess \in Popups /\ [NoProcess EXCEPT !.pc = "launching"] \in Popups
      BY DEF NoProcess, Popups
    <3>2. [popup EXCEPT !.pc = "start"] \in Popups
      BY DEF Popups
    <3>3. CASE Launch
      BY <3>1, <3>3 DEF Launch, NoProcess
    <3>4. CASE LaunchFails
      BY <3>1, <3>4 DEF LaunchFails, NoProcess
    <3>5. CASE Spawn
      BY <3>2, <3>5 DEF Spawn, Popups
    <3>6. CASE Reap
      BY <3>1, <3>6 DEF Reap, NoProcess
    <3> QED
      BY <2>1, <3>3, <3>4, <3>5, <3>6
  <2>2. ASSUME NEW i \in Inputs, Frame(i)
        PROVE  popup' \in Popups /\ slot' = (popup'.pc # "none")
    BY <2>2, FrameTypes DEF Frame, DeliveryInv
  <2> QED
    BY <1>3, <2>1, <2>2 DEF PopupStep
<1>4. CASE KWin
  BY <1>4 DEF KWin, Popups
<1>5. CASE Portal
  BY <1>5 DEF Portal
<1>6. CASE Shutdown
  BY <1>6 DEF Shutdown
<1>7. CASE CaptureAtOnce
  <2>1. PICK target \in Targets :
          popup' = [popup EXCEPT !.pc = "open", !.target = target, !.visible = TRUE,
                                 !.origin = {active}]
    BY <1>7 DEF CaptureAtOnce
  <2>2. popup' \in Popups /\ popup'.pc = "open"
    BY <2>1 DEF Popups
  <2> QED
    BY <1>7, <2>2 DEF CaptureAtOnce
<1>8. CASE CaptureOnKWin
  BY <1>8 DEF CaptureOnKWin, Popups
<1>9. CASE CaptureAnswered
  BY <1>9 DEF CaptureAnswered, Opens, Popups
<1>10. CASE CaptureTimesOut
  BY <1>10 DEF CaptureTimesOut, Opens, Popups
<1>11. CASE Activate
  BY <1>11 DEF Activate
<1>12. CASE RestoreAtOnce
  BY <1>12 DEF RestoreAtOnce
<1>13. CASE RestoreOnKWin
  BY <1>13 DEF RestoreOnKWin
<1>14. CASE RestoreAnswered
  BY <1>14 DEF RestoreAnswered
<1>15. CASE CheckAtOnce
  BY <1>15 DEF CheckAtOnce
<1>16. CASE CheckOnKWin
  BY <1>16 DEF CheckOnKWin
<1>17. CASE CheckAnswered
  BY <1>17 DEF CheckAnswered
<1>18. CASE CheckAgain
  BY <1>18 DEF CheckAgain
<1>19. CASE Paste
  BY <1>19 DEF Paste
<1>20. CASE TypeKey
  BY <1>20 DEF TypeKey
<1>21. CASE PasteAnswered
  BY <1>21 DEF PasteAnswered, DeliveryInv, PortalTypeOK
<1>22. CASE KWinTimesOut
  BY <1>22 DEF KWinTimesOut
<1>23. CASE TimeIsUp
  BY <1>23 DEF TimeIsUp
<1>24. CASE TypeKeyFails
  BY <1>24 DEF TypeKeyFails
<1>25. CASE PasteGivenUp
  BY <1>25 DEF PasteGivenUp
<1> QED
  BY <1>1, <1>2, <1>3, <1>4, <1>5, <1>6, <1>7, <1>8, <1>9, <1>10, <1>11, <1>12, <1>13, <1>14,
     <1>15, <1>16, <1>17, <1>18, <1>19, <1>20, <1>21, <1>22, <1>23, <1>24, <1>25
     DEF DNext, CaptureStep, ActStep

-----------------------------------------------------------------------------
(* What holds of every delivery *)

\* The parts of Delivery start with their invariants.
LEMMA DeliveryStarts == DInit => DeliveryInv
<1> SUFFICES ASSUME DInit PROVE DeliveryInv
  OBVIOUS
<1>1. DesktopTypeOK
  BY DesktopAssumption DEF DInit, DesktopInit, DesktopTypeOK, Targets
<1>2. KWinTypeOK
  BY EmptyQueue
     DEF DInit, KWinInit, KWinTypeOK, NoCommand, NoReply, Results, Targets
<1>3. PopupTypeOK
  BY DEF DInit, PopupInit, PopupTypeOK, NoProcess, Targets
<1>4. ActInv
  BY DEF DInit, Idle, ActInv
<1> QED
  BY <1>1, <1>2, <1>3, <1>4, PortalStarts DEF DeliveryInv

\* And every step keeps them all.
LEMMA DeliveryStep == DeliveryInv /\ [DNext]_dvars => DeliveryInv'
<1>1. ASSUME DeliveryInv, DNext PROVE DeliveryInv'
  BY <1>1, DesktopTypes, KWinTypes, KWinIsMoved, PortalTypes, PortalIsMoved, FreshStep,
     KeysStep, BelievedStep, PopupTypes, ActStays
     DEF DeliveryInv, PortalInv
<1>2. ASSUME DeliveryInv, UNCHANGED dvars PROVE DeliveryInv'
  <2> USE <1>2 DEF DeliveryInv, dvars, desktopVars, kwinVars, portalVars, popupVars
  <2>1. DesktopTypeOK' /\ KWinTypeOK' /\ PopupTypeOK' /\ PortalTypeOK'
    BY DEF DesktopTypeOK, KWinTypeOK, PopupTypeOK, PortalTypeOK
  <2>2. ActInv' /\ PortalInv'
    BY DEF ActInv, PortalInv, Fresh, KeysUp, Believed, InSession, LastEvent, paste
  <2> QED
    BY <2>1, <2>2
<1> QED
  BY <1>1, <1>2

\* In every execution of Delivery, for any instances and windows, everything is
\* typed and the paste of the portal keeps to its session and releases its keys.
THEOREM DeliveryCorrect == DSpec => []DeliveryInv
BY DeliveryStarts, DeliveryStep, PTL DEF DSpec

-----------------------------------------------------------------------------
(* The window that is typed into *)

\* The call the activation or the capture is in, which may be answered.
Asks == popup.pc = "capture" \/ act.pc \in {"restoring", "checking"}

Waiting == Asks /\ reply = NoReply

Wanted ==
  CASE popup.pc = "capture" -> "Capture"
    [] popup.pc # "capture" /\ act.pc = "restoring" -> "Restore"
    [] OTHER -> "IsActive"

\* An activation belongs to a popup that is open, hidden, and has no answer yet;
\* only what the popup asked for, or its activation, gets the focus.
ScreenInv ==
  /\ active = Popup => popup.visible
  /\ popup.visible => popup.pc = "open"
  /\ popup.pc \notin {"open", "exited"} =>
       ~popup.busy /\ popup.outcome = "none" /\ ~popup.wake
  /\ popup.pc = "open" /\ popup.busy => ~popup.visible /\ popup.hadFocus
  /\ popup.pc = "open" /\ popup.wake => popup.outcome # "none"
  /\ popup.pc = "open" /\ popup.outcome # "none" => popup.busy
  /\ act.pc # "idle" =>
       /\ popup.pc = "open" /\ popup.busy
       /\ popup.outcome = "none" /\ popup.target # NoWindow
  /\ popup.pc = "open" => asked \in {NoWindow, Popup, popup.target}
  /\ focus = "Kde" => asked = NoWindow \/ (asked = Popup /\ popup.pc = "open")
  /\ Asks => focus = "Kde"
  /\ act.seen <= moves

\* The popup of Plasma closes when it loses the focus.
LEMMA KdeDismisses ==
  ASSUME DesktopTypeOK, focus = "Kde"
  PROVE  dismisses
<1>1. instance.environment.desktop = "kde"
  <2> DEFINE e == instance.environment
  <2>1. FocusBackend(e) = "Kde"
    BY DEF focus
  <2>2. DesktopKind(e) = "Kde"
    BY <2>1 DEF FocusBackend
  <2> QED
    BY <2>2 DEF DesktopKind
<1> QED
  BY <1>1 DEF dismisses, DismissesOnFocusLoss

\* A frame of a popup that is hidden by an activation only shows it again,
\* which on Plasma closes it, or reads how the activation ended.
LEMMA FrameScreen ==
  ASSUME DeliveryInv, ScreenInv, NEW i \in Inputs, Frame(i), act' = act
  PROVE  /\ act.pc = "idle" /\ popup.pc = "open"
         /\ \/ popup'.pc = "exited"
            \/ /\ popup'.pc = "open" /\ popup'.target = popup.target
               /\ popup'.outcome = "none"
               /\ popup.outcome # "none" => focus # "Kde"
         /\ ScreenInv'
<1>1. /\ popup \in Popups /\ instance' = instance /\ act.pc = "idle" /\ popup.pc = "open"
      /\ active \in Targets /\ open \subseteq Windows /\ moves' = moves
  BY DEF DeliveryInv, PopupTypeOK, Popups, DesktopTypeOK, ScreenInv, Frame
<1>2. focus' = focus
  BY <1>1 DEF focus
<1> DEFINE hadFocus == popup.hadFocus \/ Focused
           failed == popup.outcome \in Failure
           busy == popup.busy /\ ~failed
           shown == popup.visible \/ failed
           read(a) == [popup EXCEPT !.hadFocus = hadFocus, !.acquisition = a,
                                    !.busy = busy, !.outcome = "none", !.wake = FALSE]
           stays == /\ popup.outcome \notin Outcomes \ Failure
                    /\ ~(dismisses /\ hadFocus /\ ~Focused /\ ~busy)
<1>3. PICK a \in Acquisition :
        \/ /\ popup' = [popup EXCEPT !.pc = "exited", !.visible = FALSE]
           /\ LeavesScreen
        \/ /\ i = "Enter" /\ ~busy /\ stays
           /\ popup' = [read(a) EXCEPT !.visible = FALSE, !.busy = TRUE]
           /\ LeavesScreen
        \/ /\ stays
           /\ popup' = [read(a) EXCEPT !.visible = shown]
           /\ asked' = IF ~hadFocus \/ (shown /\ ~popup.visible) THEN Popup ELSE asked
           /\ active' = active
  BY Zenon DEF Frame
<1>4. i = "Enter" => popup.visible /\ Focused
  BY DEF Frame
<1>5. Popup # NoWindow /\ Popup \notin open
  BY <1>1, DesktopAssumption
<1>6. LeavesScreen =>
        /\ active' # Popup
        /\ asked' = IF asked = Popup THEN NoWindow ELSE asked
  BY <1>5 DEF LeavesScreen, Focused
<1>7. CASE /\ popup' = [popup EXCEPT !.pc = "exited", !.visible = FALSE]
           /\ LeavesScreen
  <2>1. popup'.pc = "exited" /\ popup'.visible = FALSE
    BY <1>1, <1>7 DEF Popups
  <2> QED
    BY <1>1, <1>2, <1>6, <1>7, <2>1 DEF ScreenInv, Asks
<1>8. CASE /\ i = "Enter" /\ ~busy /\ stays
           /\ popup' = [read(a) EXCEPT !.visible = FALSE, !.busy = TRUE]
           /\ LeavesScreen
  <2>1. /\ popup'.pc = "open" /\ popup'.visible = FALSE /\ popup'.target = popup.target
        /\ popup'.outcome = "none" /\ popup'.wake = FALSE /\ popup'.busy = TRUE
        /\ popup'.hadFocus = hadFocus /\ hadFocus
    BY <1>1, <1>4, <1>8 DEF Popups
  <2>2. popup.outcome = "none"
    BY <1>4, <1>8, <1>1 DEF ScreenInv
  <2> QED
    BY <1>1, <1>2, <1>5, <1>6, <1>8, <2>1, <2>2 DEF ScreenInv, Asks
<1>9. CASE /\ stays
           /\ popup' = [read(a) EXCEPT !.visible = shown]
           /\ asked' = IF ~hadFocus \/ (shown /\ ~popup.visible) THEN Popup ELSE asked
           /\ active' = active
  <2>1. /\ popup'.pc = "open" /\ popup'.visible = shown /\ popup'.target = popup.target
        /\ popup'.outcome = "none" /\ popup'.wake = FALSE /\ popup'.busy = busy
        /\ popup'.hadFocus = hadFocus
    BY <1>1, <1>9 DEF Popups
  <2>2. popup.outcome # "none" => failed
    BY <1>1, <1>9 DEF Popups
  <2>3. busy => popup.outcome = "none" /\ ~popup.visible /\ ~popup.wake
    BY <1>1, <2>2 DEF ScreenInv
  <2>4. ~busy
    BY <2>3 DEF Frame
  <2>5. popup.outcome # "none" => ~(focus = "Kde")
    BY <1>1, <1>9, <2>4, KdeDismisses DEF DeliveryInv, ScreenInv, Focused
  <2> QED
    BY <1>1, <1>2, <1>9, <2>1, <2>2, <2>4, <2>5 DEF ScreenInv, Asks
<1> QED
  BY <1>3, <1>7, <1>8, <1>9

\* Publishing the outcome of an activation makes its popup busy with it.
LEMMA AnswerScreen ==
  ASSUME DeliveryInv, ScreenInv, NEW o \in Outcomes, Answer(o), act.pc # "idle" \/ popup.busy,
         popup.pc = "open", instance' = instance, moves' \in Nat,
         active' = Popup => active = Popup,
         asked' \in {NoWindow, Popup, popup.target},
         focus = "Kde" => asked' = asked
  PROVE  /\ ScreenInv' /\ act'.pc = "idle"
         /\ popup'.pc = "open" /\ popup'.target = popup.target /\ popup'.outcome # "none"
<1>1. popup \in Popups /\ focus' = focus
  BY DEF DeliveryInv, PopupTypeOK, Popups, focus
<1>2. /\ popup' = [popup EXCEPT !.outcome = o, !.wake = TRUE]
      /\ act'.pc = "idle" /\ act'.seen = 0 /\ o # "none" /\ popup.busy
  BY DEF Answer, Publish, Idle, Outcomes, ScreenInv
<1>3. /\ popup'.pc = "open" /\ popup'.target = popup.target /\ popup'.outcome = o
      /\ popup'.visible = popup.visible /\ popup'.busy = popup.busy
      /\ popup'.hadFocus = popup.hadFocus
  BY <1>1, <1>2 DEF Popups
<1> QED
  BY <1>1, <1>2, <1>3 DEF ScreenInv, Asks

\* The target is known: the popup opens over it, and asks for the focus.
LEMMA OpensScreen ==
  ASSUME DeliveryInv, ScreenInv, NEW w, Opens(w), popup.pc = "capture",
         instance' = instance, active' = active, moves' = moves, act' = act
  PROVE  /\ ScreenInv' /\ act.pc = "idle"
         /\ popup'.pc = "open" /\ popup'.target = w /\ popup'.outcome = "none"
<1>1. popup \in Popups /\ focus' = focus
  BY DEF DeliveryInv, PopupTypeOK, Popups, focus
<1>2. /\ popup' = [popup EXCEPT !.pc = "open", !.target = w, !.visible = TRUE]
      /\ asked' = Popup
  BY DEF Opens
<1>3. /\ popup'.pc = "open" /\ popup'.target = w /\ popup'.visible
      /\ popup'.busy = popup.busy /\ popup'.outcome = popup.outcome
      /\ popup'.wake = popup.wake /\ popup'.hadFocus = popup.hadFocus
  BY <1>1, <1>2 DEF Popups
<1> QED
  BY <1>1, <1>2, <1>3 DEF ScreenInv, Asks

\* An activation that goes on leaves the popup as it is.
LEMMA GoesOnScreen ==
  ASSUME DeliveryInv, ScreenInv, popup' = popup, instance' = instance, moves' \in Nat,
         moves' >= moves, act'.seen \in Nat, act'.seen <= moves,
         act'.pc # "idle" => /\ popup.pc = "open" /\ popup.busy
                             /\ popup.outcome = "none" /\ popup.target # NoWindow,
         act'.pc \in {"restoring", "checking"} => focus = "Kde",
         active' = Popup => active = Popup,
         popup.pc = "open" => asked' \in {NoWindow, Popup, popup.target},
         focus = "Kde" => asked' = NoWindow \/ asked' = asked
  PROVE  ScreenInv'
<1>1. focus' = focus
  BY DEF focus
<1>2. act'.seen <= moves'
  BY DEF DeliveryInv, DesktopTypeOK
<1> QED
  BY <1>1, <1>2 DEF ScreenInv, Asks

\* Every step keeps the screen and the activation in line.
LEMMA ScreenStep ==
  ASSUME DeliveryInv, ScreenInv, DNext
  PROVE  ScreenInv'
<1>0. /\ popup \in Popups /\ instance' = instance /\ focus' = focus
      /\ active \in Targets /\ open \subseteq Windows /\ moves \in Nat
      /\ act.seen \in Nat /\ act.seen <= moves
      /\ Popup # NoWindow /\ Popup \notin open /\ NoWindow \notin open
      /\ {"Pasted", "ClipboardUpdated", "PasteFailed", "NotFound", "UnsupportedContent", "Error"}
           = Outcomes
      /\ act \in [pc : {"idle", "restore", "restoring", "check", "checking", "again",
                       "paste", "pasting", "typing"}, seen : Nat, frame : 0..4]
  BY ActStays, DesktopAssumption
     DEF DeliveryInv, PopupTypeOK, Popups, DesktopTypeOK, ActInv, ScreenInv, focus, Outcomes
<1> USE <1>0 DEF desktopVars, kwinVars, portalVars, popupVars
<1>i. popup' = popup /\ act' = act /\ active' = active /\ asked' = asked /\ moves' = moves
        => ScreenInv'
  BY DEF ScreenInv, Asks
<1>m. ASSUME popup'.pc = popup.pc, popup'.visible = popup.visible,
             popup'.busy = popup.busy, popup'.outcome = popup.outcome,
             popup'.wake = popup.wake, popup'.hadFocus = popup.hadFocus,
             popup'.target = popup.target, act' = act, asked' = asked,
             active' # Popup \/ active' = active, moves' \in Nat, moves' >= moves
      PROVE  ScreenInv'
  <2>1. \A a, b, c \in Nat : a <= b /\ c >= b => a <= c
    OBVIOUS
  <2>2. act'.seen <= moves'
    BY <1>m, <2>1
  <2> QED
    BY <1>m, <2>2 DEF ScreenInv, Asks
<1>1. CASE UserMoves
  <2>1. /\ popup' = popup \/ popup' = [popup EXCEPT !.origin = @ \cup {active'}]
        /\ act' = act /\ asked' = asked
        /\ active' # Popup \/ active' = active
        /\ moves' \in Nat /\ moves' >= moves
    BY <1>1 DEF UserMoves, UserFocus, CloseWindow
  <2>2. /\ popup'.pc = popup.pc /\ popup'.visible = popup.visible
        /\ popup'.busy = popup.busy /\ popup'.outcome = popup.outcome
        /\ popup'.wake = popup.wake /\ popup'.hadFocus = popup.hadFocus
        /\ popup'.target = popup.target
    BY <2>1 DEF Popups
  <2> HIDE <1>0
  <2> QED
    BY <1>m, <2>1, <2>2
<1>2. CASE Granted
  <2>1. popup' = popup /\ act' = act /\ asked' = NoWindow /\ moves' = moves
    BY <1>2 DEF Granted, GrantFocus
  <2>2. active' = Popup => popup.visible
    BY <1>2 DEF Granted, GrantFocus
  <2> QED
    BY <2>1, <2>2 DEF ScreenInv, Asks
<1>3. CASE PopupStep
  <2>1. ASSUME NEW i \in Inputs, Frame(i) PROVE ScreenInv'
    BY <1>3, <2>1, FrameScreen DEF PopupStep
  <2>2. CASE Launch \/ LaunchFails \/ Spawn \/ Reap
    <3>1. /\ popup.pc \notin {"open", "capture"} /\ act.pc = "idle"
          /\ UNCHANGED <<active, asked, moves, act>>
      BY <1>3, <2>2 DEF PopupStep, Launch, LaunchFails, Spawn, Reap, ScreenInv, DeliveryInv, PopupTypeOK
    <3>2. /\ popup'.pc \notin {"open", "capture"} /\ ~popup'.visible
          /\ ~popup'.busy /\ popup'.outcome = "none" /\ ~popup'.wake
      BY <1>3, <2>2 DEF PopupStep, Launch, LaunchFails, Spawn, Reap, NoProcess, ScreenInv, Popups
    <3> QED
      BY <3>1, <3>2 DEF ScreenInv, Asks
  <2> QED
    BY <1>3, <2>1, <2>2 DEF PopupStep
<1>4. CASE KWin
  <2>1. /\ popup' = popup \/ popup' = [popup EXCEPT !.origin = @ \cup {active'}]
        /\ act' = act /\ asked' = asked
        /\ active' # Popup \/ active' = active
        /\ moves' = moves
    BY <1>4
       DEF KWin, KWinStep, HelperRuns, HelperReloads, TakeCommand, ReadCallback,
           CallbackTimesOut, RestoreCapturedWindow
  <2>2. /\ popup'.pc = popup.pc /\ popup'.visible = popup.visible
        /\ popup'.busy = popup.busy /\ popup'.outcome = popup.outcome
        /\ popup'.wake = popup.wake /\ popup'.hadFocus = popup.hadFocus
        /\ popup'.target = popup.target
    BY <2>1 DEF Popups
  <2>3. moves' \in Nat /\ moves' >= moves
    BY <2>1
  <2> HIDE <1>0
  <2> QED
    BY <1>m, <2>1, <2>2, <2>3
<1>5. CASE Portal
  BY <1>5, <1>i
     DEF Portal, WorkerStep, TypeFails, ConnectFails, CompositorStep, ReceivePaste,
         ReceiveShutdown, TypeFrame, DeviceResumed, DevicePaused, SessionLost, OfflinePaste,
         OfflineShutdown, DelayEnds, Connects, NextEvent, PauseKeyboard, ResumeKeyboard,
         LoseKeyboard
<1>6. CASE Shutdown
  BY <1>6, <1>i DEF Shutdown
<1>7. CASE CaptureAtOnce
  <2>1. PICK w \in {NoWindow} \cup IF SyncFocus THEN {active} ELSE {} :
          /\ popup' = [popup EXCEPT !.pc = "open", !.target = w, !.visible = TRUE,
                                    !.origin = {active}]
          /\ asked' = Popup
    BY <1>7, Zenon DEF CaptureAtOnce
  <2>2. /\ popup'.pc = "open" /\ popup'.target = w /\ popup'.visible
        /\ popup'.busy = popup.busy /\ popup'.outcome = popup.outcome
        /\ popup'.wake = popup.wake
    BY <2>1 DEF Popups
  <2> QED
    BY <1>7, <2>1, <2>2 DEF CaptureAtOnce, ScreenInv, Asks
<1>8. CASE CaptureOnKWin
  <2>1. popup' = [popup EXCEPT !.pc = "capture", !.origin = {active}]
    BY <1>8 DEF CaptureOnKWin
  <2>2. /\ popup'.pc = "capture" /\ popup'.visible = popup.visible
        /\ popup'.busy = popup.busy /\ popup'.outcome = popup.outcome
        /\ popup'.wake = popup.wake
    BY <2>1 DEF Popups
  <2> QED
    BY <1>8, <2>1, <2>2 DEF CaptureOnKWin, ScreenInv, Asks
<1>9. CASE CaptureAnswered
  BY <1>9, OpensScreen DEF CaptureAnswered
<1>10. CASE CaptureTimesOut
  BY <1>10, OpensScreen DEF CaptureTimesOut
<1>a. ASSUME NEW o \in Outcomes, Answer(o), act.pc # "idle" \/ (popup.busy /\ popup.pc = "open"),
             moves' = moves, active' = Popup => active = Popup,
             asked' = asked
      PROVE  ScreenInv'
  <2>1. popup.pc = "open" /\ asked' \in {NoWindow, Popup, popup.target}
    BY <1>a DEF ScreenInv
  <2> QED
    BY <1>a, <2>1, AnswerScreen
<1>g. ASSUME popup' = popup, moves' = moves, act'.seen = act.seen \/ act'.seen = moves,
             act.pc # "idle", act'.pc \in {"restoring", "checking"} => focus = "Kde",
             active' = Popup => active = Popup, asked' \in {asked, popup.target},
             focus = "Kde" => asked' = asked
      PROVE  ScreenInv'
  <2>1. act'.seen \in Nat /\ act'.seen <= moves /\ moves' >= moves
    BY <1>g
  <2>2. asked' \in {NoWindow, Popup, popup.target}
    BY <1>g DEF ScreenInv
  <2>3. popup.pc = "open" /\ popup.busy /\ popup.outcome = "none" /\ popup.target # NoWindow
    BY <1>g DEF ScreenInv
  <2> QED
    BY <1>g, <2>1, <2>2, <2>3, GoesOnScreen
<1>11. CASE Activate
  <2>1. CASE popup.target # NoWindow /\ Goto("restore") /\ UNCHANGED popup
    BY <1>11, <2>1 DEF Activate, Goto, ScreenInv, Asks
  <2> QED
    BY <1>11, <2>1, <1>a DEF Activate
<1> USE <1>a, <1>g DEF Goto
<1>12. CASE RestoreAtOnce
  <2>1. popup.target = NoWindow \/ act.pc # "idle"
    BY <1>12 DEF RestoreAtOnce
  <2> QED
    BY <1>12 DEF RestoreAtOnce
<1>13. CASE RestoreOnKWin
  BY <1>13 DEF RestoreOnKWin
<1>14. CASE RestoreAnswered
  BY <1>14 DEF RestoreAnswered
<1>15. CASE CheckAtOnce
  BY <1>15 DEF CheckAtOnce
<1>16. CASE CheckOnKWin
  BY <1>16 DEF CheckOnKWin
<1>17. CASE CheckAnswered
  BY <1>17 DEF CheckAnswered
<1>18. CASE CheckAgain
  BY <1>18 DEF CheckAgain
<1>19. CASE Paste
  BY <1>19 DEF Paste, RequestPaste
<1>20. CASE TypeKey
  BY <1>20 DEF TypeKey
<1>21. CASE PasteAnswered
  <2>1. pasted \in {"ok", "Unavailable", "Failed"}
    BY <1>21 DEF PasteAnswered, DeliveryInv, PortalTypeOK
  <2> QED
    BY <1>21, <2>1 DEF PasteAnswered, TakePasted
<1>22. CASE KWinTimesOut
  BY <1>22 DEF KWinTimesOut
<1>23. CASE TimeIsUp
  BY <1>23 DEF TimeIsUp
<1>24. CASE TypeKeyFails
  BY <1>24 DEF TypeKeyFails
<1>25. CASE PasteGivenUp
  BY <1>25 DEF PasteGivenUp, PasteTimesOut
<1> QED
  BY <1>1, <1>2, <1>3, <1>4, <1>5, <1>6, <1>7, <1>8, <1>9, <1>10, <1>11, <1>12, <1>13, <1>14,
     <1>15, <1>16, <1>17, <1>18, <1>19, <1>20, <1>21, <1>22, <1>23, <1>24, <1>25
     DEF DNext, CaptureStep, ActStep

-----------------------------------------------------------------------------
(* The paste that an activation waits for *)

Owed(q) == q.kind = "Paste" /\ q.awaited

TypesOwed == worker = "typing" /\ typing.request.awaited

\* The one paste that is waited for, in the queue or being typed, is that of the
\* activation that pastes.
PasteInv ==
  /\ paste # "Portal" => worker = "dead" /\ requests = <<>>
  /\ pasted # "none" => act.pc = "pasting"
  /\ TypesOwed => act.pc = "pasting" /\ pasted = "none"
  /\ \A i \in 1..Len(requests) : Owed(requests[i]) =>
       act.pc = "pasting" /\ pasted = "none" /\ ~TypesOwed
  /\ \A i, j \in 1..Len(requests) : Owed(requests[i]) /\ Owed(requests[j]) => i = j

\* Which of the commands are owed, when one is taken from the queue or put into
\* it, or when a session or a caller gives them up.
LEMMA OwedQueue ==
  ASSUME requests \in Seq(Requests)
  PROVE  /\ requests # <<>> =>
              /\ 1 \in 1..Len(requests) /\ Head(requests) = requests[1]
              /\ \A i \in 1..Len(Tail(requests)) :
                   /\ i + 1 \in 1..Len(requests) /\ i + 1 # 1
                   /\ Tail(requests)[i] = requests[i + 1]
              /\ \A i, j \in 1..Len(Tail(requests)) : i + 1 = j + 1 => i = j
         /\ \A r \in Requests : \A i \in 1..Len(Append(requests, r)) :
              \/ i = Len(requests) + 1 /\ Append(requests, r)[i] = r
              \/ i \in 1..Len(requests) /\ Append(requests, r)[i] = requests[i]
         /\ \A i \in 1..Len(Marked) :
              i \in 1..Len(requests) /\ Owed(Marked[i]) = Owed(requests[i])
         /\ \A i \in 1..Len(Dropped) : i \in 1..Len(requests) /\ ~Owed(Dropped[i])
         /\ 1..Len(<<>>) = {}
<1>1. requests # <<>> => /\ Len(requests) \in Nat \ {0} /\ Len(Tail(requests)) = Len(requests) - 1
                         /\ Head(requests) = requests[1]
                         /\ \A i \in 1..Len(Tail(requests)) : Tail(requests)[i] = requests[i + 1]
  BY QueueTail
<1>2. Len(Dropped) = Len(requests) /\ Len(Marked) = Len(requests) /\ DOMAIN requests = 1..Len(requests)
  BY DEF Dropped, Marked
<1>3. ASSUME NEW i \in 1..Len(requests)
      PROVE  ~Owed(Dropped[i]) /\ Owed(Marked[i]) = Owed(requests[i])
  <2>1. /\ requests[i] \in Requests /\ Dropped[i] = [requests[i] EXCEPT !.awaited = FALSE]
        /\ Marked[i] = [requests[i] EXCEPT !.stale = TRUE]
    BY <1>2 DEF Dropped, Marked
  <2> QED
    BY <2>1 DEF Requests, Owed
<1> QED
  BY <1>1, <1>2, <1>3, AppendProperties

\* Whatever the worker and the compositor do, they answer what is owed once.
LEMMA PasteMoves ==
  ASSUME DeliveryInv, PasteInv, Portal
  PROVE  PasteInv'
<1>0. /\ Typed /\ act' = act /\ instance' = instance
      /\ worker = "typing" => paste = "Portal"
      /\ worker \in {"run", "delay", "connect"} => paste = "Portal" /\ ~TypesOwed
      /\ paste' = paste
  <2>1. Typed /\ act' = act /\ instance' = instance
    BY TypedIsType
       DEF DeliveryInv, Portal, WorkerStep, TypeFails, ConnectFails, CompositorStep,
         ReceivePaste,
         ReceiveShutdown, TypeFrame, DeviceResumed, DevicePaused, SessionLost, OfflinePaste,
         OfflineShutdown, DelayEnds, Connects, NextEvent, PauseKeyboard, ResumeKeyboard,
         LoseKeyboard, desktopVars
  <2> QED
    BY <2>1 DEF PasteInv, TypesOwed, paste
<1> USE <1>0, OwedQueue DEF Typed, PasteInv, TypesOwed
<1>1. CASE ReceivePaste
  <2>1. Head(requests).kind = "Paste" /\ requests # <<>>
    BY <1>1 DEF ReceivePaste
  <2>2. /\ requests' = Tail(requests) /\ worker = "run" /\ ~TypesOwed
        /\ paste' = "Portal"
    BY <1>1 DEF ReceivePaste
  <2>3. \/ /\ worker' = "typing" /\ typing'.request = requests[1] /\ pasted' = pasted
        \/ /\ worker' = "run"
           /\ pasted' = IF requests[1].awaited THEN "Unavailable" ELSE pasted
    BY <1>1, <2>1 DEF ReceivePaste, Replied
  <2>4. TypesOwed' => Owed(requests[1]) /\ pasted' = pasted
    BY <2>1, <2>3 DEF Owed
  <2>5. pasted' # pasted => Owed(requests[1])
    BY <2>1, <2>3 DEF Owed
  <2>6. \A i \in 1..Len(requests') :
          Owed(requests'[i]) => Owed(requests[i + 1]) /\ ~Owed(requests[1])
    BY <2>1, <2>2
  <2>7. \A i, j \in 1..Len(requests') :
          Owed(requests'[i]) /\ Owed(requests'[j]) => i = j
    BY <2>1, <2>2
  <2>8. pasted' # "none" => act'.pc = "pasting"
    BY <2>1, <2>5
  <2>9. TypesOwed' => act'.pc = "pasting" /\ pasted' = "none"
    BY <2>1, <2>4
  <2>10. ASSUME NEW i \in 1..Len(requests'), Owed(requests'[i])
         PROVE  act'.pc = "pasting" /\ pasted' = "none" /\ ~TypesOwed'
    <3>1. Owed(requests[i + 1]) /\ ~Owed(requests[1]) /\ i + 1 \in 1..Len(requests)
      BY <2>1, <2>2, <2>6, <2>10
    <3> QED
      BY <2>4, <2>5, <3>1
  <2> HIDE <1>0, OwedQueue DEF TypesOwed, Typed
  <2> QED
    BY <2>2, <2>7, <2>8, <2>9, <2>10 DEF Owed
<1>2. CASE ReceiveShutdown
  BY <1>2 DEF ReceiveShutdown, Stop, Owed
<1>3. CASE TypeFrame
  BY <1>3 DEF TypeFrame, NotTyping, Replied, sessionVars
<1>4. CASE DeviceResumed
  BY <1>4 DEF DeviceResumed, NextEvent, Reconnect, Marked
<1>5. CASE DevicePaused
  BY <1>5 DEF DevicePaused, NextEvent
<1>6. CASE SessionLost
  BY <1>6 DEF SessionLost, NextEvent, Reconnect, Marked
<1>7. CASE OfflinePaste
  BY <1>7 DEF OfflinePaste, sessionVars, Replied, Owed
<1>8. CASE OfflineShutdown
  BY <1>8 DEF OfflineShutdown, Stop, Owed
<1>9. CASE DelayEnds
  BY <1>9 DEF DelayEnds, sessionVars
<1>10. CASE Connects
  <2>1. /\ requests' = <<>> /\ worker' \in {"run", "dead"}
        /\ ~TypesOwed' /\ paste' = "Portal"
    BY <1>10 DEF Connects, Established, Stop
  <2>2. pasted' # pasted => \E i \in 1..Len(requests) : Owed(requests[i])
    <3>1. DOMAIN requests = 1..Len(requests)
      OBVIOUS
    <3>2. CASE \A i \in DOMAIN requests : requests[i].kind = "Paste"
      BY <1>10, <3>1, <3>2 DEF Connects, Stop, Owed
    <3>3. CASE Stop(requests)
      BY <3>1, <3>3 DEF Stop, Owed
    <3> QED
      BY <1>10, <3>2, <3>3 DEF Connects
  <2>3. pasted' # "none" => act'.pc = "pasting"
    BY <2>2
  <2> HIDE <1>0, OwedQueue DEF TypesOwed, Typed
  <2> QED
    BY <2>1, <2>3
<1>11. CASE TypeFails
  <2>1. worker = "typing" /\ worker' = "delay" /\ requests' = Marked
    BY <1>11 DEF TypeFails, Reconnect, Marked
  <2>2. pasted' # pasted => TypesOwed
    BY <1>11, <2>1 DEF TypeFails, Replied
  <2>3. ~TypesOwed' /\ paste' = "Portal"
    BY <2>1
  <2>4. \A i \in 1..Len(requests') : i \in 1..Len(requests) /\ Owed(requests'[i]) = Owed(requests[i])
    BY <2>1
  <2>5. pasted' # "none" => act'.pc = "pasting"
    BY <2>2
  <2>6. \A i \in 1..Len(requests') : Owed(requests'[i]) => act'.pc = "pasting" /\ pasted' = "none"
    BY <2>2, <2>4
  <2>7. \A i, j \in 1..Len(requests') : Owed(requests'[i]) /\ Owed(requests'[j]) => i = j
    BY <2>4
  <2> HIDE <1>0, OwedQueue DEF TypesOwed, Typed
  <2> QED
    BY <2>3, <2>5, <2>6, <2>7 DEF Owed
<1>12. CASE ConnectFails
  BY <1>12 DEF ConnectFails, sessionVars
<1>13. CASE CompositorStep
  BY <1>13 DEF CompositorStep, PauseKeyboard, ResumeKeyboard, LoseKeyboard
<1> QED
  BY <1>1, <1>2, <1>3, <1>4, <1>5, <1>6, <1>7, <1>8, <1>9, <1>10, <1>11, <1>12, <1>13
     DEF Portal, WorkerStep

\* No step answers a paste that nobody waits for, or lets two be waited for.
LEMMA PasteStep ==
  ASSUME DeliveryInv, PasteInv, DNext
  PROVE  PasteInv'
<1>0. /\ requests \in Seq(Requests) /\ instance' = instance /\ paste' = paste
      /\ act \in [pc : {"idle", "restore", "restoring", "check", "checking", "again",
                       "paste", "pasting", "typing"}, seen : Nat, frame : 0..4]
  BY ActStays, TypedIsType DEF DeliveryInv, ActInv, paste, Typed
<1>k. ASSUME UNCHANGED portalVars, act.pc # "pasting" \/ act'.pc = act.pc
      PROVE  PasteInv'
  BY <1>0, <1>k DEF portalVars, PasteInv, TypesOwed
<1> USE <1>0, <1>k DEF Idle, Answer, Goto, desktopVars, kwinVars, popupVars
<1>1. CASE UserMoves
  BY <1>1 DEF UserMoves
<1>2. CASE Granted
  BY <1>2 DEF Granted
<1>3. CASE PopupStep
  BY <1>3 DEF PopupStep
<1>4. CASE KWin
  BY <1>4 DEF KWin
<1>5. CASE Portal
  BY <1>5, PasteMoves
<1>6. CASE Shutdown
  <2>1. /\ requests' = Append(requests, PasteRequest("Shutdown"))
        /\ worker # "dead" /\ UNCHANGED <<worker, typing, pasted, act>>
    BY <1>6 DEF Shutdown, RequestShutdown
  <2>2. PasteRequest("Shutdown") \in Requests /\ ~Owed(PasteRequest("Shutdown"))
    BY DEF PasteRequest, Requests, Owed
  <2> QED
    BY <2>1, <2>2, OwedQueue DEF PasteInv, TypesOwed
<1>7. CASE CaptureAtOnce
  BY <1>7 DEF CaptureAtOnce
<1>8. CASE CaptureOnKWin
  BY <1>8 DEF CaptureOnKWin
<1>9. CASE CaptureAnswered
  BY <1>9 DEF CaptureAnswered
<1>10. CASE CaptureTimesOut
  BY <1>10 DEF CaptureTimesOut
<1>11. CASE Activate
  BY <1>11 DEF Activate
<1>12. CASE RestoreAtOnce
  BY <1>12 DEF RestoreAtOnce
<1>13. CASE RestoreOnKWin
  BY <1>13 DEF RestoreOnKWin
<1>14. CASE RestoreAnswered
  BY <1>14 DEF RestoreAnswered
<1>15. CASE CheckAtOnce
  BY <1>15 DEF CheckAtOnce
<1>16. CASE CheckOnKWin
  BY <1>16 DEF CheckOnKWin
<1>17. CASE CheckAnswered
  BY <1>17 DEF CheckAnswered
<1>18. CASE CheckAgain
  BY <1>18 DEF CheckAgain
<1>19. CASE Paste
  <2>1. CASE UNCHANGED portalVars
    BY <1>19, <2>1 DEF Paste
  <2>2. CASE paste = "Portal" /\ RequestPaste /\ Goto("pasting")
    <3>1. /\ requests' = Append(requests, PasteRequest("Paste"))
          /\ UNCHANGED <<worker, typing, pasted>> /\ act'.pc = "pasting"
      BY <2>2 DEF RequestPaste
    <3>2. PasteRequest("Paste") \in Requests
      BY DEF PasteRequest, Requests
    <3>3. act.pc = "paste"
      BY <1>19 DEF Paste
    <3> QED
      BY <2>2, <3>1, <3>2, <3>3, OwedQueue DEF PasteInv, TypesOwed
  <2> QED
    BY <1>19, <2>1, <2>2 DEF Paste
<1>20. CASE TypeKey
  BY <1>20 DEF TypeKey
<1>21. CASE PasteAnswered
  <2>1. pasted # "none" /\ UNCHANGED <<worker, requests, typing>> /\ pasted' = "none"
    BY <1>21 DEF PasteAnswered, TakePasted
  <2> QED
    BY <2>1 DEF PasteInv, TypesOwed
<1>22. CASE KWinTimesOut
  BY <1>22 DEF KWinTimesOut
<1>23. CASE TimeIsUp
  BY <1>23 DEF TimeIsUp
<1>24. CASE TypeKeyFails
  BY <1>24 DEF TypeKeyFails
<1>25. CASE PasteGivenUp
  <2>1. /\ requests' = Dropped /\ UNCHANGED <<worker, pasted>> /\ pasted = "none"
        /\ typing' = [typing EXCEPT !.request.awaited = FALSE]
    BY <1>25 DEF PasteGivenUp, PasteTimesOut, Dropped
  <2>2. typing'.request.awaited = FALSE
    BY <2>1, TypedIsType DEF DeliveryInv, Typed, Requests
  <2>3. requests = <<>> => Dropped = <<>>
    BY DEF Dropped
  <2> QED
    BY <2>1, <2>2, <2>3, OwedQueue DEF PasteInv, TypesOwed
<1> QED
  BY <1>1, <1>2, <1>3, <1>4, <1>5, <1>6, <1>7, <1>8, <1>9, <1>10, <1>11, <1>12, <1>13, <1>14,
     <1>15, <1>16, <1>17, <1>18, <1>19, <1>20, <1>21, <1>22, <1>23, <1>24, <1>25
     DEF DNext, CaptureStep, ActStep

-----------------------------------------------------------------------------
(* The calls that KWin, D-Bus and the worker have still to get through *)

\* The kind of command that a callback answers
Answering(r) ==
  CASE r.kind \in {"Captured", "CaptureUnavailable"} -> "Capture"
    [] r.kind \in {"Active", "ActiveNone"} -> "IsActive"
    [] OTHER -> "Restore"

Ahead == Len(callbacks) + Len(invoked)

InLine == Ahead + Len(commands)

\* In the order in which they were requested, what is not read, not run, or not
\* taken yet
Line ==
  [i \in 1..InLine |->
     IF i <= Len(callbacks) THEN Answering(callbacks[i])
     ELSE IF i <= Ahead THEN invoked[i - Len(callbacks)]
     ELSE commands[i - Ahead].kind]

SameLine == InLine' = InLine /\ \A i \in 1..InLine : Line'[i] = Line[i]

\* The line without its place p
Leaves(p) ==
  /\ p \in 1..InLine /\ InLine' = InLine - 1
  /\ \A i \in 1..InLine - 1 : Line'[i] = Line[IF i < p THEN i ELSE i + 1]

Joins(kind) ==
  /\ InLine' = InLine + 1
  /\ \A i \in 1..InLine : Line'[i] = Line[i]
  /\ Line'[InLine + 1] = kind

\* The places of the line, in each of the three queues.
LEMMA LinePlaces ==
  ASSUME KWinTyped
  PROVE  /\ Len(callbacks) \in Nat /\ Len(invoked) \in Nat /\ Len(commands) \in Nat
         /\ Ahead \in Nat /\ InLine \in Nat /\ Ahead <= InLine /\ Len(callbacks) <= Ahead
         /\ \A i \in 1..Len(callbacks) : Line[i] = Answering(callbacks[i])
         /\ \A i \in 1..Len(invoked) : Line[Len(callbacks) + i] = invoked[i]
         /\ \A i \in 1..Len(commands) : Line[Ahead + i] = commands[i].kind
BY DEF KWinTyped, Ahead, InLine, Line

\* The three queues, when an element is taken from one or put into it.
LEMMA ThreeQueues ==
  ASSUME KWinTyped
  PROVE  /\ \A c : Len(Append(callbacks, c)) = Len(callbacks) + 1
         /\ \A c : \A i \in 1..Len(callbacks) : Append(callbacks, c)[i] = callbacks[i]
         /\ \A c : Append(callbacks, c)[Len(callbacks) + 1] = c
         /\ \A k : Len(Append(invoked, k)) = Len(invoked) + 1
         /\ \A k : \A i \in 1..Len(invoked) : Append(invoked, k)[i] = invoked[i]
         /\ \A k : Append(invoked, k)[Len(invoked) + 1] = k
         /\ \A c : Len(Append(commands, c)) = Len(commands) + 1
         /\ \A c : \A i \in 1..Len(commands) : Append(commands, c)[i] = commands[i]
         /\ \A c : Append(commands, c)[Len(commands) + 1] = c
         /\ callbacks # <<>> =>
              /\ Len(callbacks) > 0 /\ Head(callbacks) = callbacks[1]
              /\ Head(callbacks) \in Callbacks
              /\ Len(Tail(callbacks)) = Len(callbacks) - 1
              /\ \A i \in 1..Len(callbacks) - 1 : Tail(callbacks)[i] = callbacks[i + 1]
         /\ invoked # <<>> =>
              /\ Len(invoked) > 0 /\ Head(invoked) = invoked[1]
              /\ Len(Tail(invoked)) = Len(invoked) - 1
              /\ \A i \in 1..Len(invoked) - 1 : Tail(invoked)[i] = invoked[i + 1]
         /\ commands # <<>> =>
              /\ Len(commands) > 0 /\ Head(commands) = commands[1]
              /\ Head(commands) \in Commands
              /\ Len(Tail(commands)) = Len(commands) - 1
              /\ \A i \in 1..Len(commands) - 1 : Tail(commands)[i] = commands[i + 1]
<1>1. callbacks # <<>> => Len(callbacks) > 0
  BY QueueTail DEF KWinTyped
<1>2. invoked # <<>> => Len(invoked) > 0
  BY QueueTail DEF KWinTyped
<1>3. commands # <<>> => Len(commands) > 0
  BY QueueTail DEF KWinTyped
<1>4. callbacks \in Seq(Callbacks) /\ invoked \in Seq(Kinds) /\ commands \in Seq(Commands)
  BY DEF KWinTyped
<1> QED
  BY <1>1, <1>2, <1>3, <1>4, QueueTail

\* What is at a place of the line, when its three parts are a, b and c long.
LEMMA LineAt ==
  ASSUME NEW a \in Nat, NEW b \in Nat, NEW c \in Nat,
         Len(callbacks) = a, Len(invoked) = b, Len(commands) = c,
         NEW i \in 1..a + b + c
  PROVE  Line[i] = IF i <= a THEN Answering(callbacks[i])
                   ELSE IF i <= a + b THEN invoked[i - a]
                   ELSE commands[i - (a + b)].kind
BY DEF Line, InLine, Ahead

\* And after a step that left them x, y and z long.
LEMMA LineAtNext ==
  ASSUME NEW x \in Nat, NEW y \in Nat, NEW z \in Nat,
         Len(callbacks') = x, Len(invoked') = y, Len(commands') = z,
         NEW i \in 1..x + y + z
  PROVE  Line'[i] = IF i <= x THEN Answering(callbacks'[i])
                    ELSE IF i <= x + y THEN invoked'[i - x]
                    ELSE commands'[i - (x + y)].kind
<1>1. Ahead' = x + y /\ InLine' = x + y + z
  BY DEF Ahead, InLine
<1>2. i \in 1..InLine'
  BY <1>1
<1>3. Line'[i] = IF i <= Len(callbacks') THEN Answering(callbacks'[i])
                 ELSE IF i <= Ahead' THEN invoked'[i - Len(callbacks')]
                 ELSE commands'[i - Ahead'].kind
  BY <1>2 DEF Line, Answering
<1> QED
  BY <1>1, <1>3

\* What KWin runs goes on in its place, from what is invoked to what is read.
LEMMA RunsInLine ==
  ASSUME KWinTyped, HelperRuns
  PROVE  SameLine /\ Ahead' = Ahead
<1>1. PICK r : /\ callbacks' = Append(callbacks, r) /\ Answering(r) = Head(invoked)
               /\ invoked # <<>> /\ invoked' = Tail(invoked) /\ commands' = commands
  <2>1. ASSUME NEW k, NEW w, Says(k, w),
               \/ k \in {"Captured", "CaptureUnavailable"} /\ Head(invoked) = "Capture"
               \/ /\ k \in {"RestoreNoTarget", "RestoreNotFound", "RestoreRequested"}
                  /\ Head(invoked) = "Restore"
               \/ k \in {"Active", "ActiveNone"} /\ Head(invoked) = "IsActive"
        PROVE  \E r : callbacks' = Append(callbacks, r) /\ Answering(r) = Head(invoked)
    BY <2>1 DEF Says, Callback, Answering
  <2>2. \E r : callbacks' = Append(callbacks, r) /\ Answering(r) = Head(invoked)
    BY <2>1
       DEF HelperRuns, CaptureActiveWindow, RestoreCapturedWindow, ReportActiveWindow
  <2> QED
    BY <2>2 DEF HelperRuns
<1>2. PICK a, b, c \in Nat :
        Len(callbacks) = a /\ Len(invoked) = b /\ Len(commands) = c
  BY LinePlaces
<1>3. PICK x, y \in Nat :
        /\ Len(callbacks') = x /\ Len(invoked') = y /\ Len(commands') = c
        /\ x = a + 1 /\ b = y + 1
  BY <1>1, <1>2, ThreeQueues
<1>4. Ahead = a + b /\ InLine = a + b + c /\ Ahead' = x + y /\ InLine' = x + y + c
  BY <1>2, <1>3 DEF Ahead, InLine
<1>5. ASSUME NEW i \in 1..a + b + c PROVE Line'[i] = Line[i]
  <2>1. Line[i] = IF i <= a THEN Answering(callbacks[i])
                  ELSE IF i <= a + b THEN invoked[i - a]
                  ELSE commands[i - (a + b)].kind
    BY <1>2, LineAt
  <2>2. i \in 1..x + y + c
    BY <1>3
  <2>3. Line'[i] = IF i <= x THEN Answering(callbacks'[i])
                   ELSE IF i <= x + y THEN invoked'[i - x]
                   ELSE commands'[i - (x + y)].kind
    BY <1>3, <2>2, LineAtNext
  <2>4. CASE i <= a
    <3>1. i \in 1..a /\ i <= x
      BY <1>3, <2>4
    <3> QED
      BY <1>1, <1>2, <2>1, <2>3, <3>1, ThreeQueues
  <2>5. CASE i = a + 1
    <3>1. ~(i <= a) /\ i <= a + b /\ i - a = 1 /\ i <= x
      BY <1>3, <2>5
    <3> QED
      BY <1>1, <1>2, <2>1, <2>3, <2>5, <3>1, ThreeQueues
  <2>6. CASE i > a + 1 /\ i <= a + b
    <3>1. /\ ~(i <= a) /\ ~(i <= x) /\ i <= x + y
          /\ i - x \in 1..b - 1 /\ i - x + 1 = i - a
      BY <1>3, <2>6
    <3>2. invoked'[i - x] = invoked[i - x + 1]
      BY <1>1, <1>2, <3>1, ThreeQueues
    <3> QED
      BY <2>1, <2>3, <2>6, <3>1, <3>2
  <2>7. CASE i > a + b
    <3>1. ~(i <= a) /\ ~(i <= a + b) /\ ~(i <= x) /\ ~(i <= x + y) /\ x + y = a + b
      BY <1>3, <2>7
    <3> QED
      BY <1>1, <2>1, <2>3, <3>1
  <2> QED
    BY <2>4, <2>5, <2>6, <2>7
<1>6. x + y = a + b
  BY <1>3
<1> QED
  BY <1>4, <1>5, <1>6 DEF SameLine

\* What the worker takes goes on in its place, or leaves it when it fails.
LEMMA TakesFromLine ==
  ASSUME KWinTyped, TakeCommand
  PROVE  IF command' # NoCommand THEN SameLine /\ Ahead' = Ahead + 1
         ELSE Leaves(Ahead + 1) /\ Ahead' = Ahead
<1>1. /\ commands # <<>> /\ commands' = Tail(commands) /\ callbacks' = callbacks
      /\ Head(commands) # NoCommand
      /\ \/ command' = Head(commands) /\ invoked' = Append(invoked, Head(commands).kind)
         \/ command' = NoCommand /\ invoked' = invoked
  BY ThreeQueues DEF TakeCommand, Commands, Kinds, NoCommand
<1>2. PICK a, b, c \in Nat :
        Len(callbacks) = a /\ Len(invoked) = b /\ Len(commands) = c
  BY LinePlaces
<1>3. PICK z \in Nat : Len(callbacks') = a /\ Len(commands') = z /\ c = z + 1
  BY <1>1, <1>2, ThreeQueues
<1>4. Head(commands) = commands[1] /\ \A i \in 1..c - 1 : commands'[i] = commands[i + 1]
  BY <1>1, <1>2, ThreeQueues
<1>5. ASSUME NEW i \in 1..a + b + c
      PROVE  Line[i] = IF i <= a THEN Answering(callbacks[i])
                       ELSE IF i <= a + b THEN invoked[i - a]
                       ELSE commands[i - (a + b)].kind
  BY <1>2, LineAt
<1>6. CASE command' = Head(commands) /\ invoked' = Append(invoked, Head(commands).kind)
  <2>1. PICK y \in Nat : Len(invoked') = y /\ y = b + 1
    BY <1>2, <1>6, ThreeQueues
  <2>2. invoked'[b + 1] = commands[1].kind /\ \A i \in 1..b : invoked'[i] = invoked[i]
    BY <1>2, <1>4, <1>6, ThreeQueues
  <2>3. Ahead = a + b /\ InLine = a + b + c /\ Ahead' = a + y /\ InLine' = a + y + z
    BY <1>2, <1>3, <2>1 DEF Ahead, InLine
  <2>4. ASSUME NEW i \in 1..a + b + c PROVE Line'[i] = Line[i]
    <3>1. i \in 1..a + y + z
      BY <1>3, <2>1
    <3>2. Line'[i] = IF i <= a THEN Answering(callbacks'[i])
                     ELSE IF i <= a + y THEN invoked'[i - a]
                     ELSE commands'[i - (a + y)].kind
      BY <1>3, <2>1, <3>1, LineAtNext
    <3>3. CASE i <= a
      BY <1>1, <1>5, <3>2, <3>3
    <3>4. CASE i > a /\ i <= a + b
      <4>1. ~(i <= a) /\ i <= a + y /\ i - a \in 1..b
        BY <2>1, <3>4
      <4> QED
        BY <1>5, <2>2, <3>2, <3>4, <4>1
    <3>5. CASE i = a + b + 1
      <4>1. ~(i <= a) /\ i <= a + y /\ i - a = b + 1 /\ ~(i <= a + b) /\ i - (a + b) = 1
        BY <2>1, <3>5
      <4> QED
        BY <1>5, <2>2, <3>2, <4>1
    <3>6. CASE i > a + b + 1
      <4>1. /\ ~(i <= a) /\ ~(i <= a + y) /\ ~(i <= a + b)
            /\ i - (a + y) \in 1..c - 1 /\ i - (a + y) + 1 = i - (a + b)
        BY <2>1, <3>6
      <4>2. commands'[i - (a + y)] = commands[i - (a + y) + 1]
        BY <1>4, <4>1
      <4> QED
        BY <1>5, <3>2, <4>1, <4>2
    <3> QED
      BY <3>3, <3>4, <3>5, <3>6
  <2>5. a + y = a + b + 1 /\ a + y + z = a + b + c
    BY <1>3, <2>1
  <2> QED
    BY <1>1, <1>6, <2>3, <2>4, <2>5 DEF SameLine
<1>7. CASE command' = NoCommand /\ invoked' = invoked
  <2>1. Ahead = a + b /\ InLine = a + b + c /\ Ahead' = a + b /\ InLine' = a + b + z
    BY <1>2, <1>3, <1>7 DEF Ahead, InLine
  <2>2. ASSUME NEW i \in 1..a + b + z
        PROVE  Line'[i] = Line[IF i < a + b + 1 THEN i ELSE i + 1]
    <3>1. i \in 1..a + b + c /\ i + 1 \in 1..a + b + c
      BY <1>3
    <3>2. Line'[i] = IF i <= a THEN Answering(callbacks'[i])
                     ELSE IF i <= a + b THEN invoked'[i - a]
                     ELSE commands'[i - (a + b)].kind
      BY <1>2, <1>3, <1>7, LineAtNext
    <3>3. CASE i <= a + b
      <4>1. i < a + b + 1
        BY <3>3
      <4> QED
        BY <1>1, <1>5, <1>7, <3>1, <3>2, <3>3, <4>1
    <3>4. CASE i > a + b
      <4>1. /\ ~(i <= a) /\ ~(i <= a + b) /\ ~(i + 1 <= a) /\ ~(i + 1 <= a + b)
            /\ i - (a + b) \in 1..c - 1 /\ i - (a + b) + 1 = i + 1 - (a + b)
            /\ ~(i < a + b + 1)
        BY <1>3, <3>4
      <4>2. commands'[i - (a + b)] = commands[i - (a + b) + 1]
        BY <1>4, <4>1
      <4>3. Line[i + 1] = commands[i + 1 - (a + b)].kind
        BY <1>5, <3>1, <4>1
      <4> QED
        BY <3>2, <4>1, <4>2, <4>3
    <3> QED
      BY <3>3, <3>4
  <2>3. a + b + 1 \in 1..a + b + c /\ a + b + c - 1 = a + b + z
    BY <1>3
  <2> QED
    BY <1>7, <2>1, <2>2, <2>3 DEF Leaves
<1> QED
  BY <1>1, <1>6, <1>7

\* What the worker reads leaves the head of the line.
LEMMA ReadsFromLine ==
  ASSUME KWinTyped, ReadCallback
  PROVE  Leaves(1) /\ Ahead' = Ahead - 1
<1>1. /\ callbacks # <<>> /\ callbacks' = Tail(callbacks)
      /\ invoked' = invoked /\ commands' = commands
  BY DEF ReadCallback
<1>2. PICK a, b, c \in Nat :
        Len(callbacks) = a /\ Len(invoked) = b /\ Len(commands) = c
  BY LinePlaces
<1>3. PICK x \in Nat : /\ Len(callbacks') = x /\ a = x + 1
                       /\ \A i \in 1..x : callbacks'[i] = callbacks[i + 1]
  BY <1>1, <1>2, ThreeQueues
<1>4. Ahead = a + b /\ InLine = a + b + c /\ Ahead' = x + b /\ InLine' = x + b + c
  BY <1>1, <1>2, <1>3 DEF Ahead, InLine
<1>5. ASSUME NEW i \in 1..x + b + c PROVE Line'[i] = Line[IF i < 1 THEN i ELSE i + 1]
  <2>1. i + 1 \in 1..a + b + c /\ ~(i < 1)
    BY <1>3
  <2>2. Line[i + 1] = IF i + 1 <= a THEN Answering(callbacks[i + 1])
                      ELSE IF i + 1 <= a + b THEN invoked[i + 1 - a]
                      ELSE commands[i + 1 - (a + b)].kind
    BY <1>2, <2>1, LineAt
  <2>3. Line'[i] = IF i <= x THEN Answering(callbacks'[i])
                   ELSE IF i <= x + b THEN invoked'[i - x]
                   ELSE commands'[i - (x + b)].kind
    <3>1. Len(callbacks') = x /\ Len(invoked') = b /\ Len(commands') = c
      BY <1>1, <1>2, <1>3
    <3> QED
      BY <3>1, LineAtNext
  <2>4. /\ i + 1 <= a <=> i <= x
        /\ i + 1 <= a + b <=> i <= x + b
        /\ i + 1 - a = i - x
        /\ i + 1 - (a + b) = i - (x + b)
    BY <1>3
  <2>5. i <= x => i \in 1..x
    OBVIOUS
  <2> QED
    BY <1>1, <1>3, <2>1, <2>2, <2>3, <2>4, <2>5
<1>6. 1 \in 1..a + b + c /\ a + b + c - 1 = x + b + c /\ a + b - 1 = x + b
  BY <1>3
<1> QED
  BY <1>4, <1>5, <1>6 DEF Leaves

\* What is requested joins the end of the line.
LEMMA RequestJoins ==
  ASSUME KWinTyped, NEW kind, NEW w, Request(kind, w)
  PROVE  Joins(kind) /\ Ahead' = Ahead
<1>1. /\ commands' = Append(commands, Command(kind, w))
      /\ invoked' = invoked /\ callbacks' = callbacks
  BY DEF Request
<1>2. PICK a, b, c \in Nat :
        Len(callbacks) = a /\ Len(invoked) = b /\ Len(commands) = c
  BY LinePlaces
<1>3. PICK z \in Nat : Len(commands') = z /\ z = c + 1
  BY <1>1, <1>2, ThreeQueues
<1>4. commands'[c + 1].kind = kind /\ \A i \in 1..c : commands'[i] = commands[i]
  BY <1>1, <1>2, ThreeQueues DEF Command
<1>5. Ahead = a + b /\ InLine = a + b + c /\ Ahead' = a + b /\ InLine' = a + b + z
  BY <1>1, <1>2, <1>3 DEF Ahead, InLine
<1>6. ASSUME NEW i \in 1..a + b + z
      PROVE  Line'[i] = IF i <= a THEN Answering(callbacks'[i])
                        ELSE IF i <= a + b THEN invoked'[i - a]
                        ELSE commands'[i - (a + b)].kind
  <2>1. Len(callbacks') = a /\ Len(invoked') = b
    BY <1>1, <1>2
  <2> HIDE <1>1
  <2> QED
    BY <1>3, <2>1, LineAtNext
<1>7. ASSUME NEW i \in 1..a + b + c PROVE Line'[i] = Line[i]
  <2>1. Line[i] = IF i <= a THEN Answering(callbacks[i])
                  ELSE IF i <= a + b THEN invoked[i - a]
                  ELSE commands[i - (a + b)].kind
    BY <1>2, LineAt
  <2>2. i \in 1..a + b + z /\ (i > a + b => i - (a + b) \in 1..c)
    BY <1>3
  <2>3. ~(i <= a + b) <=> i > a + b
    OBVIOUS
  <2> QED
    BY <1>1, <1>4, <1>6, <2>1, <2>2, <2>3
<1>8. Line'[a + b + c + 1] = kind
  <2>1. /\ a + b + c + 1 \in 1..a + b + z /\ (a + b + c + 1) - (a + b) = c + 1
        /\ ~(a + b + c + 1 <= a) /\ ~(a + b + c + 1 <= a + b)
    BY <1>3
  <2> QED
    BY <1>4, <1>6, <2>1
<1>9. a + b + z = a + b + c + 1
  BY <1>3
<1> QED
  BY <1>5, <1>7, <1>8, <1>9 DEF Joins

\* A caller that gives up leaves what it requested in the line.
LEMMA GiveUpStays ==
  ASSUME KWinTyped, GiveUp
  PROVE  /\ SameLine /\ Ahead' = Ahead /\ Len(commands') = Len(commands)
         /\ \A i \in 1..Len(commands') : ~commands'[i].awaited
<1>1. /\ commands' = GivenUpCommands /\ invoked' = invoked /\ callbacks' = callbacks
  BY DEF GiveUp, GivenUpCommands
<1>2. PICK a, b, c \in Nat :
        Len(callbacks) = a /\ Len(invoked) = b /\ Len(commands) = c
  BY LinePlaces
<1>3. Len(commands') = c /\ DOMAIN commands = 1..c
  BY <1>1, <1>2 DEF GivenUpCommands, KWinTyped
<1>4. ASSUME NEW i \in 1..c
      PROVE  commands'[i].kind = commands[i].kind /\ ~commands'[i].awaited
  <2>1. commands[i] \in Commands /\ commands'[i] = [commands[i] EXCEPT !.awaited = FALSE]
    BY <1>1, <1>3 DEF GivenUpCommands, KWinTyped
  <2> QED
    BY <2>1 DEF Commands
<1>5. Ahead = a + b /\ InLine = a + b + c /\ Ahead' = a + b /\ InLine' = a + b + c
  BY <1>1, <1>2, <1>3 DEF Ahead, InLine
<1>6. ASSUME NEW i \in 1..a + b + c PROVE Line'[i] = Line[i]
  <2>1. Line[i] = IF i <= a THEN Answering(callbacks[i])
                  ELSE IF i <= a + b THEN invoked[i - a]
                  ELSE commands[i - (a + b)].kind
    BY <1>2, LineAt
  <2>2. Line'[i] = IF i <= a THEN Answering(callbacks'[i])
                   ELSE IF i <= a + b THEN invoked'[i - a]
                   ELSE commands'[i - (a + b)].kind
    BY <1>1, <1>2, <1>3, LineAtNext
  <2>3. ~(i <= a + b) => i - (a + b) \in 1..c
    OBVIOUS
  <2> QED
    BY <1>1, <1>4, <2>1, <2>2, <2>3
<1> QED
  BY <1>2, <1>3, <1>4, <1>5, <1>6 DEF SameLine

-----------------------------------------------------------------------------
(* One caller at a time *)

\* What is awaited is the call that is asked for.
Own(c) ==
  /\ Waiting /\ c.kind = Wanted
  /\ Wanted # "Capture" => c.target = popup.target

\* Whatever is in the line beyond the call that is waited for was given up, and
\* the worker is on the last that it passed on.
LineInv ==
  /\ focus # "Kde" => InLine = 0
  /\ reply # NoReply => Asks
  /\ ~Waiting => InLine <= GivenUp
  /\ Waiting => InLine <= GivenUp + 1
  /\ \A i \in 1..Len(commands) :
       commands[i].awaited => i = Len(commands) /\ Own(commands[i])
  /\ command.awaited => commands = <<>> /\ Own(command)
  /\ Waiting => \/ command.awaited
                \/ commands # <<>> /\ commands[Len(commands)].awaited
  /\ command # NoCommand => Ahead > 0 /\ Line[Ahead] = command.kind

\* No more calls are given up than the instance has.
LateInv == left["late"] <= instance.bound["late"]

\* Calls are given up one by one, and stay given up.
LEMMA LateStep ==
  ASSUME DeliveryInv, LateInv, DNext
  PROVE  /\ LateInv' /\ GivenUp \in Nat /\ GivenUp' \in Nat /\ GivenUp <= GivenUp'
         /\ Spend("late") => GivenUp' = GivenUp + 1
<1>1. /\ left \in [Disturbances -> Nat] /\ instance.bound \in [Disturbances -> Nat]
      /\ instance' = instance
  BY ActStays, DesktopAssumption DEF DeliveryInv, DesktopTypeOK
<1>2. left' = left \/ \E k \in Disturbances : Spend(k)
  <2> USE DEF Disturbances, Answer, desktopVars, kwinVars, portalVars, popupVars
  <2>1. CASE UserMoves
    BY <2>1 DEF UserMoves, UserFocus, CloseWindow
  <2>2. CASE Granted
    BY <2>2 DEF Granted, GrantFocus
  <2>3. CASE PopupStep
    <3>1. ASSUME NEW i \in Inputs, Frame(i) PROVE left' = left
      BY <3>1, Zenon DEF Frame
    <3> QED
      BY <2>3, <3>1 DEF PopupStep, Launch, LaunchFails, Spawn, Reap
  <2>4. CASE KWin
    BY <2>4 DEF KWin, KWinStep, HelperRuns, HelperReloads, TakeCommand, ReadCallback, CallbackTimesOut
  <2>5. CASE Portal
    BY <2>5
       DEF Portal, WorkerStep, TypeFails, ConnectFails, CompositorStep, ReceivePaste,
           ReceiveShutdown, TypeFrame, DeviceResumed, DevicePaused, SessionLost, OfflinePaste,
           OfflineShutdown, DelayEnds, Connects, NextEvent, PauseKeyboard, ResumeKeyboard,
           LoseKeyboard, FlushFails
  <2>6. CASE Shutdown
    BY <2>6 DEF Shutdown
  <2>7. CASE CaptureStep
    <3>1. CASE CaptureAtOnce
      BY <3>1, Zenon DEF CaptureAtOnce
    <3> QED
      BY <2>7, <3>1 DEF CaptureStep, CaptureOnKWin, CaptureAnswered
  <2>8. CASE CaptureTimesOut
    BY <2>8 DEF CaptureTimesOut, GiveUp
  <2>9. CASE ActStep
    BY <2>9
       DEF ActStep, Activate, RestoreAtOnce, RestoreOnKWin, RestoreAnswered, CheckAtOnce,
           CheckOnKWin, CheckAnswered, CheckAgain, Paste, RequestPaste, TypeKey,
           PasteAnswered, TakePasted
  <2>10. CASE KWinTimesOut \/ TimeIsUp \/ TypeKeyFails \/ PasteGivenUp
    BY <2>10 DEF KWinTimesOut, TimeIsUp, TypeKeyFails, PasteGivenUp, GiveUp, PasteTimesOut
  <2> QED
    BY <2>1, <2>2, <2>3, <2>4, <2>5, <2>6, <2>7, <2>8, <2>9, <2>10 DEF DNext
<1>3. /\ left["late"] \in Nat /\ left'["late"] \in Nat /\ instance.bound["late"] \in Nat
      /\ left'["late"] <= left["late"]
      /\ Spend("late") => left'["late"] = left["late"] - 1
  BY <1>1, <1>2 DEF Spend, Disturbances
<1>4. \A b, l, m \in Nat :
        l <= b /\ m <= l =>
          /\ m <= b /\ b - l \in Nat /\ b - m \in Nat /\ b - l <= b - m
          /\ m = l - 1 => b - m = b - l + 1
  OBVIOUS
<1> QED
  BY <1>1, <1>3, <1>4 DEF LateInv, GivenUp

\* The call goes on.
CallKept ==
  /\ Asks' <=> Asks
  /\ Asks => Wanted' = Wanted /\ popup'.target = popup.target

\* What a step does to the helper of KWin, and to the call that waits for it.
CallMoves ==
  \/ KWinStep /\ CallKept
  \/ /\ ~Asks /\ Asks' /\ Request(Wanted', popup.target)
     /\ popup'.target = popup.target
  \/ /\ ~Asks /\ Asks' /\ Wanted' = "Capture" /\ Request("Capture", NoWindow)
  \/ reply # NoReply /\ TakeReply /\ ~Asks'
  \/ Asks /\ GiveUp /\ ~Asks'
  \/ UNCHANGED kwinVars /\ CallKept

\* Every step of Delivery is, to the callers, one of CallMoves.
LEMMA CallIsMoved ==
  ASSUME DeliveryInv, ScreenInv, DNext
  PROVE  CallMoves
<1>0. /\ popup \in Popups
      /\ act \in [pc : {"idle", "restore", "restoring", "check", "checking", "again",
                       "paste", "pasting", "typing"}, seen : Nat, frame : 0..4]
      /\ act.pc # "idle" => popup.pc = "open"
  BY DEF DeliveryInv, PopupTypeOK, Popups, ActInv, ScreenInv
<1>k. ASSUME UNCHANGED kwinVars, popup'.pc = popup.pc, popup'.target = popup.target, act' = act
      PROVE  CallMoves
  BY <1>k DEF CallMoves, CallKept, Asks, Wanted
<1>n. ASSUME UNCHANGED kwinVars, ~Asks, ~Asks' PROVE CallMoves
  BY <1>n DEF CallMoves, CallKept
<1>a. ASSUME NEW o, Answer(o), popup.pc # "capture" PROVE ~Asks'
  <2>1. act'.pc = "idle" /\ popup'.pc = popup.pc
    BY <1>0, <1>a DEF Answer, Publish, Idle, Popups
  <2> QED
    BY <1>a, <2>1 DEF Asks
<1> USE <1>0, <1>k DEF Goto, desktopVars, kwinVars, portalVars, popupVars
<1>1. CASE UserMoves
  BY <1>1 DEF UserMoves, Popups
<1>2. CASE Granted
  BY <1>2 DEF Granted
<1>3. CASE PopupStep
  <2>1. popup.pc # "capture" /\ popup'.pc # "capture"
    <3>1. ASSUME NEW i \in Inputs, Frame(i) PROVE popup.pc # "capture" /\ popup'.pc # "capture"
      <4>1. act' = act
        BY <1>3 DEF PopupStep
      <4> QED
        BY <3>1, <4>1, FrameScreen
    <3>2. CASE Launch \/ LaunchFails \/ Spawn \/ Reap
      <4>1. popup.pc # "capture"
        BY <3>2 DEF Launch, LaunchFails, Spawn, Reap, DeliveryInv, PopupTypeOK
      <4> QED
        BY <3>2, <4>1 DEF Launch, LaunchFails, Spawn, Reap, NoProcess, Popups
    <3> QED
      BY <1>3, <3>1, <3>2 DEF PopupStep
  <2>2. act.pc \notin {"restoring", "checking"} /\ act' = act /\ UNCHANGED kwinVars
    BY <1>3, FrameScreen DEF PopupStep, Launch, LaunchFails, Spawn, Reap, DeliveryInv, PopupTypeOK
  <2> QED
    BY <1>n, <2>1, <2>2 DEF Asks
<1>4. CASE KWin
  <2>1. KWinStep /\ act' = act /\ popup'.pc = popup.pc /\ popup'.target = popup.target
    BY <1>4 DEF KWin, Popups
  <2> QED
    BY <2>1 DEF CallMoves, CallKept, Asks, Wanted
<1>5. CASE Portal
  BY <1>5 DEF Portal
<1>6. CASE Shutdown
  BY <1>6 DEF Shutdown
<1>7. CASE CaptureAtOnce
  BY <1>7, <1>n DEF CaptureAtOnce, Asks, Popups
<1>8. CASE CaptureOnKWin
  <2>1. ~Asks /\ popup'.pc = "capture" /\ Request("Capture", NoWindow)
    BY <1>8 DEF CaptureOnKWin, Asks, Popups
  <2> QED
    BY <2>1 DEF CallMoves, Asks, Wanted
<1>9. CASE CaptureAnswered
  BY <1>9 DEF CaptureAnswered, Answered, Opens, CallMoves, Asks, Popups
<1>10. CASE CaptureTimesOut
  BY <1>10 DEF CaptureTimesOut, Opens, CallMoves, Asks, Popups
<1>11. CASE Activate
  <2>1. ~Asks /\ UNCHANGED kwinVars /\ popup.pc # "capture"
    BY <1>11 DEF Activate, Asks
  <2>2. CASE Goto("restore") /\ UNCHANGED popup
    BY <1>n, <2>1, <2>2 DEF Asks
  <2>3. ASSUME NEW o, Answer(o) PROVE CallMoves
    BY <1>a, <1>n, <2>1, <2>3
  <2> QED
    BY <1>11, <2>2, <2>3 DEF Activate
<1>12. CASE RestoreAtOnce
  <2>1. ~Asks /\ UNCHANGED kwinVars /\ popup.pc # "capture"
    BY <1>12 DEF RestoreAtOnce, Asks
  <2>2. CASE Goto("check") /\ UNCHANGED popup
    BY <1>n, <2>1, <2>2 DEF Asks
  <2>3. CASE Answer("PasteFailed")
    BY <1>a, <1>n, <2>1, <2>3
  <2> QED
    BY <1>12, <2>2, <2>3 DEF RestoreAtOnce
<1>13. CASE RestoreOnKWin
  <2>1. ~Asks /\ Asks' /\ Wanted' = "Restore" /\ popup' = popup
    BY <1>13 DEF RestoreOnKWin, Asks, Wanted
  <2> QED
    BY <1>13, <2>1 DEF RestoreOnKWin, CallMoves
<1>14. CASE RestoreAnswered
  <2>1. reply # NoReply /\ TakeReply
    BY <1>14 DEF RestoreAnswered, Answered
  <2>2. ~Asks'
    BY <1>14, <1>a DEF RestoreAnswered, Asks
  <2> QED
    BY <2>1, <2>2 DEF CallMoves
<1>15. CASE CheckAtOnce
  <2>1. ~Asks /\ UNCHANGED kwinVars /\ popup.pc # "capture"
    BY <1>15 DEF CheckAtOnce, Asks
  <2>2. CASE act'.pc \in {"paste", "again"} /\ UNCHANGED popup
    BY <1>n, <2>1, <2>2 DEF Asks
  <2>3. CASE Answer("PasteFailed")
    BY <1>a, <1>n, <2>1, <2>3
  <2> QED
    BY <1>15, <2>2, <2>3 DEF CheckAtOnce
<1>16. CASE CheckOnKWin
  <2>1. ~Asks /\ Asks' /\ Wanted' = "IsActive" /\ popup' = popup
    BY <1>16 DEF CheckOnKWin, Asks, Wanted
  <2> QED
    BY <1>16, <2>1 DEF CheckOnKWin, CallMoves
<1>17. CASE CheckAnswered
  <2>1. reply # NoReply /\ TakeReply
    BY <1>17 DEF CheckAnswered, Answered
  <2>2. ~Asks'
    BY <1>17, <1>a DEF CheckAnswered, Asks
  <2> QED
    BY <2>1, <2>2 DEF CallMoves
<1>18. CASE CheckAgain
  BY <1>18, <1>n DEF CheckAgain, Asks
<1>19. CASE Paste
  <2>1. ~Asks /\ UNCHANGED kwinVars /\ popup.pc # "capture"
    BY <1>19 DEF Paste, Asks
  <2>2. CASE act'.pc \in {"pasting", "typing"} /\ UNCHANGED popup
    BY <1>n, <2>1, <2>2 DEF Asks
  <2>3. ASSUME NEW o, Answer(o) PROVE CallMoves
    BY <1>a, <1>n, <2>1, <2>3
  <2> QED
    BY <1>19, <2>2, <2>3 DEF Paste
<1>20. CASE TypeKey
  <2>1. ~Asks /\ UNCHANGED kwinVars /\ popup.pc # "capture"
    BY <1>20 DEF TypeKey, Asks
  <2>2. CASE act'.pc = "typing" /\ UNCHANGED popup
    BY <1>n, <2>1, <2>2 DEF Asks
  <2>3. CASE Answer("Pasted")
    BY <1>a, <1>n, <2>1, <2>3
  <2> QED
    BY <1>20, <2>2, <2>3 DEF TypeKey
<1>21. CASE PasteAnswered
  BY <1>21, <1>a, <1>n DEF PasteAnswered, Asks
<1>22. CASE KWinTimesOut
  BY <1>22, <1>a DEF KWinTimesOut, CallMoves, Asks
<1>23. CASE TimeIsUp
  BY <1>23, <1>a, <1>n DEF TimeIsUp, Asks
<1>24. CASE TypeKeyFails
  BY <1>24, <1>a, <1>n DEF TypeKeyFails, Asks
<1>25. CASE PasteGivenUp
  BY <1>25, <1>a, <1>n DEF PasteGivenUp, Asks
<1> QED
  BY <1>1, <1>2, <1>3, <1>4, <1>5, <1>6, <1>7, <1>8, <1>9, <1>10, <1>11, <1>12, <1>13, <1>14,
     <1>15, <1>16, <1>17, <1>18, <1>19, <1>20, <1>21, <1>22, <1>23, <1>24, <1>25
     DEF DNext, CaptureStep, ActStep

\* A callback answers the commands of its kind, and no other.
LEMMA AnswerKinds ==
  ASSUME NEW c \in Commands, NEW r \in Callbacks
  PROVE  /\ Answers(c, r) # {} <=> Answering(r) = c.kind
         /\ \A a \in Answers(c, r) : a # NoReply
<1> USE DEF Answers, Answering
<1>1. /\ c.kind \in Kinds
      /\ r.kind \in {"Captured", "CaptureUnavailable", "RestoreRequested",
                    "RestoreNoTarget", "RestoreNotFound", "Active", "ActiveNone"}
  BY DEF Commands, Callbacks
<1>2. \A k, w : k # "none" => Reply(k, w) # NoReply
  BY DEF Reply, NoReply
<1>3. CASE c.kind = "Capture"
  BY <1>1, <1>2, <1>3
<1>4. CASE c.kind = "Restore"
  BY <1>1, <1>2, <1>4
<1>5. CASE c.kind = "IsActive"
  BY <1>1, <1>2, <1>5
<1> QED
  BY <1>1, <1>3, <1>4, <1>5 DEF Kinds

\* A call that goes on is waited for as long as there is no answer.
LEMMA OwnKept ==
  ASSUME CallKept
  PROVE  /\ reply' = reply => (Waiting' <=> Waiting)
         /\ reply' # NoReply => ~Waiting'
         /\ \A c : Own(c) /\ reply' = reply =>
              Waiting' /\ c.kind = Wanted' /\ (Wanted' # "Capture" => c.target = popup'.target)
BY DEF CallKept, Waiting, Own

\* While the call is waited for, its command is the last in the line, and when
\* the worker is on it everything else was taken.
LEMMA OwnIsLast ==
  ASSUME KWinTyped, LineInv, Waiting
  PROVE  InLine > 0 /\ Line[InLine] = Wanted
<1>1. CASE command.awaited
  <2>1. commands = <<>> /\ command.kind = Wanted /\ command # NoCommand
    BY <1>1 DEF LineInv, Own, NoCommand
  <2>2. InLine = Ahead
    BY <2>1, LinePlaces DEF InLine
  <2> QED
    BY <2>1, <2>2, LinePlaces DEF LineInv
<1>2. CASE commands # <<>> /\ commands[Len(commands)].awaited
  <2>1. Len(commands) > 0 /\ Len(commands) \in 1..Len(commands)
    BY <1>2, LinePlaces, ThreeQueues
  <2>2. commands[Len(commands)].kind = Wanted
    BY <1>2, <2>1 DEF LineInv, Own
  <2>3. Line[InLine] = commands[Len(commands)].kind /\ InLine > 0
    BY <2>1, LinePlaces DEF InLine
  <2> QED
    BY <2>2, <2>3
<1> QED
  BY <1>1, <1>2 DEF LineInv

\* Every step keeps the line to the calls that were given up and the one that is
\* waited for.
LEMMA LineStep ==
  ASSUME DeliveryInv, ScreenInv, LateInv, LineInv, DNext
  PROVE  LineInv'
<1>0. /\ KWinTyped /\ InLine \in Nat /\ Ahead \in Nat
      /\ GivenUp \in Nat /\ GivenUp' \in Nat /\ GivenUp <= GivenUp'
      /\ Spend("late") => GivenUp' = GivenUp + 1
      /\ focus' = focus /\ (Asks' => focus = "Kde")
  <2>1. KWinTyped /\ instance' = instance
    BY KWinTypedIsType, ActStays DEF DeliveryInv
  <2>2. focus' = focus
    BY <2>1 DEF focus
  <2>3. Asks' => focus = "Kde"
    BY <2>2, ScreenStep DEF ScreenInv
  <2> QED
    BY <2>1, <2>2, <2>3, LateStep, LinePlaces
<1>m. /\ InLine <= GivenUp => InLine <= GivenUp' /\ InLine + 1 <= GivenUp' + 1
      /\ InLine <= GivenUp + 1 => InLine <= GivenUp' + 1 /\ InLine - 1 <= GivenUp'
      /\ InLine <= GivenUp => InLine - 1 <= GivenUp'
  <2>1. \A n, g, h \in Nat : g <= h =>
          /\ n <= g => n <= h /\ n + 1 <= h + 1
          /\ n <= g + 1 => n <= h + 1 /\ n - 1 <= h
          /\ n <= g => n - 1 <= h
    OBVIOUS
  <2> QED
    BY <1>0, <2>1
<1>1. CASE UNCHANGED kwinVars /\ CallKept
  <2>1. /\ InLine' = InLine /\ Ahead' = Ahead /\ Line' = Line
        /\ commands' = commands /\ command' = command /\ reply' = reply
    BY <1>1 DEF kwinVars, InLine, Ahead, Line, Answering
  <2>2. /\ Waiting' <=> Waiting
        /\ \A c : Own(c) =>
             Waiting' /\ c.kind = Wanted' /\ (Wanted' # "Capture" => c.target = popup'.target)
    BY <1>1, <2>1, OwnKept
  <2>3. Asks' <=> Asks
    BY <1>1 DEF CallKept
  <2> QED
    BY <1>0, <1>m, <2>1, <2>2, <2>3 DEF LineInv, Own
<1>2. ASSUME NEW w, ~Asks, Asks', Request(Wanted', w), Wanted' # "Capture" => w = popup'.target
      PROVE  LineInv'
  <2>1. ~Waiting /\ reply = NoReply /\ reply' = NoReply /\ command' = command /\ Waiting'
    BY <1>2 DEF Waiting, LineInv, Request
  <2>2. /\ InLine' = InLine + 1 /\ Ahead' = Ahead
        /\ \A i \in 1..InLine : Line'[i] = Line[i]
    BY <1>0, <1>2, RequestJoins DEF Joins
  <2>3. /\ Len(commands') = Len(commands) + 1 /\ Len(commands) \in Nat
        /\ commands'[Len(commands) + 1] = Command(Wanted', w)
        /\ \A i \in 1..Len(commands) : commands'[i] = commands[i]
    BY <1>0, <1>2, LinePlaces, ThreeQueues DEF Request
  <2>4. ~command.awaited /\ \A i \in 1..Len(commands) : ~commands[i].awaited
    BY <2>1 DEF LineInv, Own
  <2>5. commands' # <<>>
    BY <2>3
  <2>6. /\ Command(Wanted', w).awaited /\ Command(Wanted', w).kind = Wanted'
        /\ Command(Wanted', w).target = w
    BY DEF Command
  <2>7. \A i \in 1..Len(commands') :
          commands'[i].awaited => i = Len(commands') /\ Own(commands[i])'
    BY <1>2, <2>1, <2>3, <2>4, <2>6 DEF Own
  <2>8. Waiting' => commands' # <<>> /\ commands'[Len(commands')].awaited
    BY <2>3, <2>5, <2>6
  <2>9. command' # NoCommand => Ahead' > 0 /\ Line'[Ahead'] = command'.kind
    <3>1. Ahead > 0 => Ahead \in 1..InLine
      BY <1>0, LinePlaces
    <3> QED
      BY <2>1, <2>2, <3>1 DEF LineInv
  <2>10. InLine' <= GivenUp' + 1
    BY <1>m, <2>1, <2>2 DEF LineInv
  <2> QED
    BY <1>0, <1>2, <2>1, <2>4, <2>7, <2>8, <2>9, <2>10 DEF LineInv
<1>3. CASE reply # NoReply /\ TakeReply /\ ~Asks'
  <2>1. /\ InLine' = InLine /\ Ahead' = Ahead /\ Line' = Line
        /\ commands' = commands /\ command' = command /\ reply' = NoReply
    BY <1>3 DEF TakeReply, InLine, Ahead, Line, Answering
  <2>2. ~Waiting /\ ~Waiting'
    BY <1>3 DEF Waiting
  <2>3. InLine <= GivenUp => InLine <= GivenUp'
    BY <1>0
  <2> QED
    BY <1>0, <2>1, <2>2, <2>3 DEF LineInv, Own
<1>4. CASE Asks /\ GiveUp /\ ~Asks'
  <2>1. /\ InLine' = InLine /\ Ahead' = Ahead
        /\ \A i \in 1..InLine : Line'[i] = Line[i]
        /\ \A i \in 1..Len(commands') : ~commands'[i].awaited
    BY <1>0, <1>4, GiveUpStays DEF SameLine
  <2>2. Waiting /\ ~Waiting' /\ reply' = NoReply /\ GivenUp' = GivenUp + 1
    BY <1>0, <1>4 DEF Waiting, GiveUp, Answered
  <2>3. /\ ~command'.awaited /\ command'.kind = command.kind
        /\ command' # NoCommand => command # NoCommand
    <3>1. CASE command = NoCommand
      BY <1>4, <3>1 DEF GiveUp, NoCommand
    <3>2. CASE command \in Commands
      BY <1>4, <3>2 DEF GiveUp, Commands, Kinds, NoCommand
    <3> QED
      BY <1>0, <3>1, <3>2 DEF KWinTyped
  <2>4. command' # NoCommand => Ahead' > 0 /\ Line'[Ahead'] = command'.kind
    <3>1. Ahead > 0 => Ahead \in 1..InLine
      BY <1>0, LinePlaces
    <3> QED
      BY <2>1, <2>3, <3>1 DEF LineInv
  <2> QED
    BY <1>0, <2>1, <2>2, <2>3, <2>4 DEF LineInv
<1>5. CASE KWinStep /\ CallKept
  <2>0. /\ Asks' <=> Asks
        /\ reply' = reply => (Waiting' <=> Waiting)
        /\ reply' # NoReply => ~Waiting'
        /\ \A c : Own(c) /\ reply' = reply =>
             Waiting' /\ c.kind = Wanted' /\ (Wanted' # "Capture" => c.target = popup'.target)
    BY <1>5, OwnKept DEF CallKept
  <2>1. CASE HelperRuns
    <3>1. /\ InLine' = InLine /\ Ahead' = Ahead
          /\ \A i \in 1..InLine : Line'[i] = Line[i]
          /\ commands' = commands /\ command' = command /\ reply' = reply
      BY <1>0, <2>1, RunsInLine DEF SameLine, HelperRuns
    <3>2. command' # NoCommand => Ahead' > 0 /\ Line'[Ahead'] = command'.kind
      <4>1. Ahead > 0 => Ahead \in 1..InLine
        BY <1>0, LinePlaces
      <4> QED
        BY <3>1, <4>1 DEF LineInv
    <3> QED
      BY <1>0, <1>m, <2>0, <3>1, <3>2 DEF LineInv, Own
  <2>2. CASE HelperReloads
    <3>1. /\ InLine' = InLine /\ Ahead' = Ahead /\ Line' = Line
          /\ commands' = commands /\ command' = command /\ reply' = reply
      BY <2>2 DEF HelperReloads, InLine, Ahead, Line, Answering
    <3> QED
      BY <1>0, <1>m, <2>0, <3>1 DEF LineInv, Own
  <2>3. CASE TakeCommand
    <3>1. /\ Len(commands) \in Nat \ {0} /\ Len(commands') = Len(commands) - 1
          /\ Head(commands) = commands[1] /\ commands[1] \in Commands
          /\ \A i \in 1..Len(commands) - 1 : commands'[i] = commands[i + 1]
          /\ command = NoCommand
      BY <1>0, <2>3, LinePlaces, ThreeQueues DEF TakeCommand
    <3>2. Len(commands) = 1 => commands' = <<>>
      BY <1>0, <3>1, <2>3, KWinQueues, EmptySeq DEF TakeCommand
    <3>3. commands[1].awaited => Len(commands) = 1 /\ Own(commands[1])
      BY <3>1 DEF LineInv
    <3>4. ~command.awaited
      BY <3>1 DEF NoCommand
    <3>5. ASSUME NEW i \in 1..Len(commands'), commands'[i].awaited
          PROVE  i = Len(commands') /\ Own(commands'[i]) /\ ~commands[1].awaited
      <4>1. /\ i \in 1..Len(commands) - 1 /\ i + 1 \in 1..Len(commands)
            /\ commands'[i] = commands[i + 1]
        BY <3>1
      <4>2. i + 1 = Len(commands) /\ Own(commands[i + 1])
        BY <3>5, <4>1 DEF LineInv
      <4> QED
        BY <3>1, <3>3, <4>1, <4>2
    <3>6. Waiting => /\ Len(commands) = 1 => commands[1].awaited
                     /\ Len(commands) # 1 => /\ commands' # <<>>
                                             /\ commands'[Len(commands')].awaited
      <4>1. Waiting => commands[Len(commands)].awaited
        BY <3>4 DEF LineInv
      <4>2. Len(commands) # 1 =>
              /\ Len(commands') \in 1..Len(commands) - 1 /\ Len(commands') + 1 = Len(commands)
        BY <3>1
      <4>3. Len(commands) # 1 => commands'[Len(commands')] = commands[Len(commands)]
        BY <3>1, <4>2
      <4>4. Len(commands) # 1 => commands' # <<>>
        BY <4>2
      <4> QED
        BY <4>1, <4>3, <4>4
    <3>7. CASE command' # NoCommand
      <4>1. command' = commands[1] /\ reply' = reply
        BY <2>3, <3>1, <3>7 DEF TakeCommand
      <4>2. /\ InLine' = InLine /\ Ahead' = Ahead + 1
            /\ \A i \in 1..InLine : Line'[i] = Line[i]
        BY <1>0, <2>3, <3>7, TakesFromLine DEF SameLine
      <4>3. Ahead + 1 \in 1..InLine /\ Line[Ahead + 1] = commands[1].kind
        BY <1>0, <3>1, LinePlaces DEF InLine
      <4>4. Ahead' > 0 /\ Line'[Ahead'] = command'.kind
        BY <1>0, <4>1, <4>2, <4>3
      <4>5. command'.awaited => commands' = <<>> /\ Own(command)'
        BY <2>0, <3>2, <3>3, <4>1 DEF Own
      <4>6. \A i \in 1..Len(commands') : commands'[i].awaited =>
              i = Len(commands') /\ Own(commands[i])'
        BY <2>0, <3>5, <4>1 DEF Own
      <4>7. Waiting' => \/ command'.awaited
                        \/ commands' # <<>> /\ commands'[Len(commands')].awaited
        BY <2>0, <3>6, <4>1
      <4> QED
        BY <1>0, <1>m, <2>0, <4>1, <4>2, <4>4, <4>5, <4>6, <4>7 DEF LineInv
    <3>8. CASE command' = NoCommand
      <4>1. reply' = IF commands[1].awaited THEN Reply("Failed", NoWindow) ELSE reply
        BY <2>3, <3>1, <3>8 DEF TakeCommand, Commands, Kinds, NoCommand
      <4>2. InLine' = InLine - 1
        BY <1>0, <2>3, <3>8, TakesFromLine DEF Leaves
      <4>3. command'.awaited = FALSE
        BY <3>8 DEF NoCommand
      <4>4. CASE commands[1].awaited
        <5>1. reply' # NoReply /\ Waiting /\ Asks
          BY <3>3, <4>1, <4>4 DEF Reply, NoReply, Own, Waiting
        <5>2. \A i \in 1..Len(commands') : ~commands'[i].awaited
          BY <3>5, <4>4
        <5>3. InLine' <= GivenUp'
          BY <1>m, <4>2, <5>1 DEF LineInv
        <5>4. focus = "Kde"
          BY <5>1 DEF ScreenInv
        <5> QED
          BY <1>0, <2>0, <3>8, <4>3, <5>1, <5>2, <5>3, <5>4 DEF LineInv
      <4>5. CASE ~commands[1].awaited
        <5>1. reply' = reply
          BY <4>1, <4>5
        <5>2. \A i \in 1..Len(commands') : commands'[i].awaited =>
                i = Len(commands') /\ Own(commands[i])'
          BY <2>0, <3>5, <5>1 DEF Own
        <5>3. Waiting' => commands' # <<>> /\ commands'[Len(commands')].awaited
          BY <2>0, <3>6, <4>5, <5>1
        <5>4. InLine # 0
          BY <1>0, <3>1, LinePlaces DEF InLine
        <5>5. /\ ~Waiting => InLine - 1 <= GivenUp'
              /\ Waiting => InLine - 1 <= GivenUp' + 1
          <6>1. \A n, g \in Nat : n - 1 <= g => n - 1 <= g + 1
            OBVIOUS
          <6> QED
            BY <1>0, <1>m, <6>1 DEF LineInv
        <5> QED
          BY <1>0, <2>0, <3>8, <4>2, <4>3, <5>1, <5>2, <5>3, <5>4, <5>5 DEF LineInv
      <4> QED
        BY <4>4, <4>5
    <3> QED
      BY <3>7, <3>8
  <2>4. CASE ReadCallback
    <3>1. /\ command \in Commands /\ Head(callbacks) \in Callbacks
          /\ callbacks # <<>> /\ commands' = commands /\ command # NoCommand
      BY <1>0, <2>4, ThreeQueues DEF ReadCallback, KWinTyped
    <3>2. /\ InLine' = InLine - 1 /\ Ahead' = Ahead - 1 /\ 1 \in 1..InLine
          /\ \A i \in 1..InLine - 1 : Line'[i] = Line[IF i < 1 THEN i ELSE i + 1]
      BY <1>0, <2>4, ReadsFromLine DEF Leaves
    <3>3. Ahead > 0 /\ Line[Ahead] = command.kind
      BY <3>1 DEF LineInv
    <3>4. focus = "Kde"
      BY <3>2 DEF LineInv
    <3>5. /\ ~Waiting => InLine - 1 <= GivenUp'
          /\ Waiting => InLine - 1 <= GivenUp'
      BY <1>m DEF LineInv
    <3>6. InLine - 1 <= GivenUp' => InLine - 1 <= GivenUp' + 1
      <4>1. \A n, g \in Nat : n - 1 <= g => n - 1 <= g + 1
        OBVIOUS
      <4> QED
        BY <1>0, <4>1
    <3>7. CASE Answers(command, Head(callbacks)) = {}
      <4>1. command' = command /\ reply' = reply
        BY <2>4, <3>7 DEF ReadCallback
      <4>2. Ahead > 1
        <5>1. Line[1] = Answering(Head(callbacks))
          BY <1>0, <3>1, LinePlaces, ThreeQueues
        <5>2. Line[1] # Line[Ahead]
          BY <3>1, <3>3, <3>7, <5>1, AnswerKinds
        <5> QED
          BY <1>0, <3>3, <5>2
      <4>3. Ahead' > 0 /\ Line'[Ahead'] = command'.kind
        <5>1. Ahead - 1 \in 1..InLine - 1 /\ ~(Ahead - 1 < 1) /\ Ahead - 1 + 1 = Ahead
          BY <1>0, <4>2, LinePlaces
        <5> QED
          BY <3>2, <3>3, <4>1, <4>2, <5>1
      <4> QED
        BY <1>0, <2>0, <3>1, <3>2, <3>4, <3>5, <3>6, <4>1, <4>3 DEF LineInv, Own
    <3>8. ASSUME NEW r \in Answers(command, Head(callbacks)), Finish(r)
          PROVE  LineInv'
      <4>1. command' = NoCommand /\ reply' = IF command.awaited THEN r ELSE reply
        BY <3>8 DEF Finish
      <4>2. command'.awaited = FALSE
        BY <4>1 DEF NoCommand
      <4>3. CASE command.awaited
        <5>1. reply' # NoReply /\ Asks /\ commands' = <<>>
          BY <3>1, <3>8, <4>1, <4>3, AnswerKinds DEF LineInv, Own, Waiting
        <5>2. 1..Len(commands') = {}
          BY <5>1
        <5> QED
          BY <1>0, <2>0, <3>2, <3>4, <3>5, <4>1, <4>2, <5>1, <5>2 DEF LineInv
      <4>4. CASE ~command.awaited
        <5>1. reply' = reply
          BY <4>1, <4>4
        <5> QED
          BY <1>0, <2>0, <3>1, <3>2, <3>4, <3>5, <3>6, <4>1, <4>2, <4>4, <5>1 DEF LineInv, Own
      <4> QED
        BY <4>3, <4>4
    <3> QED
      BY <2>4, <3>7, <3>8 DEF ReadCallback
  <2>5. CASE CallbackTimesOut
    <3>1. /\ InLine' = InLine /\ Ahead' = Ahead /\ Line' = Line /\ commands' = commands
          /\ command # NoCommand /\ command' = NoCommand
          /\ reply' = IF command.awaited THEN Reply("Failed", NoWindow) ELSE reply
      BY <2>5 DEF CallbackTimesOut, Finish, InLine, Ahead, Line, Answering
    <3>2. GivenUp' = GivenUp + 1
      BY <1>0, <2>5 DEF CallbackTimesOut
    <3>3. command'.awaited = FALSE
      BY <3>1 DEF NoCommand
    <3>4. CASE command.awaited
      <4>1. reply' # NoReply /\ Asks /\ Waiting /\ commands' = <<>>
        BY <3>1, <3>4 DEF LineInv, Own, Waiting, Reply, NoReply
      <4>2. 1..Len(commands') = {}
        BY <4>1
      <4> QED
        BY <1>0, <2>0, <3>1, <3>2, <3>3, <4>1, <4>2 DEF LineInv, ScreenInv
    <3>5. CASE ~command.awaited
      <4>1. reply' = reply
        BY <3>1, <3>5
      <4> QED
        BY <1>0, <1>m, <2>0, <3>1, <3>3, <3>5, <4>1 DEF LineInv, Own
    <3> QED
      BY <3>4, <3>5
  <2> QED
    BY <1>5, <2>1, <2>2, <2>3, <2>4, <2>5 DEF KWinStep
<1> QED
  BY <1>1, <1>2, <1>3, <1>4, <1>5, CallIsMoved DEF CallMoves

-----------------------------------------------------------------------------
(* What the line may hold *)

NoChecks == \A i \in 1..InLine : Line[i] # "IsActive"

\* A check is never before, behind a restoration: what KWin will report it
\* reports of the state before it restores.
InOrder ==
  \A i, j \in 1..InLine : i < j /\ Line[i] = "Restore" => Line[j] # "IsActive"

OnlyLast == \A i \in 1..InLine : Line[i] = "IsActive" => i = InLine

\* A line that stays, or that one leaves, stays in order.
LEMMA LineKept ==
  ASSUME KWinTyped, SameLine \/ \E p : Leaves(p)
  PROVE  /\ NoChecks => NoChecks'
         /\ InOrder => InOrder'
         /\ OnlyLast => OnlyLast'
<1>1. InLine \in Nat
  BY LinePlaces
<1>2. CASE SameLine
  <2>1. InLine' = InLine /\ \A i \in 1..InLine : Line'[i] = Line[i]
    BY <1>2 DEF SameLine
  <2> QED
    BY <2>1 DEF NoChecks, InOrder, OnlyLast
<1>3. ASSUME NEW p, Leaves(p)
      PROVE  /\ NoChecks => NoChecks'
             /\ InOrder => InOrder'
             /\ OnlyLast => OnlyLast'
  <2> DEFINE at(i) == IF i < p THEN i ELSE i + 1
  <2>1. PICK n, m \in Nat : InLine = n /\ InLine' = m /\ n = m + 1 /\ p \in 1..n
    BY <1>1, <1>3 DEF Leaves
  <2>2. \A i, j \in 1..m :
          at(i) \in 1..n /\ (i < j => at(i) < at(j)) /\ (at(i) = n => i = m)
    BY <2>1
  <2>3. \A i \in 1..m : at(i) \in 1..n /\ Line'[i] = Line[at(i)]
    <3>1. m = InLine - 1
      BY <2>1
    <3>2. \A i \in 1..m : Line'[i] = Line[at(i)]
      BY <1>3, <3>1, Zenon DEF Leaves
    <3> QED
      BY <2>2, <3>2
  <2> HIDE DEF at
  <2>4. NoChecks => NoChecks'
    BY <2>1, <2>3 DEF NoChecks
  <2>5. ASSUME InOrder PROVE InOrder'
    <3>1. ASSUME NEW i \in 1..m, NEW j \in 1..m, i < j, Line'[i] = "Restore"
          PROVE  Line'[j] # "IsActive"
      <4>1. at(i) < at(j)
        BY <2>2, <3>1
      <4> QED
        BY <2>1, <2>3, <2>5, <3>1, <4>1 DEF InOrder
    <3> QED
      BY <2>1, <3>1 DEF InOrder
  <2>6. ASSUME OnlyLast PROVE OnlyLast'
    <3>1. ASSUME NEW i \in 1..m, Line'[i] = "IsActive" PROVE i = m
      <4>1. at(i) = n
        BY <2>1, <2>3, <2>6, <3>1 DEF OnlyLast
      <4> QED
        BY <2>2, <3>1, <4>1
    <3> QED
      BY <2>1, <3>1 DEF OnlyLast
  <2> QED
    BY <2>4, <2>5, <2>6
<1> QED
  BY <1>2, <1>3

\* What is left of the line when its head has been read.
LEMMA HeadLeaves ==
  ASSUME KWinTyped, Leaves(1)
  PROVE  /\ Line[1] = "Restore" /\ InOrder => NoChecks'
         /\ Line[1] = "IsActive" /\ OnlyLast => InLine' = 0
         /\ InLine <= 3 /\ Line[InLine] # "IsActive" => InOrder'
<1>1. InLine \in Nat
  BY LinePlaces
<1>2. /\ 1 \in 1..InLine /\ InLine' = InLine - 1
      /\ \A i \in 1..InLine' : Line'[i] = Line[i + 1]
  <2>1. \A i \in 1..InLine - 1 : ~(i < 1)
    BY <1>1
  <2> QED
    BY <2>1 DEF Leaves
<1>3. \A i \in 1..InLine' : i + 1 \in 1..InLine /\ 1 < i + 1
  BY <1>1, <1>2
<1>4. ASSUME Line[1] = "Restore", InOrder PROVE NoChecks'
  BY <1>2, <1>3, <1>4 DEF NoChecks, InOrder
<1>5. ASSUME Line[1] = "IsActive", OnlyLast PROVE InLine' = 0
  BY <1>1, <1>2, <1>5 DEF OnlyLast
<1>6. ASSUME InLine <= 3, Line[InLine] # "IsActive" PROVE InOrder'
  <2>1. ASSUME NEW i \in 1..InLine', NEW j \in 1..InLine', i < j
        PROVE  Line'[j] # "IsActive"
    <3>1. j + 1 = InLine
      BY <1>1, <1>2, <1>6, <2>1
    <3> QED
      BY <1>2, <1>6, <3>1
  <2> QED
    BY <2>1 DEF InOrder
<1> QED
  BY <1>4, <1>5, <1>6

\* What the line is when a restoration or a check has joined it.
LEMMA JoinsLine ==
  ASSUME KWinTyped
  PROVE  /\ Joins("Restore") /\ InOrder => InOrder'
         /\ Joins("IsActive") /\ NoChecks => OnlyLast'
<1>1. InLine \in Nat
  BY LinePlaces
<1>2. ASSUME NEW i \in 1..InLine + 1 PROVE i \in 1..InLine \/ i = InLine + 1
  BY <1>1
<1>3. ASSUME Joins("Restore"), InOrder PROVE InOrder'
  <2>1. /\ InLine' = InLine + 1 /\ Line'[InLine + 1] = "Restore"
        /\ \A i \in 1..InLine : Line'[i] = Line[i]
    BY <1>3 DEF Joins
  <2>2. \A i \in 1..InLine : ~(InLine + 1 < i)
    BY <1>1
  <2> QED
    BY <1>2, <1>3, <2>1, <2>2 DEF InOrder
<1>4. ASSUME Joins("IsActive"), NoChecks PROVE OnlyLast'
  <2>1. /\ InLine' = InLine + 1
        /\ \A i \in 1..InLine : Line'[i] = Line[i]
    BY <1>4 DEF Joins
  <2> QED
    BY <1>2, <1>4, <2>1 DEF OnlyLast, NoChecks
<1> QED
  BY <1>3, <1>4

-----------------------------------------------------------------------------
(* The confirmation of the target *)

\* Since the target was last checked it is the active window, unless the user
\* moved the focus.
Confirmed == moves = act.seen => active = popup.target

\* A restoration may still be asked for, or is in the line.
MayRestore ==
  \/ popup.pc = "capture" /\ reply.result = "ok"
  \/ /\ popup.pc = "open" /\ popup.target # NoWindow /\ popup.outcome = "none"
     /\ act.pc \in {"idle", "restore"}
  \/ act.pc = "restoring" /\ Waiting

\* The target was restored and is checked next.
MayCheck ==
  \/ act.pc \in {"check", "again"}
  \/ act.pc = "restoring" /\ reply.result = "ok"
  \/ act.pc = "checking" /\ reply.result = "false"

\* The check is in the line.
Checks == act.pc = "checking" /\ Waiting

\* The target was found active.
MayType ==
  \/ act.pc \in {"paste", "pasting", "typing"}
  \/ act.pc = "checking" /\ reply.result = "true"

\* A report of the target that is on its way was made of what is confirmed.
Trusted ==
  \A i \in 1..Len(callbacks) :
    callbacks[i] = Callback("Active", popup.target) => Confirmed

\* With two calls given up there is no room for an old check behind an old
\* restoration: the answer that confirms the target is that of its own check.
ConfirmInv ==
  GivenUp <= 2 =>
    /\ MayRestore => InOrder
    /\ MayCheck => NoChecks
    /\ Checks => OnlyLast /\ Trusted
    /\ MayType => InLine = 0 /\ Confirmed

\* Without an activation, and without a target to restore, nothing is asked of
\* the line.
LEMMA NothingConfirmed ==
  ASSUME act'.pc = "idle",
         popup'.pc = "capture" => reply'.result # "ok",
         popup'.pc = "open" => popup'.target = NoWindow \/ popup'.outcome # "none"
  PROVE  ConfirmInv'
BY DEF ConfirmInv, MayRestore, MayCheck, Checks, MayType

\* What is in the line stays there while its queues stay.
LEMMA SameQueues ==
  ASSUME callbacks' = callbacks, invoked' = invoked, commands' = commands
  PROVE  /\ InLine' = InLine /\ Line' = Line
         /\ (NoChecks => NoChecks') /\ (InOrder => InOrder')
<1>1. InLine' = InLine /\ Line' = Line
  BY DEF InLine, Ahead, Line, Answering
<1> QED
  BY <1>1 DEF NoChecks, InOrder

\* An empty line confirms everything but the target.
LEMMA EmptyLine ==
  ASSUME KWinTyped, InLine = 0,
         callbacks' = callbacks, invoked' = invoked, commands' = commands,
         MayType' => Confirmed'
  PROVE  ConfirmInv'
<1>1. InLine' = 0
  BY SameQueues
<1>2. Len(callbacks') = 0
  <2>1. Len(callbacks) <= Ahead /\ Ahead <= InLine /\ Len(callbacks) \in Nat /\ Ahead \in Nat
    BY LinePlaces
  <2> QED
    BY <2>1
<1>3. 1..InLine' = {} /\ 1..Len(callbacks') = {}
  BY <1>1, <1>2
<1> QED
  BY <1>1, <1>3 DEF ConfirmInv, NoChecks, InOrder, OnlyLast, Trusted

\* A step in which the activation, the window with the focus and the answer stay,
\* and the line at most gets shorter.
LEMMA ConfirmKept ==
  ASSUME KWinTyped, ConfirmInv, GivenUp' <= 2 => GivenUp <= 2,
         act' = act, popup'.pc = popup.pc, popup'.target = popup.target,
         popup'.outcome = popup.outcome,
         act.pc # "idle" /\ Confirmed => Confirmed',
         SameLine \/ \E p : Leaves(p),
         \A i \in 1..Len(callbacks') : \E j \in 1..Len(callbacks) :
           callbacks'[i] = callbacks[j],
         reply' = reply \/ reply' = Reply("Failed", NoWindow)
  PROVE  ConfirmInv'
<1> SUFFICES ASSUME GivenUp' <= 2
             PROVE  /\ MayRestore' => InOrder'
                    /\ MayCheck' => NoChecks'
                    /\ Checks' => OnlyLast' /\ Trusted'
                    /\ MayType' => InLine' = 0 /\ Confirmed'
  BY DEF ConfirmInv
<1>1. /\ MayRestore => InOrder
      /\ MayCheck => NoChecks
      /\ Checks => OnlyLast /\ Trusted
      /\ MayType => InLine = 0 /\ Confirmed
  BY DEF ConfirmInv
<1>2. (NoChecks => NoChecks') /\ (InOrder => InOrder') /\ (OnlyLast => OnlyLast')
  BY LineKept
<1>3. /\ reply'.result = reply.result \/ reply'.result = "Failed"
      /\ reply' = NoReply => reply = NoReply
  BY DEF Reply, NoReply
<1>4. /\ MayRestore' => MayRestore
      /\ MayCheck' => MayCheck
      /\ Checks' => Checks
      /\ MayType' => MayType
  BY <1>3 DEF MayRestore, MayCheck, Checks, MayType, Waiting, Asks
<1>5. InLine = 0 => InLine' = 0
  BY DEF SameLine, Leaves
<1>6. MayType \/ Checks => act.pc # "idle"
  BY DEF MayType, Checks
<1>7. Checks /\ Trusted => Trusted'
  BY <1>6 DEF Trusted
<1> QED
  BY <1>1, <1>2, <1>4, <1>5, <1>6, <1>7

\* What KWin runs and reports keeps it.
LEMMA ConfirmRuns ==
  ASSUME DeliveryInv, ScreenInv, ConfirmInv, GivenUp' <= 2 => GivenUp <= 2,
         HelperRuns, act' = act, popup'.pc = popup.pc, popup'.target = popup.target,
         popup'.outcome = popup.outcome
  PROVE  ConfirmInv'
<1> SUFFICES ASSUME GivenUp' <= 2
             PROVE  /\ MayRestore' => InOrder'
                    /\ MayCheck' => NoChecks'
                    /\ Checks' => OnlyLast' /\ Trusted'
                    /\ MayType' => InLine' = 0 /\ Confirmed'
  BY DEF ConfirmInv
<1>0. KWinTyped
  BY KWinTypedIsType DEF DeliveryInv
<1>1. /\ MayRestore => InOrder
      /\ MayCheck => NoChecks
      /\ Checks => OnlyLast /\ Trusted
      /\ MayType => InLine = 0 /\ Confirmed
  BY DEF ConfirmInv
<1>2. reply' = reply /\ moves' = moves /\ invoked # <<>>
  BY DEF HelperRuns
<1>3. /\ MayRestore' => MayRestore
      /\ MayCheck' => MayCheck
      /\ Checks' => Checks
      /\ MayType' => MayType
  BY <1>2 DEF MayRestore, MayCheck, Checks, MayType, Waiting, Asks
<1>4. (NoChecks => NoChecks') /\ (InOrder => InOrder') /\ (OnlyLast => OnlyLast')
  BY <1>0, RunsInLine, LineKept
<1>5. PICK a, b, c \in Nat :
        Len(callbacks) = a /\ Len(invoked) = b /\ InLine = a + b + c /\ b > 0
  <2>1. PICK a, b, c \in Nat :
          Len(callbacks) = a /\ Len(invoked) = b /\ Len(commands) = c
    BY <1>0, LinePlaces
  <2>2. InLine = a + b + c
    BY <2>1 DEF InLine, Ahead
  <2>3. b > 0
    BY <1>0, <1>2, <2>1, ThreeQueues
  <2> QED
    BY <2>1, <2>2, <2>3
<1>6. InLine # 0 /\ ~(InLine \in 1..a)
  BY <1>5
<1>7. ASSUME OnlyLast, NEW i \in 1..a, NEW w PROVE callbacks[i] # Callback("Active", w)
  <2>1. i \in 1..InLine /\ Line[i] = Answering(callbacks[i])
    BY <1>0, <1>5, LinePlaces
  <2>2. i # InLine
    BY <1>6
  <2> QED
    BY <1>7, <2>1, <2>2 DEF OnlyLast, Callback, Answering
<1>8. PICK k, w : Says(k, w) /\ (k = "Active" => active' = w)
  BY DEF HelperRuns, CaptureActiveWindow, RestoreCapturedWindow, ReportActiveWindow
<1>9. ASSUME Checks, OnlyLast PROVE Trusted'
  <2>1. ASSUME NEW i \in 1..Len(callbacks'),
               callbacks'[i] = Callback("Active", popup.target)
        PROVE  Confirmed'
    <3>1. /\ Len(callbacks') = a + 1 /\ callbacks'[a + 1] = Callback(k, w)
          /\ \A j \in 1..a : callbacks'[j] = callbacks[j]
      BY <1>0, <1>5, <1>8, ThreeQueues DEF Says
    <3>2. i \in 1..a \/ i = a + 1
      BY <3>1
    <3>3. i = a + 1
      BY <1>7, <1>9, <2>1, <3>1, <3>2
    <3>4. k = "Active" /\ w = popup.target
      BY <2>1, <3>1, <3>3 DEF Callback
    <3> QED
      BY <1>8, <3>4 DEF Confirmed
  <2> QED
    BY <2>1 DEF Trusted
<1> QED
  BY <1>1, <1>3, <1>4, <1>6, <1>9

\* What the worker reads keeps it: the answer to the call that waits is the last
\* of the line for a capture, and the first for the others.
LEMMA ConfirmReads ==
  ASSUME DeliveryInv, ScreenInv, LineInv, ConfirmInv, GivenUp \in Nat,
         GivenUp' <= 2 => GivenUp <= 2,
         ReadCallback, act' = act, popup'.pc = popup.pc, popup'.target = popup.target,
         popup'.outcome = popup.outcome
  PROVE  ConfirmInv'
<1>0. KWinTyped /\ active' = active /\ moves' = moves
  BY KWinTypedIsType DEF DeliveryInv, ReadCallback, desktopVars
<1>1. Confirmed => Confirmed'
  BY <1>0 DEF Confirmed
<1>2. /\ callbacks # <<>> /\ Head(callbacks) = callbacks[1] /\ Head(callbacks) \in Callbacks
      /\ Leaves(1) /\ 1 \in 1..Len(callbacks) /\ 1 \in 1..InLine
      /\ Line[1] = Answering(callbacks[1])
      /\ \A i \in 1..Len(callbacks') :
           i + 1 \in 1..Len(callbacks) /\ callbacks'[i] = callbacks[i + 1]
  <2>1. callbacks # <<>> /\ callbacks' = Tail(callbacks)
    BY DEF ReadCallback
  <2>2. Len(callbacks) \in Nat \ {0} /\ Len(callbacks') = Len(callbacks) - 1
    BY <1>0, <2>1, LinePlaces, ThreeQueues
  <2>3. \A i \in 1..Len(callbacks') : i \in 1..Len(callbacks) - 1 /\ i + 1 \in 1..Len(callbacks)
    BY <2>2
  <2>4. 1 \in 1..Len(callbacks)
    BY <2>2
  <2> QED
    BY <1>0, <2>1, <2>3, <2>4, ThreeQueues, ReadsFromLine, LinePlaces DEF Leaves
<1>3. CASE reply' = reply
  <2>1. \A i \in 1..Len(callbacks') : \E j \in 1..Len(callbacks) : callbacks'[i] = callbacks[j]
    BY <1>2
  <2>2. \E p : Leaves(p)
    BY <1>2
  <2> QED
    BY <1>0, <1>1, <1>3, <2>1, <2>2, ConfirmKept
<1>4. ASSUME NEW r \in Answers(command, Head(callbacks)), command.awaited, reply' = r
      PROVE  ConfirmInv'
  <2> SUFFICES ASSUME GivenUp' <= 2
               PROVE  /\ MayRestore' => InOrder'
                      /\ MayCheck' => NoChecks'
                      /\ Checks' => OnlyLast' /\ Trusted'
                      /\ MayType' => InLine' = 0 /\ Confirmed'
    BY DEF ConfirmInv
  <2>1. /\ MayRestore => InOrder
        /\ Checks => OnlyLast /\ Trusted
        /\ GivenUp <= 2
    BY DEF ConfirmInv
  <2>2. /\ command \in Commands /\ Waiting /\ command.kind = Wanted
        /\ Wanted # "Capture" => command.target = popup.target
        /\ InLine <= GivenUp + 1
    BY <1>0, <1>4 DEF KWinTyped, NoCommand, LineInv, Own
  <2>3. reply' # NoReply /\ Line[1] = Wanted
    BY <1>2, <1>4, <2>2, AnswerKinds
  <2>4. ~Waiting'
    BY <2>3 DEF Waiting
  <2>5. act.pc # "idle" => popup.pc = "open"
    BY DEF ScreenInv
  <2>6. CASE popup.pc = "capture"
    <3>1. Line[InLine] = "Capture"
      BY <1>0, <2>2, <2>6, OwnIsLast DEF Wanted
    <3>2. InLine <= 3
      BY <1>0, <2>1, <2>2, LinePlaces
    <3>3. InOrder'
      BY <1>0, <1>2, <3>1, <3>2, HeadLeaves
    <3> QED
      BY <2>4, <2>5, <2>6, <3>3 DEF MayCheck, Checks, MayType
  <2>7. CASE popup.pc = "open" /\ act.pc = "restoring"
    <3>1. Line[1] = "Restore" /\ InOrder
      BY <2>1, <2>2, <2>3, <2>7 DEF Wanted, MayRestore
    <3>2. NoChecks'
      BY <1>0, <1>2, <3>1, HeadLeaves
    <3> QED
      BY <2>4, <2>7, <3>2 DEF MayRestore, Checks, MayType
  <2>8. CASE popup.pc = "open" /\ act.pc = "checking"
    <3>1. Line[1] = "IsActive" /\ OnlyLast /\ Trusted /\ command.kind = "IsActive"
          /\ command.target = popup.target
      BY <2>1, <2>2, <2>3, <2>8 DEF Wanted, Checks
    <3>2. InLine' = 0
      BY <1>0, <1>2, <3>1, HeadLeaves
    <3>3. NoChecks'
      <4>1. 1..InLine' = {}
        BY <3>2
      <4> QED
        BY <4>1 DEF NoChecks
    <3>4. r.result = "true" => Confirmed
      <4>1. ASSUME r.result = "true"
            PROVE  callbacks[1] = Callback("Active", popup.target)
        <5>1. callbacks[1] \in Callbacks
          BY <1>2
        <5>2. callbacks[1].kind = "Active" /\ callbacks[1].window = popup.target
          BY <1>2, <1>4, <3>1, <4>1, <5>1 DEF Answers, Reply
        <5> QED
          BY <5>1, <5>2 DEF Callbacks, Callback
      <4> QED
        BY <1>2, <3>1, <4>1 DEF Trusted
    <3> QED
      BY <1>1, <1>4, <2>4, <2>8, <3>2, <3>3, <3>4 DEF MayRestore, Checks, MayType
  <2> QED
    BY <2>2, <2>5, <2>6, <2>7, <2>8 DEF Waiting, Asks
<1> QED
  BY <1>3, <1>4 DEF ReadCallback, Finish

\* Every step keeps the confirmation.
LEMMA ConfirmStep ==
  ASSUME DeliveryInv, ScreenInv, LateInv, LineInv, ConfirmInv, DNext
  PROVE  ConfirmInv'
<1>0. /\ KWinTyped /\ popup \in Popups
      /\ act \in [pc : {"idle", "restore", "restoring", "check", "checking", "again",
                       "paste", "pasting", "typing"}, seen : Nat, frame : 0..4]
      /\ act.pc # "idle" => /\ popup.pc = "open" /\ popup.busy /\ ~popup.visible
                            /\ popup.outcome = "none" /\ popup.target # NoWindow
  BY KWinTypedIsType DEF DeliveryInv, PopupTypeOK, Popups, ActInv, ScreenInv
<1>1. GivenUp \in Nat /\ (GivenUp' <= 2 => GivenUp <= 2)
  <2>1. \A g, h \in Nat : g <= h /\ h <= 2 => g <= 2
    OBVIOUS
  <2> QED
    BY <2>1, LateStep
<1>2. ASSUME GivenUp' <= 2
      PROVE  /\ MayRestore => InOrder
             /\ MayCheck => NoChecks
             /\ Checks => OnlyLast /\ Trusted
             /\ MayType => InLine = 0 /\ Confirmed
  BY <1>1, <1>2 DEF ConfirmInv
<1>3. focus # "Kde" => InLine = 0
  BY DEF LineInv
<1>4. ~Asks => reply.result = "none" /\ reply = NoReply
  BY DEF LineInv, NoReply, Reply
<1>k. ASSUME callbacks' = callbacks, invoked' = invoked, commands' = commands,
             reply' = reply, act' = act, popup'.pc = popup.pc,
             popup'.target = popup.target, popup'.outcome = popup.outcome,
             act.pc # "idle" /\ Confirmed => Confirmed'
      PROVE  ConfirmInv'
  <2>1. SameLine
    BY <1>k, SameQueues DEF SameLine
  <2> QED
    BY <1>0, <1>1, <1>k, <2>1, ConfirmKept
<1>a. ASSUME NEW o \in Outcomes, Answer(o), popup.pc # "capture" PROVE ConfirmInv'
  <2>1. act'.pc = "idle" /\ popup'.pc = popup.pc /\ popup'.outcome # "none"
    BY <1>0, <1>a DEF Answer, Publish, Idle, Popups, Outcomes
  <2> QED
    BY <1>a, <2>1, NothingConfirmed
<1>b. {"Pasted", "ClipboardUpdated", "PasteFailed", "NotFound", "UnsupportedContent", "Error"}
        = Outcomes
  BY DEF Outcomes
<1>5. CASE UserMoves
  <2>1. /\ act' = act /\ popup'.pc = popup.pc /\ popup'.target = popup.target
        /\ popup'.outcome = popup.outcome /\ UNCHANGED kwinVars
    BY <1>0, <1>5 DEF UserMoves, Popups
  <2>2. moves' = moves + 1 \/ (moves' = moves /\ active' = active)
    BY <1>5 DEF UserMoves, UserFocus, CloseWindow
  <2>3. moves \in Nat /\ act.seen \in Nat /\ act.seen <= moves
    BY <1>0 DEF DeliveryInv, DesktopTypeOK, ScreenInv
  <2>4. Confirmed => Confirmed'
    <3>1. \A m, n \in Nat : n <= m => m + 1 # n
      OBVIOUS
    <3> QED
      BY <2>1, <2>2, <2>3, <3>1 DEF Confirmed
  <2> QED
    BY <1>k, <2>1, <2>4 DEF kwinVars
<1>6. CASE Granted
  <2>1. act' = act /\ popup' = popup /\ UNCHANGED kwinVars
    BY <1>6 DEF Granted, popupVars
  <2>2. ASSUME act.pc # "idle" PROVE active' = popup.target
    <3>1. active' \in open /\ active' = asked
      BY <1>0, <1>6, <2>2 DEF Granted, GrantFocus
    <3>2. Popup \notin open /\ NoWindow \notin open
      BY DesktopAssumption DEF DeliveryInv, DesktopTypeOK
    <3> QED
      BY <1>0, <2>2, <3>1, <3>2 DEF ScreenInv
  <2> QED
    BY <1>k, <2>1, <2>2 DEF kwinVars, Confirmed
<1>7. CASE PopupStep
  <2>0. UNCHANGED kwinVars /\ act' = act
    BY <1>7 DEF PopupStep
  <2>1. ASSUME NEW i \in Inputs, Frame(i) PROVE ConfirmInv'
    <3>1. /\ act.pc = "idle" /\ popup.pc = "open"
          /\ \/ popup'.pc = "exited"
             \/ /\ popup'.pc = "open" /\ popup'.target = popup.target
                /\ popup'.outcome = "none"
                /\ popup.outcome # "none" => focus # "Kde"
      BY <2>0, <2>1, FrameScreen
    <3>2. CASE popup'.pc = "exited"
      BY <2>0, <3>1, <3>2, NothingConfirmed
    <3>3. CASE popup'.pc = "open" /\ popup.outcome # "none"
      <4>1. ~MayType' /\ InLine = 0
        BY <1>3, <2>0, <3>1, <3>3 DEF MayType
      <4> QED
        BY <1>0, <2>0, <4>1, EmptyLine DEF kwinVars
    <3>4. CASE popup'.pc = "open" /\ popup.outcome = "none"
      BY <1>k, <2>0, <3>1, <3>4 DEF kwinVars
    <3> QED
      BY <3>1, <3>2, <3>3, <3>4
  <2>2. CASE Launch \/ LaunchFails \/ Spawn \/ Reap
    <3>1. popup.pc # "open"
      BY <2>2 DEF Launch, LaunchFails, Spawn, Reap, DeliveryInv, PopupTypeOK
    <3>2. popup'.pc \notin {"capture", "open"}
      BY <1>0, <2>2 DEF Launch, LaunchFails, Spawn, Reap, NoProcess, Popups
    <3>3. act'.pc = "idle"
      BY <1>0, <2>0, <3>1
    <3> QED
      BY <3>2, <3>3, NothingConfirmed
  <2> QED
    BY <1>7, <2>1, <2>2 DEF PopupStep
<1>8. CASE KWin
  <2>1. /\ KWinStep /\ act' = act /\ popup'.pc = popup.pc /\ popup'.target = popup.target
        /\ popup'.outcome = popup.outcome
    BY <1>0, <1>8 DEF KWin, Popups
  <2>2. CASE HelperRuns
    BY <1>1, <2>1, <2>2, ConfirmRuns
  <2>3. CASE ReadCallback
    BY <1>1, <2>1, <2>3, ConfirmReads
  <2>4. CASE HelperReloads
    BY <1>k, <2>1, <2>4 DEF HelperReloads, Confirmed
  <2>5. CASE TakeCommand
    <3>1. /\ callbacks' = callbacks /\ active' = active /\ moves' = moves
          /\ reply' = reply \/ reply' = Reply("Failed", NoWindow)
      BY <2>5 DEF TakeCommand
    <3>2. SameLine \/ \E p : Leaves(p)
      BY <1>0, <2>5, TakesFromLine
    <3>3. Confirmed => Confirmed'
      BY <2>1, <3>1 DEF Confirmed
    <3> QED
      BY <1>0, <1>1, <2>1, <3>1, <3>2, <3>3, ConfirmKept
  <2>6. CASE CallbackTimesOut
    <3>1. /\ callbacks' = callbacks /\ invoked' = invoked /\ commands' = commands
          /\ active' = active /\ moves' = moves
          /\ reply' = reply \/ reply' = Reply("Failed", NoWindow)
      BY <2>6 DEF CallbackTimesOut, Finish
    <3>2. SameLine
      BY <3>1, SameQueues DEF SameLine
    <3>3. Confirmed => Confirmed'
      BY <2>1, <3>1 DEF Confirmed
    <3> QED
      BY <1>0, <1>1, <2>1, <3>1, <3>2, <3>3, ConfirmKept
  <2> QED
    BY <2>1, <2>2, <2>3, <2>4, <2>5, <2>6 DEF KWinStep
<1>9. CASE Portal
  <2>1. UNCHANGED <<kwinVars, popupVars, act, active, moves>>
    BY <1>9
       DEF Portal, WorkerStep, TypeFails, ConnectFails, CompositorStep, ReceivePaste,
           ReceiveShutdown, TypeFrame, DeviceResumed, DevicePaused, SessionLost, OfflinePaste,
           OfflineShutdown, DelayEnds, Connects, NextEvent, PauseKeyboard, ResumeKeyboard,
           LoseKeyboard, desktopVars
  <2> QED
    BY <1>k, <2>1 DEF kwinVars, popupVars, Confirmed
<1>10. CASE Shutdown
  BY <1>10, <1>k DEF Shutdown, Confirmed, kwinVars, popupVars
<1>11. CASE CaptureAtOnce
  <2>1. focus # "Kde" /\ popup.pc = "start" /\ act' = act /\ UNCHANGED kwinVars
    BY <1>11 DEF CaptureAtOnce
  <2>2. ~MayType'
    BY <1>0, <2>1 DEF MayType
  <2> QED
    BY <1>0, <1>3, <2>1, <2>2, EmptyLine DEF kwinVars
<1>12. CASE CaptureOnKWin
  <2>1. /\ popup.pc = "start" /\ act' = act /\ reply' = reply /\ popup'.pc = "capture"
    BY <1>0, <1>12 DEF CaptureOnKWin, Request, Popups
  <2>2. act.pc = "idle" /\ ~Asks
    BY <1>0, <2>1 DEF Asks
  <2> QED
    BY <1>4, <2>1, <2>2, NothingConfirmed
<1>13. CASE CaptureAnswered
  <2>1. /\ popup.pc = "capture" /\ act' = act /\ popup'.pc = "open"
        /\ popup'.target = IF reply.result = "ok" THEN reply.window ELSE NoWindow
        /\ callbacks' = callbacks /\ invoked' = invoked /\ commands' = commands
    BY <1>0, <1>13 DEF CaptureAnswered, Opens, TakeReply, Popups
  <2>2. act.pc = "idle"
    BY <1>0, <2>1
  <2>3. CASE reply.result = "ok"
    <3>1. GivenUp' <= 2 => InOrder'
      BY <1>2, <2>1, <2>3, SameQueues DEF MayRestore
    <3> QED
      BY <2>1, <2>2, <3>1 DEF ConfirmInv, MayCheck, Checks, MayType
  <2> QED
    BY <2>1, <2>2, <2>3, NothingConfirmed
<1>14. CASE CaptureTimesOut
  <2>1. act' = act /\ popup.pc = "capture" /\ popup'.pc = "open" /\ popup'.target = NoWindow
    BY <1>0, <1>14 DEF CaptureTimesOut, Opens, Popups
  <2> QED
    BY <1>0, <2>1, NothingConfirmed
<1>15. CASE Activate
  <2>1. popup.pc = "open" /\ popup.outcome = "none" /\ act.pc = "idle" /\ UNCHANGED kwinVars
    BY <1>15 DEF Activate
  <2>2. CASE popup.target # NoWindow /\ Goto("restore") /\ UNCHANGED popup
    <3>1. act'.pc = "restore"
      BY <1>0, <2>2 DEF Goto
    <3>2. GivenUp' <= 2 => InOrder'
      BY <1>2, <2>1, <2>2, SameQueues DEF MayRestore, kwinVars
    <3> QED
      BY <3>1, <3>2 DEF ConfirmInv, MayCheck, Checks, MayType
  <2> QED
    BY <1>15, <1>a, <1>b, <2>1, <2>2 DEF Activate
<1>16. CASE RestoreAtOnce
  <2>1. popup.pc = "open" /\ act.pc = "restore" /\ UNCHANGED kwinVars /\ focus # "Kde"
    BY <1>0, <1>16 DEF RestoreAtOnce
  <2>2. CASE Goto("check")
    <3>1. ~MayType'
      BY <1>0, <2>2 DEF Goto, MayType
    <3> QED
      BY <1>0, <1>3, <2>1, <3>1, EmptyLine DEF kwinVars
  <2> QED
    BY <1>16, <1>a, <1>b, <2>1, <2>2 DEF RestoreAtOnce
<1>17. CASE RestoreOnKWin
  <2>1. /\ act.pc = "restore" /\ act'.pc = "restoring" /\ popup' = popup /\ reply' = reply
        /\ Request("Restore", popup.target)
    BY <1>0, <1>17 DEF RestoreOnKWin, Goto, Request, popupVars
  <2>2. reply.result = "none"
    BY <1>0, <1>4, <2>1 DEF Asks
  <2>3. GivenUp' <= 2 => InOrder'
    <3>1. GivenUp' <= 2 => InOrder
      BY <1>0, <1>2, <2>1 DEF MayRestore
    <3> QED
      BY <1>0, <2>1, <3>1, RequestJoins, JoinsLine
  <2> QED
    BY <2>1, <2>2, <2>3 DEF ConfirmInv, MayCheck, Checks, MayType
<1>18. CASE RestoreAnswered
  <2>1. /\ act.pc = "restoring"
        /\ callbacks' = callbacks /\ invoked' = invoked /\ commands' = commands
    BY <1>18 DEF RestoreAnswered, TakeReply
  <2>2. CASE reply.result = "ok" /\ Goto("check") /\ UNCHANGED popup
    <3>1. act'.pc = "check" /\ popup' = popup
      BY <1>0, <2>2 DEF Goto
    <3>2. GivenUp' <= 2 => NoChecks'
      BY <1>2, <2>1, <2>2, SameQueues DEF MayCheck
    <3> QED
      BY <1>0, <2>1, <3>1, <3>2 DEF ConfirmInv, MayRestore, Checks, MayType
  <2> QED
    BY <1>0, <1>18, <1>a, <1>b, <2>1, <2>2 DEF RestoreAnswered
<1>19. CASE CheckAtOnce
  <2>1. popup.pc = "open" /\ act.pc = "check" /\ UNCHANGED kwinVars /\ focus # "Kde"
        /\ active' = active /\ moves' = moves
    BY <1>0, <1>19 DEF CheckAtOnce
  <2>2. CASE /\ act' = [act EXCEPT !.pc = IF active = popup.target THEN "paste" ELSE "again",
                                   !.seen = moves]
             /\ popup' = popup
    <3>1. /\ act'.pc = IF active = popup.target THEN "paste" ELSE "again"
      BY <1>0, <2>2
    <3>2. MayType' => Confirmed'
      BY <2>1, <2>2, <3>1 DEF MayType, Confirmed
    <3> QED
      BY <1>0, <1>3, <2>1, <3>2, EmptyLine DEF kwinVars
  <2>3. CASE Answer("PasteFailed")
    BY <1>a, <1>b, <2>1, <2>3
  <2> QED
    BY <1>19, <2>2, <2>3 DEF CheckAtOnce
<1>20. CASE CheckOnKWin
  <2>1. /\ act.pc = "check" /\ act'.pc = "checking" /\ popup' = popup /\ reply' = reply
        /\ callbacks' = callbacks /\ Request("IsActive", popup.target)
    BY <1>0, <1>20 DEF CheckOnKWin, Request, popupVars
  <2>2. reply.result = "none"
    BY <1>0, <1>4, <2>1 DEF Asks
  <2>3. GivenUp' <= 2 => NoChecks
    BY <1>2, <2>1 DEF MayCheck
  <2>4. GivenUp' <= 2 => OnlyLast'
    BY <1>0, <2>1, <2>3, RequestJoins, JoinsLine
  <2>5. GivenUp' <= 2 => Trusted'
    <3>1. ASSUME GivenUp' <= 2, NEW i \in 1..Len(callbacks)
          PROVE  callbacks[i] # Callback("Active", popup.target)
      <4>1. Line[i] = Answering(callbacks[i]) /\ i \in 1..InLine
        BY <1>0, LinePlaces
      <4> QED
        BY <2>3, <3>1, <4>1 DEF NoChecks, Answering, Callback
    <3> QED
      BY <2>1, <3>1 DEF Trusted
  <2> QED
    BY <1>0, <2>1, <2>2, <2>4, <2>5 DEF ConfirmInv, MayRestore, MayCheck, MayType
<1>21. CASE CheckAnswered
  <2>1. /\ act.pc = "checking" /\ active' = active /\ moves' = moves
        /\ callbacks' = callbacks /\ invoked' = invoked /\ commands' = commands
    BY <1>21 DEF CheckAnswered, TakeReply, desktopVars
  <2>2. CASE reply.result = "true" /\ Goto("paste") /\ UNCHANGED popup
    <3>1. act'.seen = act.seen /\ popup' = popup
      BY <1>0, <2>2 DEF Goto
    <3>2. CASE GivenUp' <= 2
      <4>1. InLine = 0 /\ Confirmed
        BY <1>2, <2>1, <2>2, <3>2 DEF MayType
      <4>2. Confirmed'
        BY <2>1, <3>1, <4>1 DEF Confirmed
      <4> QED
        BY <1>0, <2>1, <4>1, <4>2, EmptyLine
    <3> QED
      BY <3>2 DEF ConfirmInv
  <2>3. CASE reply.result = "false" /\ Goto("again") /\ UNCHANGED popup
    <3>1. act'.pc = "again" /\ popup' = popup
      BY <1>0, <2>3 DEF Goto
    <3>2. GivenUp' <= 2 => NoChecks'
      BY <1>2, <2>1, <2>3, SameQueues DEF MayCheck
    <3> QED
      BY <1>0, <2>1, <3>1, <3>2 DEF ConfirmInv, MayRestore, Checks, MayType
  <2> QED
    BY <1>0, <1>21, <1>a, <1>b, <2>1, <2>2, <2>3 DEF CheckAnswered
<1>22. CASE CheckAgain
  <2>1. act.pc = "again" /\ act'.pc = "check" /\ popup' = popup /\ UNCHANGED kwinVars
    BY <1>0, <1>22 DEF CheckAgain, Goto, popupVars
  <2>2. GivenUp' <= 2 => NoChecks'
    BY <1>2, <2>1, SameQueues DEF MayCheck, kwinVars
  <2> QED
    BY <1>0, <2>1, <2>2 DEF ConfirmInv, MayRestore, Checks, MayType
<1>23. ASSUME act.pc \in {"paste", "typing"}, act'.seen = act.seen, popup' = popup,
              UNCHANGED kwinVars, active' = active, moves' = moves
       PROVE  ConfirmInv'
  <2>1. CASE GivenUp' <= 2
    <3>1. InLine = 0 /\ Confirmed
      BY <1>2, <1>23, <2>1 DEF MayType
    <3>2. Confirmed'
      BY <1>23, <3>1 DEF Confirmed
    <3> QED
      BY <1>0, <1>23, <3>1, <3>2, EmptyLine DEF kwinVars
  <2> QED
    BY <2>1 DEF ConfirmInv
<1>24. CASE Paste
  <2>1. act.pc = "paste" /\ UNCHANGED kwinVars /\ active' = active /\ moves' = moves
    BY <1>24 DEF Paste, desktopVars
  <2>2. CASE /\ \/ Goto("pasting")
                \/ act' = [act EXCEPT !.pc = "typing", !.frame = 1]
             /\ popup' = popup
    BY <1>0, <1>23, <2>1, <2>2 DEF Goto
  <2>3. CASE Answer("ClipboardUpdated") \/ Answer("PasteFailed")
    BY <1>0, <1>a, <1>b, <2>1, <2>3
  <2> QED
    BY <1>24, <2>2, <2>3 DEF Paste
<1>25. CASE TypeKey
  <2>1. act.pc = "typing" /\ UNCHANGED kwinVars /\ active' = active /\ moves' = moves
    BY <1>25 DEF TypeKey
  <2>2. CASE act' = [act EXCEPT !.frame = @ + 1] /\ popup' = popup
    BY <1>23, <2>1, <2>2
  <2>3. CASE Answer("Pasted")
    BY <1>0, <1>a, <1>b, <2>1, <2>3
  <2> QED
    BY <1>25, <2>2, <2>3 DEF TypeKey
<1>26. CASE PasteAnswered
  <2>1. act.pc = "pasting" /\ \E o \in Outcomes : Answer(o)
    BY <1>26, <1>b DEF PasteAnswered, DeliveryInv, PortalTypeOK
  <2> QED
    BY <1>0, <1>a, <2>1
<1>27. CASE KWinTimesOut
  BY <1>0, <1>27, <1>a, <1>b DEF KWinTimesOut
<1>28. CASE TimeIsUp
  BY <1>0, <1>28, <1>a, <1>b DEF TimeIsUp
<1>29. CASE TypeKeyFails
  BY <1>0, <1>29, <1>a, <1>b DEF TypeKeyFails
<1>30. CASE PasteGivenUp
  BY <1>0, <1>30, <1>a, <1>b DEF PasteGivenUp
<1> QED
  BY <1>5, <1>6, <1>7, <1>8, <1>9, <1>10, <1>11, <1>12, <1>13, <1>14, <1>15, <1>16, <1>17,
     <1>18, <1>19, <1>20, <1>21, <1>22, <1>24, <1>25, <1>26, <1>27, <1>28, <1>29, <1>30
     DEF DNext, CaptureStep, ActStep

-----------------------------------------------------------------------------
(* The window that the popup was opened over *)

\* What the target is taken from: windows that have the focus while it is
\* captured, with no report under way of an earlier capture.
OriginInv ==
  GivenUp = 0 =>
    /\ popup.pc = "capture" =>
         /\ active \in popup.origin
         /\ \A i \in 1..Len(callbacks) :
              callbacks[i].kind = "Captured" => callbacks[i].window \in popup.origin
         /\ reply.result = "ok" => reply.window \in popup.origin
    /\ popup.pc = "open" /\ popup.target # NoWindow => popup.target \in popup.origin

\* A frame of the popup leaves its target alone, and where it is from.
LEMMA FrameOrigin ==
  ASSUME PopupTypeOK, NEW i \in Inputs, Frame(i)
  PROVE  /\ popup'.pc \in {"open", "exited"} /\ popup.pc = "open"
         /\ popup'.target = popup.target /\ popup'.origin = popup.origin
<1>1. popup \in Popups /\ popup.pc = "open"
  BY DEF PopupTypeOK, Popups, Frame
<1> DEFINE hadFocus == popup.hadFocus \/ Focused
           failed == popup.outcome \in Failure
           busy == popup.busy /\ ~failed
           shown == popup.visible \/ failed
           read(a) == [popup EXCEPT !.hadFocus = hadFocus, !.acquisition = a,
                                    !.busy = busy, !.outcome = "none", !.wake = FALSE]
<1>2. PICK a \in Acquisition :
        \/ popup' = [popup EXCEPT !.pc = "exited", !.visible = FALSE]
        \/ popup' = [read(a) EXCEPT !.visible = FALSE, !.busy = TRUE]
        \/ popup' = [read(a) EXCEPT !.visible = shown]
  BY Zenon DEF Frame
<1> QED
  BY <1>1, <1>2 DEF Popups

\* While a target is captured, what KWin and its worker do keeps it.
LEMMA OriginCaptured ==
  ASSUME DeliveryInv, ScreenInv, LateInv, LineInv, OriginInv, DNext, KWin,
         popup.pc = "capture", GivenUp' = 0, GivenUp = 0
  PROVE  /\ active' \in popup'.origin
         /\ \A i \in 1..Len(callbacks') :
              callbacks'[i].kind = "Captured" => callbacks'[i].window \in popup'.origin
         /\ reply'.result = "ok" => reply'.window \in popup'.origin
<1>1. KWinTyped /\ popup \in Popups
  BY KWinTypedIsType DEF DeliveryInv, PopupTypeOK, Popups
<1>2. /\ active' \in popup'.origin
      /\ \A w : w \in popup.origin => w \in popup'.origin
  BY <1>1 DEF KWin, Popups
<1>3. /\ active \in popup'.origin
      /\ \A i \in 1..Len(callbacks) :
           callbacks[i].kind = "Captured" => callbacks[i].window \in popup'.origin
      /\ reply.result = "ok" => reply.window \in popup'.origin
  BY <1>2 DEF OriginInv
<1>4. /\ Reply("Failed", NoWindow).result # "ok"
      /\ \A k, w : /\ Reply(k, w).result = k /\ Reply(k, w).window = w
                   /\ Callback(k, w).kind = k /\ Callback(k, w).window = w
  BY DEF Reply, Callback
<1>5. CASE HelperRuns
  <2>1. PICK k, w : Says(k, w) /\ (k = "Captured" => w = active)
    BY <1>5 DEF HelperRuns, CaptureActiveWindow, RestoreCapturedWindow, ReportActiveWindow
  <2>2. PICK a \in Nat : Len(callbacks) = a
    BY <1>1, LinePlaces
  <2>3. /\ Len(callbacks') = a + 1 /\ callbacks'[a + 1] = Callback(k, w)
        /\ \A i \in 1..a : callbacks'[i] = callbacks[i]
    BY <1>1, <2>1, <2>2, ThreeQueues DEF Says
  <2>4. ASSUME NEW i \in 1..Len(callbacks'), callbacks'[i].kind = "Captured"
        PROVE  callbacks'[i].window \in popup'.origin
    <3>1. i \in 1..a \/ i = a + 1
      BY <2>3
    <3>2. CASE i \in 1..a
      BY <1>3, <2>2, <2>3, <2>4, <3>2
    <3>3. CASE i = a + 1
      BY <1>3, <1>4, <2>1, <2>3, <2>4, <3>3
    <3> QED
      BY <3>1, <3>2, <3>3
  <2>5. reply' = reply
    BY <1>5 DEF HelperRuns
  <2> QED
    BY <1>2, <1>3, <2>4, <2>5
<1>6. CASE HelperReloads
  BY <1>2, <1>3, <1>6 DEF HelperReloads
<1>7. CASE TakeCommand
  <2>1. callbacks' = callbacks /\ (reply' = reply \/ reply' = Reply("Failed", NoWindow))
    BY <1>7 DEF TakeCommand
  <2> QED
    BY <1>2, <1>3, <1>4, <2>1
<1>8. CASE ReadCallback
  <2>1. /\ callbacks # <<>> /\ callbacks' = Tail(callbacks)
        /\ Head(callbacks) = callbacks[1] /\ Len(callbacks) \in Nat \ {0}
        /\ Len(callbacks') = Len(callbacks) - 1
        /\ \A i \in 1..Len(callbacks) - 1 : callbacks'[i] = callbacks[i + 1]
    BY <1>1, <1>8, LinePlaces, ThreeQueues DEF ReadCallback
  <2>2. ASSUME NEW i \in 1..Len(callbacks'), callbacks'[i].kind = "Captured"
        PROVE  callbacks'[i].window \in popup'.origin
    <3>1. i + 1 \in 1..Len(callbacks) /\ callbacks'[i] = callbacks[i + 1]
      BY <2>1
    <3> QED
      BY <1>3, <2>2, <3>1
  <2>3. CASE reply' = reply
    BY <1>2, <1>3, <2>2, <2>3
  <2>4. ASSUME NEW r \in Answers(command, Head(callbacks)), command.awaited, reply' = r,
               r.result = "ok"
        PROVE  r.window \in popup'.origin
    <3>1. command.kind = "Capture"
      BY <2>4 DEF LineInv, Own, Wanted
    <3>2. Head(callbacks).kind = "Captured" /\ r = Reply("ok", Head(callbacks).window)
      BY <1>4, <2>4, <3>1 DEF Answers
    <3>3. 1 \in 1..Len(callbacks)
      BY <2>1
    <3> QED
      BY <1>3, <1>4, <2>1, <3>2, <3>3
  <2>5. \/ reply' = reply
        \/ \E r \in Answers(command, Head(callbacks)) : command.awaited /\ reply' = r
    BY <1>8 DEF ReadCallback, Finish
  <2> QED
    BY <1>2, <2>2, <2>3, <2>4, <2>5
<1>9. CASE CallbackTimesOut
  BY <1>9, LateStep DEF CallbackTimesOut
<1> QED
  BY <1>5, <1>6, <1>7, <1>8, <1>9 DEF KWin, KWinStep

\* Every step keeps it.
LEMMA OriginStep ==
  ASSUME DeliveryInv, ScreenInv, LateInv, LineInv, OriginInv, DNext
  PROVE  OriginInv'
<1>0. /\ KWinTyped /\ popup \in Popups
      /\ act.pc # "idle" => popup.pc = "open"
  BY KWinTypedIsType DEF DeliveryInv, PopupTypeOK, Popups, ScreenInv
<1>1. GivenUp' = 0 => GivenUp = 0
  <2>1. \A g, h \in Nat : g <= h /\ h = 0 => g = 0
    OBVIOUS
  <2> QED
    BY <2>1, LateStep
<1>k. ASSUME popup' = popup, active' = active, callbacks' = callbacks, reply' = reply
      PROVE  OriginInv'
  BY <1>1, <1>k DEF OriginInv
<1>o. ASSUME popup.pc # "capture", popup'.pc \in {popup.pc, "exited"},
             popup'.target = popup.target, popup'.origin = popup.origin
      PROVE  OriginInv'
  BY <1>1, <1>o DEF OriginInv
<1>p. ASSUME popup.pc # "capture",
             popup' = popup \/ (\E o : Answer(o))
      PROVE  OriginInv'
  <2>1. /\ popup'.pc = popup.pc /\ popup'.target = popup.target
        /\ popup'.origin = popup.origin
    <3>1. ASSUME NEW o, popup' = [popup EXCEPT !.outcome = o, !.wake = TRUE]
          PROVE  /\ popup'.pc = popup.pc /\ popup'.target = popup.target
                 /\ popup'.origin = popup.origin
      BY <1>0, <3>1 DEF Popups
    <3>2. CASE popup' = popup
      BY <3>2
    <3> QED
      BY <1>p, <3>1, <3>2, Zenon DEF Answer, Publish
  <2> QED
    BY <1>o, <1>p, <2>1
<1>n. ASSUME popup'.pc # "capture",
             popup'.pc = "open" => popup'.target = NoWindow \/ popup'.target \in popup'.origin
      PROVE  OriginInv'
  BY <1>n DEF OriginInv
<1>2. CASE UserMoves
  <2>1. CASE popup.pc = "capture"
    <3>1. /\ popup'.pc = "capture" /\ active' \in popup'.origin
          /\ \A w : w \in popup.origin => w \in popup'.origin
          /\ callbacks' = callbacks /\ reply' = reply
      BY <1>0, <1>2, <2>1 DEF UserMoves, kwinVars, Popups
    <3> QED
      BY <1>1, <2>1, <3>1 DEF OriginInv
  <2>2. CASE popup.pc # "capture"
    BY <1>2, <1>p, <2>2 DEF UserMoves
  <2> QED
    BY <2>1, <2>2
<1>3. CASE Granted
  <2>1. popup' = popup
    BY <1>3 DEF Granted, popupVars
  <2>2. popup.pc # "capture"
    <3>1. asked # NoWindow \/ popup.visible
      BY <1>3, DesktopAssumption DEF Granted, GrantFocus, DeliveryInv, DesktopTypeOK
    <3> QED
      BY <3>1 DEF ScreenInv, Asks
  <2> QED
    BY <1>p, <2>1, <2>2
<1>4. CASE PopupStep
  <2>1. ASSUME NEW i \in Inputs, Frame(i) PROVE OriginInv'
    <3>1. /\ popup'.pc \in {"open", "exited"} /\ popup.pc = "open"
          /\ popup'.target = popup.target /\ popup'.origin = popup.origin
      BY <2>1, FrameOrigin DEF DeliveryInv
    <3> QED
      BY <1>o, <3>1
  <2>2. CASE Launch \/ LaunchFails \/ Spawn \/ Reap
    <3>1. popup'.pc \notin {"capture", "open"}
      BY <1>0, <2>2 DEF Launch, LaunchFails, Spawn, Reap, NoProcess, Popups
    <3> QED
      BY <1>n, <3>1
  <2> QED
    BY <1>4, <2>1, <2>2 DEF PopupStep
<1>5. CASE KWin
  <2>1. CASE popup.pc = "capture"
    <3>1. popup'.pc = "capture"
      BY <1>0, <1>5, <2>1 DEF KWin, Popups
    <3> QED
      BY <1>1, <1>5, <2>1, <3>1, OriginCaptured DEF OriginInv
  <2>2. CASE popup.pc # "capture"
    BY <1>5, <1>p, <2>2 DEF KWin
  <2> QED
    BY <2>1, <2>2
<1>6. CASE Portal
  <2>1. UNCHANGED <<kwinVars, popupVars, active>>
    BY <1>6
       DEF Portal, WorkerStep, TypeFails, ConnectFails, CompositorStep, ReceivePaste,
           ReceiveShutdown, TypeFrame, DeviceResumed, DevicePaused, SessionLost, OfflinePaste,
           OfflineShutdown, DelayEnds, Connects, NextEvent, PauseKeyboard, ResumeKeyboard,
           LoseKeyboard, desktopVars
  <2> QED
    BY <1>k, <2>1 DEF kwinVars, popupVars
<1>7. CASE Shutdown
  BY <1>7, <1>k DEF Shutdown, kwinVars, popupVars
<1>8. CASE CaptureAtOnce
  <2>1. PICK w \in {NoWindow} \cup IF SyncFocus THEN {active} ELSE {} :
          popup' = [popup EXCEPT !.pc = "open", !.target = w, !.visible = TRUE,
                                 !.origin = {active}]
    BY <1>8, Zenon DEF CaptureAtOnce
  <2>2. popup'.pc = "open" /\ popup'.target \in {NoWindow, active} /\ popup'.origin = {active}
    BY <1>0, <2>1 DEF Popups
  <2> QED
    BY <1>n, <2>2
<1>9. CASE CaptureOnKWin
  <2>1. /\ popup.pc = "start" /\ popup'.pc = "capture" /\ popup'.origin = {active}
        /\ active' = active /\ callbacks' = callbacks /\ reply' = reply
    BY <1>0, <1>9 DEF CaptureOnKWin, Request, desktopVars, Popups
  <2>2. ~Asks
    BY <1>0, <2>1 DEF Asks
  <2>3. reply'.result # "ok"
    BY <2>1, <2>2 DEF LineInv, NoReply, Reply
  <2>4. GivenUp = 0 => 1..Len(callbacks) = {}
    <3>1. GivenUp = 0 => InLine <= 0
      BY <2>2 DEF LineInv, Waiting
    <3>2. GivenUp = 0 => Len(callbacks) = 0
      BY <1>0, <3>1, LinePlaces
    <3> QED
      BY <3>2
  <2> QED
    BY <1>1, <2>1, <2>3, <2>4 DEF OriginInv
<1>10. CASE CaptureAnswered
  <2>1. /\ popup.pc = "capture" /\ popup'.pc = "open" /\ popup'.origin = popup.origin
        /\ popup'.target = IF reply.result = "ok" THEN reply.window ELSE NoWindow
    BY <1>0, <1>10 DEF CaptureAnswered, Opens, Popups
  <2> QED
    BY <1>1, <2>1 DEF OriginInv
<1>11. CASE CaptureTimesOut
  <2>1. popup'.pc = "open" /\ popup'.target = NoWindow
    BY <1>0, <1>11 DEF CaptureTimesOut, Opens, Popups
  <2> QED
    BY <1>n, <2>1
<1>12. CASE ActStep
  <2>1. popup.pc # "capture" /\ (popup' = popup \/ \E o : Answer(o))
    BY <1>0, <1>12
       DEF ActStep, Activate, RestoreAtOnce, RestoreOnKWin, RestoreAnswered, CheckAtOnce,
           CheckOnKWin, CheckAnswered, CheckAgain, Paste, TypeKey, PasteAnswered, popupVars
  <2> QED
    BY <1>p, <2>1
<1>13. CASE KWinTimesOut \/ TimeIsUp \/ TypeKeyFails \/ PasteGivenUp
  <2>1. popup.pc # "capture" /\ \E o : Answer(o)
    BY <1>0, <1>13 DEF KWinTimesOut, TimeIsUp, TypeKeyFails, PasteGivenUp
  <2> QED
    BY <1>p, <2>1
<1> QED
  BY <1>2, <1>3, <1>4, <1>5, <1>6, <1>7, <1>8, <1>9, <1>10, <1>11, <1>12, <1>13
     DEF DNext, CaptureStep

-----------------------------------------------------------------------------
(* The window that is typed into is the one that was confirmed *)

RightInv ==
  /\ DeliveryInv /\ ScreenInv /\ PasteInv /\ LateInv
  /\ LineInv /\ ConfirmInv /\ OriginInv

\* It holds before anything is asked for.
LEMMA RightStarts == DInit => RightInv
<1> SUFFICES ASSUME DInit PROVE RightInv
  OBVIOUS
<1>1. DeliveryInv
  BY DeliveryStarts
<1>2. /\ popup = NoProcess /\ act = Idle /\ asked = NoWindow /\ moves = 0
      /\ active \in Windows /\ reply = NoReply /\ command = NoCommand
      /\ commands = <<>> /\ invoked = <<>> /\ callbacks = <<>>
      /\ worker # "typing" /\ (paste # "Portal" => worker = "dead")
      /\ requests = <<>> /\ pasted = "none"
      /\ left = instance.bound
  BY DEF DInit, DesktopInit, KWinInit, PortalInit, PopupInit
<1>3. ~Asks /\ popup.pc = "none" /\ act.pc = "idle"
  BY <1>2 DEF Asks, NoProcess, Idle
<1>4. ScreenInv
  <2>1. active # Popup
    BY <1>2, DesktopAssumption
  <2> QED
    BY <1>2, <1>3, <2>1 DEF ScreenInv, NoProcess, Idle
<1>5. PasteInv
  <2>1. 1..Len(requests) = {}
    BY <1>2, EmptyQueue
  <2> QED
    BY <1>2, <2>1 DEF PasteInv, TypesOwed
<1>6. GivenUp = 0 /\ LateInv
  <2>1. instance.bound["late"] \in Nat
    BY <1>1, DesktopAssumption DEF DeliveryInv, DesktopTypeOK, Disturbances
  <2> QED
    BY <1>2, <2>1 DEF GivenUp, LateInv
<1>7. InLine = 0 /\ 1..Len(commands) = {}
  <2>1. Len(callbacks) = 0 /\ Len(invoked) = 0 /\ Len(commands) = 0
    BY <1>2, EmptyQueue
  <2> QED
    BY <2>1 DEF InLine, Ahead
<1>8. LineInv
  BY <1>2, <1>3, <1>6, <1>7 DEF LineInv, Waiting, NoCommand
<1>9. ConfirmInv
  BY <1>3 DEF ConfirmInv, MayRestore, MayCheck, Checks, MayType
<1>10. OriginInv
  BY <1>3 DEF OriginInv
<1> QED
  BY <1>1, <1>4, <1>5, <1>6, <1>8, <1>9, <1>10 DEF RightInv

\* And when nothing changes it goes on.
LEMMA RightStays == RightInv /\ UNCHANGED dvars => RightInv'
<1> SUFFICES ASSUME RightInv, UNCHANGED dvars PROVE RightInv'
  OBVIOUS
<1>1. UNCHANGED <<desktopVars, kwinVars, portalVars, popupVars, act>>
  BY DEF dvars
<1>2. DeliveryInv'
  BY DeliveryStep DEF RightInv
<1>3. /\ focus' = focus /\ paste' = paste /\ GivenUp' = GivenUp
      /\ (Asks' <=> Asks) /\ (Waiting' <=> Waiting) /\ Wanted' = Wanted
  BY <1>1 DEF focus, paste, GivenUp, Asks, Waiting, Wanted, desktopVars, kwinVars, popupVars
<1>4. Ahead' = Ahead /\ InLine' = InLine /\ Line' = Line
  BY <1>1 DEF Ahead, InLine, Line, Answering, kwinVars
<1>5. ScreenInv'
  BY <1>1, <1>3 DEF RightInv, ScreenInv, desktopVars, popupVars
<1>6. PasteInv'
  BY <1>1, <1>3 DEF RightInv, PasteInv, TypesOwed, portalVars
<1>7. LateInv'
  BY <1>1 DEF RightInv, LateInv, desktopVars
<1>8. LineInv'
  BY <1>1, <1>3, <1>4 DEF RightInv, LineInv, Own, kwinVars, popupVars
<1>9. ConfirmInv'
  <2>1. /\ MayRestore' => MayRestore
        /\ MayCheck' => MayCheck
        /\ Checks' => Checks
        /\ MayType' => MayType
    BY <1>1, <1>3 DEF MayRestore, MayCheck, Checks, MayType, kwinVars, popupVars
  <2>2. /\ InOrder => InOrder'
        /\ NoChecks => NoChecks'
        /\ OnlyLast => OnlyLast'
        /\ Trusted => Trusted'
        /\ Confirmed => Confirmed'
    BY <1>1, <1>4
       DEF InOrder, NoChecks, OnlyLast, Trusted, Confirmed, desktopVars, kwinVars, popupVars
  <2> QED
    BY <1>3, <1>4, <2>1, <2>2 DEF RightInv, ConfirmInv
<1>10. OriginInv'
  BY <1>1, <1>3 DEF RightInv, OriginInv, desktopVars, kwinVars, popupVars
<1> QED
  BY <1>2, <1>5, <1>6, <1>7, <1>8, <1>9, <1>10 DEF RightInv

\* Every step, and every stuttering, keeps it.
LEMMA RightStep == RightInv /\ [DNext]_dvars => RightInv'
<1>1. ASSUME RightInv, DNext PROVE RightInv'
  BY <1>1, DeliveryStep, ScreenStep, PasteStep, LateStep, LineStep, ConfirmStep, OriginStep
     DEF RightInv
<1> QED
  BY <1>1, RightStays

\* Only two steps press the V, and they follow the confirmation.
LEMMA TypesConfirmed ==
  ASSUME RightInv, DNext, TypesV, Awaited
  PROVE  act.pc \in {"pasting", "typing"}
<1>1. CASE TypeKey
  BY <1>1 DEF TypeKey
<1>2. CASE TypeFrame
  <2>1. worker = "typing" /\ paste = "Portal"
    BY <1>2 DEF TypeFrame, RightInv, PasteInv
  <2> QED
    BY <2>1 DEF Awaited, RightInv, PasteInv, TypesOwed
<1>3. CASE keys' = keys \/ keys' = {}
  BY <1>3 DEF TypesV
<1>4. TypeKey \/ TypeFrame \/ keys' = keys \/ keys' = {}
  <2> USE DEF desktopVars, kwinVars, portalVars, popupVars
  <2>1. CASE UserMoves \/ Granted
    BY <2>1 DEF UserMoves, UserFocus, CloseWindow, Granted, GrantFocus
  <2>2. CASE PopupStep
    <3>1. ASSUME NEW i \in Inputs, Frame(i) PROVE keys' = keys
      BY <3>1, Zenon DEF Frame
    <3> QED
      BY <2>2, <3>1 DEF PopupStep, Launch, LaunchFails, Spawn, Reap
  <2>3. CASE KWin
    BY <2>3 DEF KWin, KWinStep, HelperRuns, HelperReloads, TakeCommand, ReadCallback, CallbackTimesOut
  <2>4. CASE Portal
    <3>1. CASE ReceivePaste \/ ReceiveShutdown
      BY <3>1 DEF ReceivePaste, ReceiveShutdown, Stop
    <3>2. CASE DeviceResumed \/ DevicePaused \/ SessionLost
      BY <3>2 DEF DeviceResumed, DevicePaused, SessionLost, Reconnect
    <3>3. CASE OfflinePaste \/ OfflineShutdown
      BY <3>3 DEF OfflinePaste, OfflineShutdown, Stop
    <3>4. CASE DelayEnds \/ Connects \/ ConnectFails
      BY <3>4 DEF DelayEnds, Connects, ConnectFails, Stop
    <3>5. CASE TypeFails
      BY <3>5 DEF TypeFails, Reconnect
    <3>6. CASE CompositorStep
      BY <3>6 DEF CompositorStep, PauseKeyboard, ResumeKeyboard, LoseKeyboard
    <3> QED
      BY <2>4, <3>1, <3>2, <3>3, <3>4, <3>5, <3>6 DEF Portal, WorkerStep
  <2>5. CASE Shutdown
    BY <2>5 DEF Shutdown, RequestShutdown
  <2>6. CASE CaptureStep \/ CaptureTimesOut
    <3>1. CaptureAtOnce => keys' = keys
      BY Zenon DEF CaptureAtOnce
    <3> QED
      BY <2>6, <3>1 DEF CaptureStep, CaptureTimesOut, CaptureOnKWin, CaptureAnswered
  <2>7. CASE ActStep
    BY <2>7
       DEF ActStep, Activate, RestoreAtOnce, RestoreOnKWin, RestoreAnswered, CheckAtOnce,
           CheckOnKWin, CheckAnswered, CheckAgain, Paste, PasteAnswered, TakePasted
  <2>8. CASE KWinTimesOut \/ TimeIsUp \/ TypeKeyFails \/ PasteGivenUp
    BY <2>8 DEF KWinTimesOut, TimeIsUp, TypeKeyFails, PasteGivenUp, PasteTimesOut
  <2> QED
    BY <2>1, <2>2, <2>3, <2>4, <2>5, <2>6, <2>7, <2>8 DEF DNext
<1> QED
  BY <1>1, <1>2, <1>3, <1>4

\* The V goes into the window that was confirmed, with two calls given up and
\* whatever comes late, closes or fails; with none given up it is a window that
\* the popup was opened over (Delivery.RightWindow).
THEOREM DeliveryTypesRight == DSpec => RightWindow
<1>1. ASSUME RightInv, DNext, TypesV, Awaited, moves = act.seen
      PROVE  /\ GivenUp <= 2 => active = popup.target
             /\ GivenUp = 0 => active \in popup.origin
  <2>1. MayType
    BY <1>1, TypesConfirmed DEF MayType
  <2>2. GivenUp <= 2 => active = popup.target
    BY <1>1, <2>1 DEF RightInv, ConfirmInv, Confirmed
  <2>3. popup.pc = "open" /\ popup.target # NoWindow
    BY <1>1, TypesConfirmed DEF RightInv, ScreenInv
  <2>4. GivenUp = 0 => popup.target \in popup.origin
    <3>1. OriginInv
      BY <1>1 DEF RightInv
    <3> QED
      BY <2>3, <3>1 DEF OriginInv
  <2> QED
    BY <2>2, <2>4
<1>2. RightInv /\ [DNext]_dvars =>
        [TypesV /\ Awaited /\ moves = act.seen =>
           /\ GivenUp <= 2 => active = popup.target
           /\ GivenUp = 0 => active \in popup.origin]_dvars
  BY <1>1
<1> QED
  BY <1>2, RightStarts, RightStep, PTL DEF DSpec, RightWindow
=============================================================================
