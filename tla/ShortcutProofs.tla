--------------------------- MODULE ShortcutProofs ---------------------------
(***************************************************************************)
(* Theorems about ShortcutSetup: its types, the grabs and the status of X11, *)
(* the trigger of the portal, and the calls of the coordinator, for any      *)
(* shortcuts, bindings, files and instances.                                *)
(***************************************************************************)
EXTENDS ShortcutSetup, SequenceTheorems, FunctionTheorems, FiniteSetTheorems, TLAPS

-----------------------------------------------------------------------------
(* The inductive invariant *)

CommandKinds == {"Rebind", "Recheck", "ConfigurePortal", "CheckConflict", "Shutdown"}

Cmds ==
  {c \in [kind : CommandKinds, shortcut : Triggers, awaited : BOOLEAN] :
     c.kind \in {"Rebind", "CheckConflict"} => c.shortcut \in Shortcut}

\* What is grabbed is a shortcut with all its masks, and the server agrees.
GrabInv ==
  /\ grabs \in [Mask -> {"free", "us", "other"}]
  /\ \/ registered = NoGrab
     \/ registered.shortcut \in Shortcut
        /\ registered.shortcut.key \in LayoutKeys
        /\ registered = [shortcut |-> registered.shortcut,
                         masks |-> ModifierMasks(registered.shortcut)]
  /\ server => \/ Ours = registered.masks
               \/ SharedKeycode /\ Ours = {}

\* Where the worker is, and what it believes of the backend.
WorkerInv ==
  /\ instance \in Instances
  /\ inspected \in Triggers
  /\ pc \in WorkerPcs
  /\ current \in Shortcut
  /\ cmds \in Seq(Cmds)
  /\ status \in StatusType
  /\ disturbed \in Nat
  /\ pc = "events" => platform = "portal"
  /\ pc \in {"drain", "wait", "parked"} => platform \in {"x11", "portal", "unknown"}
  /\ pc = "start" => registered = NoGrab
  /\ platform = "none" => pc = "gone"
  /\ Compositor =>
       /\ status.state \in BindingStates \cup {"Initializing"}
       /\ status.configured = current
       /\ inspected \in {None, current}
  /\ status.state \in BindingStates => Compositor
  /\ platform = "x11" /\ registered # NoGrab =>
       /\ status.configured = registered.shortcut
       /\ current = registered.shortcut
       /\ status.state = "Active" => status.effective = registered.shortcut

\* The latest news of the trigger: in the last signal, else in the last event,
\* else known.
PortalInv ==
  /\ trigger \in Triggers
  /\ effective \in Triggers
  /\ version \in {1, 2}
  /\ session \in {"none", "open", "unheard", "lost"}
  /\ missed \in BOOLEAN
  /\ subscribed \in {"no", "spawned", "yes", "ended"}
  /\ signals \in Seq(Triggers \cup {Omitted})
  /\ events \in Seq(Triggers)
  /\ platform = "portal" => status.effective = effective
  /\ session = "none" => subscribed = "no" /\ effective = None
  /\ subscribed # "yes" => signals = <<>> /\ events = <<>>
  /\ Known /\ signals # <<>> => signals[Len(signals)] \in {trigger, Omitted}
  /\ Known /\ ~missed /\ signals = <<>> /\ events # <<>> => events[Len(events)] = trigger
  /\ Known /\ ~missed /\ signals = <<>> /\ events = <<>> => effective = trigger

Serves(at) ==
  CASE at \in {"reload", "rebind", "rollback", "reprobe"} -> "Rebind"
    [] at = "recheck" -> "Recheck"
    [] at = "portal" -> "ConfigurePortal"
    [] at = "check" -> "CheckConflict"
    [] OTHER -> "none"

CallType ==
  [caller : {"none", "other", "toggle", "popup", "poll"}, op : Ops \cup {"none"},
   target : Triggers, before : Triggers, at : Awaits \cup {"idle", "end"},
   answer : CallAnswers]

\* The call that holds the gate and the files.
CallInv ==
  /\ coord \in CallType
  /\ config \in File
  /\ edits \in Nat
  /\ coord.at = "idle" => coord = NoCall
  /\ coord.at = "rebind" =>
       platform = "x11" /\ temp \in Document /\ LoadFromPath(temp) = coord.target
  /\ coord.at # "rebind" => temp = None
  /\ coord.at = "rollback" => platform = "x11"
  /\ coord.at \in {"check", "reprobe"} => Compositor
  /\ coord.at \in {"rebind", "rollback", "check", "reprobe"} =>
       coord.op = "set" /\ coord.target \in Shortcut
  /\ coord.at \in {"reload", "recheck", "portal"} => coord.op # "set"

\* A command whose answer somebody awaits; nobody does for Shutdown.
Outstanding(i) == cmds[i].awaited /\ cmds[i].kind # "Shutdown"

\* The commands of the worker are those the call awaits: one, until the answer
\* to it, and rechecks that were given up.
CommandInv ==
  /\ coord.at \in Awaits \ {"check"} => reply \in States \cup {NoReply, "Ok"}
  /\ coord.at = "check" => reply \in {NoReply, "free", "occupied", "error"}
  /\ pc # "gone" => \A i \in DOMAIN cmds :
       /\ cmds[i].kind \notin {"Recheck", "Shutdown"} => cmds[i].awaited
       /\ Outstanding(i) =>
            /\ cmds[i].kind = Serves(coord.at)
            /\ reply = NoReply
            /\ coord.at \in {"rebind", "check"} => cmds[i].shortcut = coord.target
            /\ coord.at = "rollback" /\ edits = 0 =>
                 cmds[i].shortcut = LoadOrDefault(config)
            /\ \A j \in DOMAIN cmds : Outstanding(j) => i = j

\* What the answers say of the grab and of the compositor.
AnswerInv ==
  /\ coord.at = "rebind" /\ pc # "gone" =>
       IF reply = "Ok" THEN registered.shortcut = coord.target
       ELSE coord.before # None => registered.shortcut = coord.before
  /\ coord.at = "rollback" /\ pc # "gone" /\ edits = 0 /\ reply = "Ok" =>
       registered.shortcut = LoadOrDefault(config)
  /\ coord.at = "check" /\ pc # "gone" /\ reply = NoReply => status.configured # coord.target
  /\ coord.at = "check" /\ reply = "free" =>
       /\ checked.shortcut = coord.target
       /\ checked.ipc # "down"
       /\ checked.ipc = "up" => checked.found \in {"Matched", "NotFound"}

\* The view: what is saved is a shortcut.
ViewInv ==
  /\ candidate \in Triggers
  /\ shown \in {None} \cup StatusType
  /\ poll \in RequestType
  /\ action \in RequestType
  /\ action.op = "set" => action.shortcut \in Shortcut

SetupInv ==
  GrabInv /\ WorkerInv /\ PortalInv /\ CallInv /\ CommandInv /\ AnswerInv /\ ViewInv

-----------------------------------------------------------------------------
(* The operators of the configuration *)

\* No text of a shortcut stands for an absent one.
LEMMA TextIsThere ==
  /\ \A x \in ModifierText : x # None
  /\ \A x \in KeyText : x # None
  /\ \A x \in Table : x # None
  /\ \A x \in Shortcut : x # None
BY ConfigAssumption

\* A file is read as a shortcut, or not at all, and one that is made for a
\* missing one is a file.
LEMMA LoadTypes ==
  ASSUME NEW f \in File
  PROVE  /\ LoadFromPath(f) \in {None} \cup Shortcut
         /\ LoadOrDefault(f) \in Shortcut
         /\ EnsureExists(f) \in File
<1>1. LoadFromPath(f) \in {None} \cup Shortcut
  BY DEF LoadFromPath, ToShortcut
<1>2. LoadOrDefault(f) \in Shortcut
  BY <1>1, ConfigAssumption DEF LoadOrDefault, Default
<1>3. Template \in Document
  BY ConfigAssumption
     DEF Template, Primary, Document, Table, ModifierText, KeyText, Shortcut
<1> QED
  BY <1>1, <1>2, <1>3 DEF EnsureExists, File

\* Writing a shortcut into a document makes a document that reads back as it.
LEMMA UpdateTypes ==
  ASSUME NEW d \in Document, NEW s \in Shortcut
  PROVE  UpdateShortcut(d, s) \in Document /\ PrimaryBinding(UpdateShortcut(d, s)) = s
<1> DEFINE t == [modifiers |-> s.modifiers, key |-> s.key]
<1>1. s.modifiers \in ModifierText /\ s.key \in KeyText /\ t \in Table /\ t = s
  BY DEF Shortcut, ModifierText, KeyText, Table
<1>2. s.modifiers # None /\ s.key # None /\ t # None
  BY <1>1, TextIsThere
<1>3. CASE d.primary # None \/ d.key = None
  <2>1. UpdateShortcut(d, s) = [d EXCEPT !.primary = t]
    BY <1>3 DEF UpdateShortcut
  <2>2. UpdateShortcut(d, s) \in Document /\ UpdateShortcut(d, s).primary = t
    BY <1>1, <2>1 DEF Document
  <2> QED
    BY <1>1, <1>2, <2>2 DEF PrimaryBinding, Default
<1>4. CASE ~(d.primary # None \/ d.key = None)
  <2>1. UpdateShortcut(d, s) = [d EXCEPT !.modifiers = s.modifiers, !.key = s.key]
    BY <1>4 DEF UpdateShortcut
  <2>2. /\ UpdateShortcut(d, s) \in Document
        /\ UpdateShortcut(d, s).primary = None
        /\ UpdateShortcut(d, s).modifiers = s.modifiers
        /\ UpdateShortcut(d, s).key = s.key
    BY <1>1, <1>4, <2>1 DEF Document
  <2> QED
    BY <1>1, <1>2, <2>2 DEF PrimaryBinding
<1> QED
  BY <1>3, <1>4

\* What is written for a shortcut is read as it, whatever the file was.
LEMMA PreparedIsRead ==
  ASSUME NEW f \in File, NEW s \in Shortcut, PrepareNewConfig(f, s) # None
  PROVE  PrepareNewConfig(f, s) \in Document /\ LoadFromPath(PrepareNewConfig(f, s)) = s
<1>1. PICK d \in Document : PrepareNewConfig(f, s) = UpdateShortcut(d, s)
  <2>1. Template \in Document
    BY ConfigAssumption
       DEF Template, Primary, Document, Table, ModifierText, KeyText, Shortcut
  <2> QED
    BY <2>1 DEF PrepareNewConfig, File
<1>2. UpdateShortcut(d, s) \notin {Missing, Malformed}
  BY UpdateTypes, ConfigAssumption
<1> QED
  BY <1>1, <1>2, UpdateTypes DEF LoadFromPath, ToShortcut

-----------------------------------------------------------------------------
(* The grabs *)

\* There are two masks to each grab: with and without NumLock.
LEMMA LockStatesAre == DOMAIN LockStates = {1, 2} /\ Len(LockStates) = 2
BY DEF LockStates

\* FirstRefused finds the first mask that another client has.
LEMMA RefusedMask ==
  ASSUME NEW s
  PROVE  /\ FirstRefused(s) \in 1..3
         /\ FirstRefused(s) \in DOMAIN LockStates <=>
              \E i \in DOMAIN LockStates : grabs[<<Combination(s), LockStates[i]>>] = "other"
         /\ FirstRefused(s) \in DOMAIN LockStates =>
              grabs[<<Combination(s), LockStates[FirstRefused(s)]>>] = "other"
         /\ \A j \in 1..FirstRefused(s) - 1 : grabs[<<Combination(s), LockStates[j]>>] # "other"
<1> DEFINE P(i) == /\ i \in DOMAIN LockStates => grabs[<<Combination(s), LockStates[i]>>] = "other"
                   /\ \A j \in 1 .. i - 1 : grabs[<<Combination(s), LockStates[j]>>] # "other"
<1>1. \E i \in 1..Len(LockStates) + 1 : P(i)
  <2>1. CASE grabs[<<Combination(s), LockStates[1]>>] = "other"
    BY <2>1, LockStatesAre
  <2>2. CASE grabs[<<Combination(s), LockStates[1]>>] # "other" /\ grabs[<<Combination(s), LockStates[2]>>] = "other"
    <3>1. P(2)
      BY <2>2, LockStatesAre
    <3> QED
      BY <3>1, LockStatesAre
  <2>3. CASE grabs[<<Combination(s), LockStates[1]>>] # "other" /\ grabs[<<Combination(s), LockStates[2]>>] # "other"
    <3>1. P(3)
      BY <2>3, LockStatesAre
    <3> QED
      BY <3>1, LockStatesAre
  <2> QED
    BY <2>1, <2>2, <2>3
<1>2. FirstRefused(s) \in 1..Len(LockStates) + 1 /\ P(FirstRefused(s))
  BY <1>1 DEF FirstRefused
<1> QED
  BY <1>2, LockStatesAre

\* Two shortcuts share all their masks or none, and share them only where two
\* keys have one code.
LEMMA SharedMasks ==
  ASSUME NEW s \in Shortcut, NEW t \in Shortcut, s # t,
         s.key \in LayoutKeys, t.key \in LayoutKeys,
         ModifierMasks(s) \cap ModifierMasks(t) # {}
  PROVE  ModifierMasks(s) = ModifierMasks(t) /\ SharedKeycode
<1>1. Combination(s) = Combination(t)
  BY DEF ModifierMasks
<1>2. s.modifiers = t.modifiers /\ Keycode[s.key] = Keycode[t.key]
  BY <1>1 DEF Combination
<1>3. s.key # t.key
  BY <1>2 DEF Shortcut
<1> QED
  BY <1>1, <1>2, <1>3 DEF ModifierMasks, SharedKeycode

LEMMA MasksAreMasks ==
  ASSUME NEW s \in Shortcut, s.key \in LayoutKeys
  PROVE  ModifierMasks(s) \subseteq Mask
BY DEF ModifierMasks, Mask

\* register leaves the grabs as they are or replaces all of the old by all of
\* the new, of which those it shares with the old are then released.
LEMMA RegisterGrabs ==
  ASSUME GrabInv, NEW s \in Shortcut, X11Register(s), server' = server
  PROVE  /\ GrabInv'
         /\ X11RegisterResult(s) \in {"Active", "Failed", "Conflict"}
         /\ X11RegisterResult(s) = "Active" => registered'.shortcut = s
         /\ X11RegisterResult(s) # "Active" => registered' = registered
<1> DEFINE old == registered.masks
<1>1. CASE registered.shortcut = s \/ s.key \notin LayoutKeys \/ ~server
  BY <1>1 DEF X11Register, X11RegisterResult, GrabInv, Ours
<1>2. ASSUME ~(registered.shortcut = s \/ s.key \notin LayoutKeys \/ ~server),
             ModifierMasks(s) \cap old # {}
      PROVE  ModifierMasks(s) = old /\ SharedKeycode
  <2>1. /\ registered.shortcut \in Shortcut
        /\ registered.shortcut.key \in LayoutKeys
        /\ old = ModifierMasks(registered.shortcut)
    BY <1>2 DEF GrabInv, NoGrab
  <2> QED
    BY <1>2, <2>1, SharedMasks
<1>3. CASE /\ ~(registered.shortcut = s \/ s.key \notin LayoutKeys \/ ~server)
           /\ FirstRefused(s) \in DOMAIN LockStates
  <2> DEFINE M == {<<Combination(s), LockStates[i]>> : i \in 1 .. FirstRefused(s) - 1}
             refused == <<Combination(s), LockStates[FirstRefused(s)]>>
  <2>1. grabs' = Ungrabbed(M) /\ registered' = registered
    BY <1>3 DEF X11Register, ExecuteGrab
  <2>2. /\ refused \in ModifierMasks(s) /\ refused \in Mask /\ grabs[refused] = "other"
        /\ M \subseteq ModifierMasks(s)
    <3>1. refused \in ModifierMasks(s)
      BY <1>3 DEF ModifierMasks
    <3>2. grabs[refused] = "other"
      BY <1>3, RefusedMask
    <3>3. M \subseteq ModifierMasks(s)
      BY <1>3, LockStatesAre DEF ModifierMasks
    <3> QED
      BY <1>3, <3>1, <3>2, <3>3, MasksAreMasks
  <2>3. M \cap Ours = {}
    <3>1. CASE Ours = old
      BY <1>2, <1>3, <2>2, <3>1 DEF Ours
    <3>2. CASE Ours = {}
      BY <3>2
    <3> QED
      BY <1>3, <3>1, <3>2 DEF GrabInv
  <2>4. Ours' = Ours
    BY <2>1, <2>3 DEF Ours, Ungrabbed, GrabInv
  <2>5. grabs' \in [Mask -> {"free", "us", "other"}]
    BY <2>1 DEF Ungrabbed, GrabInv
  <2> QED
    BY <1>3, <2>1, <2>4, <2>5 DEF GrabInv, X11RegisterResult
<1>4. CASE /\ ~(registered.shortcut = s \/ s.key \notin LayoutKeys \/ ~server)
           /\ FirstRefused(s) \notin DOMAIN LockStates
  <2> DEFINE new == [m \in Mask |-> IF m \in ModifierMasks(s) THEN "us" ELSE grabs[m]]
  <2>1. /\ grabs' = [m \in Mask |-> IF m \in old /\ new[m] = "us" THEN "free" ELSE new[m]]
        /\ registered' = [shortcut |-> s, masks |-> ModifierMasks(s)]
    BY <1>4 DEF X11Register, ExecuteGrab
  <2>2. ModifierMasks(s) \subseteq Mask /\ Ours \subseteq old
    BY <1>4, MasksAreMasks DEF GrabInv
  <2>3. Ours' = ModifierMasks(s) \ old
    <3>1. \A m \in Mask : (grabs'[m] = "us") <=> (new[m] = "us" /\ m \notin old)
      BY <2>1
    <3>2. \A m \in Mask : (new[m] = "us") <=> (m \in ModifierMasks(s) \/ m \in Ours)
      BY DEF Ours
    <3> QED
      BY <2>2, <3>1, <3>2 DEF Ours
  <2>4. grabs' \in [Mask -> {"free", "us", "other"}]
    BY <2>1 DEF GrabInv
  <2>5. \/ Ours' = ModifierMasks(s)
        \/ SharedKeycode /\ Ours' = {}
    <3>1. CASE ModifierMasks(s) \cap old = {}
      BY <2>3, <3>1
    <3>2. CASE ModifierMasks(s) \cap old # {}
      BY <1>2, <1>4, <2>3, <3>2
    <3> QED
      BY <3>1, <3>2
  <2> QED
    BY <1>4, <2>1, <2>4, <2>5 DEF GrabInv, X11RegisterResult
<1> QED
  BY <1>1, <1>3, <1>4

-----------------------------------------------------------------------------
(* The steps of the worker and of what it works on *)

\* What sends a command says that it is one.
Sends ==
  \E kind \in CommandKinds, s \in Triggers :
    /\ Send(kind, s)
    /\ kind \in {"Rebind", "CheckConflict"} => s \in Shortcut

GivesUp ==
  /\ cmds' = [i \in DOMAIN cmds |-> [cmds[i] EXCEPT !.awaited = FALSE]]
  /\ UNCHANGED <<x11Vars, portalVars, compositorVars, pc, current, wakeSet, reply, status,
                 activations, boundVars>>

LoadsFile ==
  /\ Compositor
  /\ disturbed' \in {disturbed, disturbed + 1}
  /\ UNCHANGED <<ipc, file, inspected, checked, x11Vars, portalVars, workerVars, instance,
                 presses>>

ListenerMoves ==
  \/ WorkerStep \/ ChangedStep \/ Disturbance \/ Keyboard
  \/ Sends \/ GivesUp \/ LoadsFile
  \/ UNCHANGED runtimeVars

GivenUp == [i \in DOMAIN cmds |-> [cmds[i] EXCEPT !.awaited = FALSE]]

\* The commands stay commands when one is taken, sent or given up.
LEMMA CommandQueue ==
  ASSUME cmds \in Seq(Cmds)
  PROVE  /\ cmds # <<>> => /\ Head(cmds) \in Cmds /\ Head(cmds) = cmds[1]
                          /\ Tail(cmds) \in Seq(Cmds)
                          /\ 1 \in DOMAIN cmds
                          /\ \A i \in DOMAIN Tail(cmds) :
                               i + 1 \in DOMAIN cmds /\ Tail(cmds)[i] = cmds[i + 1]
         /\ \A c \in Cmds :
              /\ Append(cmds, c) \in Seq(Cmds)
              /\ \A i \in DOMAIN Append(cmds, c) :
                   \/ i \in DOMAIN cmds /\ Append(cmds, c)[i] = cmds[i]
                   \/ i = Len(cmds) + 1 /\ Append(cmds, c)[i] = c
         /\ GivenUp \in Seq(Cmds)
         /\ DOMAIN GivenUp = DOMAIN cmds
         /\ \A i \in DOMAIN cmds : /\ GivenUp[i].kind = cmds[i].kind
                                    /\ GivenUp[i].shortcut = cmds[i].shortcut
                                    /\ GivenUp[i].awaited = FALSE
                                    /\ cmds[i] \in Cmds
<1>1. cmds # <<>> => /\ Head(cmds) \in Cmds /\ Head(cmds) = cmds[1]
                     /\ Tail(cmds) \in Seq(Cmds) /\ Len(Tail(cmds)) = Len(cmds) - 1
                     /\ Len(cmds) \in Nat \ {0} /\ DOMAIN Tail(cmds) = 1..Len(Tail(cmds))
                     /\ \A i \in 1..Len(Tail(cmds)) : Tail(cmds)[i] = cmds[i + 1]
  BY HeadTailProperties
<1>2. DOMAIN cmds = 1..Len(cmds) /\ Len(cmds) \in Nat
  OBVIOUS
<1>3. \A i \in DOMAIN cmds : cmds[i] \in Cmds
  OBVIOUS
<1>4. DOMAIN GivenUp = DOMAIN cmds
  BY DEF GivenUp
<1>5. ASSUME NEW i \in DOMAIN cmds
      PROVE  /\ GivenUp[i] \in Cmds
             /\ GivenUp[i].kind = cmds[i].kind
             /\ GivenUp[i].shortcut = cmds[i].shortcut
             /\ GivenUp[i].awaited = FALSE
  <2>1. GivenUp[i] = [cmds[i] EXCEPT !.awaited = FALSE] /\ cmds[i] \in Cmds
    BY <1>3 DEF GivenUp
  <2> QED
    BY <2>1 DEF Cmds
<1>6. GivenUp \in Seq(Cmds)
  <2>1. GivenUp = [i \in 1..Len(cmds) |-> GivenUp[i]]
    BY <1>2 DEF GivenUp
  <2>2. GivenUp \in [1..Len(cmds) -> Cmds]
    BY <1>2, <1>5, <2>1
  <2> QED
    BY <1>2, <2>2
<1>7. \A c \in Cmds : Append(cmds, c) \in Seq(Cmds) /\ DOMAIN Append(cmds, c) = 1..Len(cmds) + 1
        /\ Append(cmds, c)[Len(cmds) + 1] = c
        /\ \A i \in 1..Len(cmds) : Append(cmds, c)[i] = cmds[i]
  BY AppendProperties
<1>8. cmds # <<>> => 1 \in DOMAIN cmds /\ \A i \in DOMAIN Tail(cmds) : i + 1 \in DOMAIN cmds
  BY <1>1, <1>2
<1>9. \A c \in Cmds : \A i \in 1..Len(cmds) + 1 : i \in DOMAIN cmds \/ i = Len(cmds) + 1
  BY <1>2
<1>10. \A c \in Cmds : \A i \in DOMAIN Append(cmds, c) :
         \/ i \in DOMAIN cmds /\ Append(cmds, c)[i] = cmds[i]
         \/ i = Len(cmds) + 1 /\ Append(cmds, c)[i] = c
  BY <1>2, <1>7, <1>9
<1>11. cmds # <<>> => \A i \in DOMAIN Tail(cmds) :
                       i + 1 \in DOMAIN cmds /\ Tail(cmds)[i] = cmds[i + 1]
  BY <1>1, <1>8
<1> QED
  BY <1>1, <1>3, <1>4, <1>5, <1>6, <1>7, <1>8, <1>10, <1>11, Zenon

\* A command that the worker takes was in its queue, and is of that kind.
LEMMA TakenCommand ==
  ASSUME cmds \in Seq(Cmds), NEW kind, Takes(kind)
  PROVE  /\ cmds # <<>> /\ cmds' \in Seq(Cmds) /\ pc \in {"drain", "parked", "serve"}
         /\ Head(cmds) \in Cmds /\ Head(cmds).kind = kind
         /\ kind \in {"Rebind", "CheckConflict"} => Head(cmds).shortcut \in Shortcut
BY CommandQueue DEF Takes, Listening, Cmds

\* What a registration may return, by platform.
LEMMA ResultTypes ==
  ASSUME instance \in Instances, platform # "none", NEW s
  PROVE  \A result \in Results(s) :
           \/ platform = "x11" /\ result = X11RegisterResult(s)
           \/ platform = "portal" /\ result \in {"Unavailable", "Failed", "Active", "Unconfigured"}
           \/ Compositor /\ result \in BindingStates
           \/ platform = "unknown" /\ result = "Unavailable"
<1> SUFFICES ASSUME NEW result \in Results(s)
             PROVE  \/ platform = "x11" /\ result = X11RegisterResult(s)
                    \/ platform = "portal" /\ result \in {"Unavailable", "Failed", "Active", "Unconfigured"}
                    \/ Compositor /\ result \in BindingStates
                    \/ platform = "unknown" /\ result = "Unavailable"
  OBVIOUS
<1>1. CASE platform = "x11"
  BY <1>1 DEF Results, Compositor
<1>2. CASE platform = "portal"
  BY <1>2 DEF Results, PortalResults, Assigned, Compositor
<1>3. CASE Compositor
  <2>1. /\ \A b : SwayDiagnosis(b, s) \in {"Conflict", "Matched", "NotFound"}
        /\ \A b : HyprlandDiagnosis(b, s) \in {"Conflict", "Matched", "NotFound", "Opaque"}
        /\ \A b : HyprlandFileDiagnosis(b, s) \in {"Conflict", "Matched", "NotFound"}
    BY DEF SwayDiagnosis, HyprlandDiagnosis, HyprlandFileDiagnosis, FirstIn
  <2>2. /\ LiveDiagnosis(platform, ipc, live, s) \in {"Conflict", "Matched", "NotFound", "Opaque"}
        /\ FileDiagnosis(platform, file, s) \in {"Conflict", "Matched", "NotFound"}
    BY <2>1 DEF LiveDiagnosis, FileDiagnosis
  <2>3. result = CompositorStatus(platform, ipc, live, file, s)
    BY <1>3 DEF Results, Compositor
  <2> QED
    BY <1>3, <2>2, <2>3 DEF CompositorStatus, LiveStatus, FileStatus, BindingStates
<1>4. CASE platform = "unknown"
  BY <1>4 DEF Results, Compositor
<1> QED
  BY <1>1, <1>2, <1>3, <1>4, ListenerAssumption DEF platform, Compositor

\* Every step of the listener keeps the grab whole and in line with the server.
LEMMA GrabStep ==
  ASSUME GrabInv, WorkerInv, ListenerMoves
  PROVE  GrabInv'
<1>1. ASSUME UNCHANGED <<grabs, registered>>, server' => server PROVE GrabInv'
  BY <1>1 DEF GrabInv, Ours
<1>2. ASSUME NEW s \in Shortcut, NEW result, Register(s, result) PROVE GrabInv'
  BY <1>1, <1>2, RegisterGrabs DEF Register, x11Vars
<1>3. CASE Start
  BY <1>2, <1>3 DEF Start, WorkerInv
<1>4. CASE Rebind
  BY <1>2, <1>4, TakenCommand DEF Rebind, WorkerInv
<1>5. CASE Recheck
  BY <1>1, <1>2, <1>5 DEF Recheck, WorkerInv, x11Vars
<1>6. CASE ConfigurePortal \/ CheckCommand \/ Drained \/ BackendEvent \/ EventsDrained
           \/ WaitPortal \/ WaitFails \/ ChangedStep
  BY <1>1, <1>6
     DEF ConfigurePortal, CheckCommand, Drained, BackendEvent, EventsDrained, WaitPortal,
         WaitFails, ChangedStep, x11Vars
<1>7. CASE Shutdown
  <2>1. CASE X11Drop
    <3>1. Ours' = Ours \ registered.masks /\ grabs' \in [Mask -> {"free", "us", "other"}]
      BY <2>1 DEF X11Drop, Ungrabbed, Ours, GrabInv
    <3> QED
      BY <2>1, <3>1 DEF X11Drop, GrabInv, NoGrab
  <2> QED
    BY <1>1, <1>7, <2>1 DEF Shutdown, x11Vars
<1>8. CASE WaitWoken \/ \E answer \in {"activation", "none"} : WaitKey(answer)
  BY <1>1, <1>8 DEF WaitWoken, WaitKey, X11Woken, X11Event
<1>9. CASE Disturbance
  <2>1. CASE HangUp
    BY <2>1 DEF HangUp, GrabInv
  <2>2. ASSUME NEW m \in Mask, OtherGrabs(m) \/ OtherReleases(m) PROVE GrabInv'
    <3>1. Ours' = Ours /\ grabs' \in [Mask -> {"free", "us", "other"}]
      BY <2>2 DEF OtherGrabs, OtherReleases, GrabInv, Ours
    <3> QED
      BY <2>2, <3>1 DEF OtherGrabs, OtherReleases, GrabInv
  <2> QED
    BY <1>1, <1>9, <2>1, <2>2 DEF Disturbance, x11Vars
<1>10. CASE Keyboard
  BY <1>1, <1>10 DEF Keyboard, Press, AutoRepeat, Release, x11Vars
<1>11. CASE Sends \/ GivesUp \/ LoadsFile \/ UNCHANGED runtimeVars
  BY <1>1, <1>11 DEF Sends, Send, GivesUp, LoadsFile, runtimeVars, x11Vars
<1> QED
  BY <1>3, <1>4, <1>5, <1>6, <1>7, <1>8, <1>9, <1>10, <1>11 DEF ListenerMoves, WorkerStep

\* What a registration with the portal leaves of the trigger.
LEMMA PortalRegisters ==
  ASSUME PortalInv, NEW result \in PortalResults, PortalRegister(result),
         UNCHANGED instance, platform = "portal"
  PROVE  /\ trigger' \in Triggers /\ effective' \in Triggers
         /\ result = "Active" => effective' # None
         /\ result = "Unconfigured" => effective' = None
         /\ result \notin {"Active", "Unconfigured"} => UNCHANGED portalVars
         /\ missed' \in BOOLEAN
BY TextIsThere DEF PortalInv, PortalRegister, PortalResults, Assigned, Triggers, portalVars

\* The status of any outcome is typed.
LEMMA OutcomeTypes ==
  ASSUME NEW s \in Shortcut, NEW result \in States, effective' \in Triggers
  PROVE  OutcomeStatus(s, result) \in StatusType
<1>1. PICK e \in Triggers : OutcomeStatus(s, result) = Status(s, e, result)
  BY DEF OutcomeStatus, Triggers
<1> QED
  BY <1>1 DEF Status, StatusType

\* What a registration leaves, by platform.
LEMMA Registers ==
  ASSUME GrabInv, WorkerInv, PortalInv, platform # "none",
         NEW s \in Shortcut, NEW result \in Results(s), Register(s, result),
         UNCHANGED instance
  PROVE  /\ platform = "x11" =>
              /\ result \in {"Active", "Failed", "Conflict"}
              /\ result = "Active" => registered'.shortcut = s
              /\ result # "Active" => registered' = registered
              /\ UNCHANGED <<portalVars, compositorVars>>
         /\ platform = "portal" =>
              /\ result \in {"Unavailable", "Failed", "Active", "Unconfigured"}
              /\ UNCHANGED <<x11Vars, compositorVars>>
              /\ PortalRegister(result)
              /\ effective' \in Triggers
              /\ result = "Unconfigured" => effective' = None
              /\ result \in {"Unavailable", "Failed"} => effective' = effective
         /\ Compositor =>
              /\ result \in BindingStates
              /\ inspected' = s
              /\ UNCHANGED <<x11Vars, portalVars>>
         /\ platform = "unknown" =>
              /\ result = "Unavailable"
              /\ UNCHANGED <<x11Vars, portalVars, compositorVars>>
         /\ Ok(result) => OutcomeStatus(s, result) \in StatusType
         /\ result \in States
<1>1. platform \in {"x11", "portal", "sway", "hyprland", "unknown"}
  BY ListenerAssumption DEF platform, WorkerInv
<1>2. CASE platform = "x11"
  <2>1. X11Register(s) /\ UNCHANGED <<server, portalVars, compositorVars>>
    BY <1>2 DEF Register, Compositor
  <2>2. result = X11RegisterResult(s)
    BY <1>2 DEF Results, Compositor
  <2>3. /\ result \in {"Active", "Failed", "Conflict"}
        /\ result = "Active" => registered'.shortcut = s
        /\ result # "Active" => registered' = registered
    BY <2>1, <2>2, RegisterGrabs
  <2>4. platform' = platform
    BY DEF platform
  <2> QED
    BY <1>2, <2>1, <2>3, <2>4, OutcomeTypes DEF Compositor, States, PortalInv, portalVars
<1>3. CASE platform = "portal"
  <2>1. PortalRegister(result) /\ UNCHANGED <<x11Vars, compositorVars>>
    BY <1>3 DEF Register, Compositor
  <2>2. result \in PortalResults
    BY <1>3 DEF Results, Compositor
  <2>3. result \in {"Unavailable", "Failed", "Active", "Unconfigured"}
    BY <2>2 DEF PortalResults, Assigned
  <2>4. /\ effective' \in Triggers
        /\ result = "Unconfigured" => effective' = None
        /\ result \in {"Unavailable", "Failed"} => effective' = effective
    BY <1>3, <2>1, <2>2, PortalRegisters DEF portalVars
  <2> QED
    BY <1>3, <2>1, <2>3, <2>4, OutcomeTypes DEF Compositor, States
<1>4. CASE Compositor
  <2>1. inspected' = s /\ UNCHANGED <<x11Vars, portalVars>>
    BY <1>4 DEF Register, Compositor
  <2>2. result \in BindingStates
    BY <1>4, ResultTypes DEF WorkerInv, Compositor
  <2> QED
    BY <1>4, <2>1, <2>2, OutcomeTypes DEF Compositor, States, PortalInv, portalVars
<1>5. CASE platform = "unknown"
  <2>1. UNCHANGED <<x11Vars, portalVars, compositorVars>>
    BY <1>5 DEF Register, Compositor
  <2>2. result = "Unavailable"
    BY <1>5 DEF Results, Compositor
  <2> QED
    BY <1>5, <2>1, <2>2 DEF Compositor, States, Ok, BindingStates
<1> QED
  BY <1>1, <1>2, <1>3, <1>4, <1>5 DEF Compositor

\* Every step of the listener keeps what the worker believes in line.
LEMMA WorkerMoves ==
  ASSUME GrabInv, WorkerInv, PortalInv, effective' \in Triggers,
         events \in Seq(Triggers), ListenerMoves
  PROVE  WorkerInv'
<1> USE TextIsThere DEF platform, Compositor
<1>1. CASE Start
  <2>1. PICK result \in Results(current) : Register(current, result)
          /\ status' = IF Ok(result) THEN OutcomeStatus(current, result)
                       ELSE Status(current, None, result)
    BY <1>1 DEF Start
  <2>2. platform # "none" /\ UNCHANGED <<instance, current, cmds, disturbed>>
    BY <1>1 DEF Start, boundVars, WorkerInv
  <2>3. status' \in StatusType
    BY <2>1, <2>2, Registers DEF Status, StatusType, WorkerInv, Triggers
  <2>4. UNCHANGED platform /\ pc' \in {"serve", "drain"} /\ (pc' = "serve" <=> Compositor)
        /\ registered = NoGrab
    BY <1>1, <2>2 DEF Start, WorkerInv
  <2> HIDE DEF platform
  <2>5. CASE platform = "x11"
    BY <2>1, <2>2, <2>3, <2>4, <2>5, Registers
       DEF WorkerInv, OutcomeStatus, Status, Ok, NoGrab, WorkerPcs, BindingStates,
           compositorVars
  <2>6. CASE platform = "portal"
    BY <2>1, <2>2, <2>3, <2>4, <2>6, Registers
       DEF WorkerInv, OutcomeStatus, Status, Ok, WorkerPcs, BindingStates,
           compositorVars, x11Vars
  <2>7. CASE Compositor
    BY <2>1, <2>2, <2>3, <2>4, <2>7, Registers
       DEF WorkerInv, OutcomeStatus, Status, Ok, WorkerPcs, BindingStates, x11Vars, Triggers
  <2>8. CASE platform = "unknown"
    BY <2>1, <2>2, <2>3, <2>4, <2>8, Registers
       DEF WorkerInv, Status, Ok, WorkerPcs, BindingStates, compositorVars, x11Vars
  <2> QED
    BY <2>2, <2>5, <2>6, <2>7, <2>8, ListenerAssumption DEF WorkerInv, platform
<1>2. CASE Rebind
  <2> DEFINE s == Head(cmds).shortcut
  <2>1. PICK result \in Results(s) : Register(s, result)
          /\ status' = RebindStatus(s, result)
          /\ current' = IF Ok(result) THEN s ELSE current
    BY <1>2 DEF Rebind
  <2>2. UNCHANGED <<instance, pc, disturbed>> /\ platform # "none" /\ s \in Shortcut
        /\ cmds' \in Seq(Cmds) /\ pc \in {"drain", "parked", "serve"}
    BY <1>2, TakenCommand DEF Rebind, boundVars, WorkerInv
  <2> HIDE DEF s
  <2>3. UNCHANGED platform /\ status' \in StatusType
    BY <2>1, <2>2, Registers DEF WorkerInv, RebindStatus
  <2> HIDE DEF platform
  <2>5. CASE platform = "x11"
    BY <2>1, <2>2, <2>3, <2>5, Registers
       DEF WorkerInv, RebindStatus, OutcomeStatus, Status, Ok, NoGrab, BindingStates,
           compositorVars
  <2>6. CASE platform = "portal"
    BY <2>1, <2>2, <2>3, <2>6, Registers
       DEF WorkerInv, RebindStatus, OutcomeStatus, Status, Ok, BindingStates,
           compositorVars, x11Vars
  <2>7. CASE Compositor
    BY <2>1, <2>2, <2>3, <2>7, Registers
       DEF WorkerInv, RebindStatus, OutcomeStatus, Status, Ok, BindingStates, x11Vars, Triggers
  <2>8. CASE platform = "unknown"
    BY <2>1, <2>2, <2>3, <2>8, Registers
       DEF WorkerInv, RebindStatus, Ok, BindingStates, compositorVars, x11Vars
  <2> QED
    BY <2>2, <2>5, <2>6, <2>7, <2>8, ListenerAssumption DEF WorkerInv, platform
<1>3. CASE Recheck
  <2>1. UNCHANGED <<instance, pc, current, disturbed>> /\ platform # "none"
        /\ cmds' \in Seq(Cmds) /\ pc \in {"drain", "parked", "serve"}
    BY <1>3, TakenCommand DEF Recheck, boundVars, WorkerInv
  <2>2. CASE ~Compositor
    BY <1>3, <2>1, <2>2 DEF Recheck, WorkerInv, x11Vars, compositorVars
  <2>3. CASE Compositor
    <3>1. PICK result \in Results(current) :
            Register(current, result) /\ status' = OutcomeStatus(current, result)
      BY <1>3, <2>3 DEF Recheck
    <3> QED
      BY <2>1, <2>3, <3>1, Registers
         DEF WorkerInv, OutcomeStatus, Status, Ok, BindingStates, x11Vars, Triggers
  <2> QED
    BY <2>2, <2>3
<1>4. CASE ConfigurePortal \/ CheckCommand
  BY <1>4, TakenCommand
     DEF ConfigurePortal, CheckCommand, WorkerInv, x11Vars, compositorVars, boundVars
<1>5. CASE Shutdown
  BY <1>5, TakenCommand
     DEF Shutdown, WorkerInv, x11Vars, compositorVars, boundVars, WorkerPcs, X11Drop
<1>6. CASE Drained \/ EventsDrained
  BY <1>6
     DEF Drained, EventsDrained, WorkerInv, x11Vars, compositorVars, boundVars, WorkerPcs
<1>7. CASE BackendEvent
  <2>1. Head(events) \in Triggers
    BY <1>7, HeadTailProperties DEF BackendEvent
  <2>2. status' \in StatusType /\ status'.state \in {"Active", "Unconfigured"}
    BY <1>7, <2>1 DEF BackendEvent, WorkerInv, StatusType, Assigned, States
  <2> QED
    BY <1>7, <2>2
       DEF BackendEvent, WorkerInv, x11Vars, compositorVars, boundVars, BindingStates
<1>8. CASE WaitWoken \/ \E answer \in {"activation", "none"} : WaitKey(answer)
  BY <1>8
     DEF WaitWoken, WaitKey, X11Woken, X11Event, WorkerInv, compositorVars, boundVars, WorkerPcs
<1>9. CASE WaitPortal \/ WaitFails
  <2>1. /\ status' \in StatusType
        /\ status' = status \/ status'.state \in {"Failed", "Unavailable"}
    BY <1>9 DEF WaitPortal, WaitFails, WorkerInv, StatusType, States
  <2>2. status'.configured = status.configured /\ status'.effective = status.effective
    BY <1>9 DEF WaitPortal, WaitFails, WorkerInv, StatusType
  <2> QED
    BY <1>9, <2>1, <2>2
       DEF WaitPortal, WaitFails, WorkerInv, x11Vars, compositorVars, boundVars,
           BindingStates, WorkerPcs
<1>10. CASE ChangedStep
  BY <1>10 DEF ChangedStep, WorkerInv, x11Vars, compositorVars, workerVars, boundVars
<1>11. CASE Disturbance
  BY <1>11
     DEF Disturbance, WorkerInv, x11Vars, compositorVars, workerVars, HangUp, OtherGrabs,
         OtherReleases, EditBindings, IpcChanges
<1>12. CASE Keyboard
  BY <1>12
     DEF Keyboard, WorkerInv, x11Vars, compositorVars, workerVars, Press, AutoRepeat, Release
<1>13. CASE Sends
  <2>1. cmds' \in Seq(Cmds)
    <3>1. PICK kind \in CommandKinds, s \in Triggers :
            Send(kind, s) /\ (kind \in {"Rebind", "CheckConflict"} => s \in Shortcut)
      BY <1>13 DEF Sends
    <3>2. Command(kind, s) \in Cmds
      BY <3>1 DEF Command, Cmds
    <3> QED
      BY <3>1, <3>2, CommandQueue DEF Send, WorkerInv
  <2> QED
    BY <1>13, <2>1 DEF Sends, Send, WorkerInv, compositorVars, boundVars
<1>14. CASE GivesUp
  <2>1. cmds' \in Seq(Cmds)
    BY <1>14, CommandQueue DEF GivesUp, GivenUp, WorkerInv
  <2> QED
    BY <1>14, <2>1 DEF GivesUp, WorkerInv, x11Vars, compositorVars, boundVars
<1>15. CASE LoadsFile
  BY <1>15 DEF LoadsFile, WorkerInv, x11Vars, workerVars
<1>16. CASE UNCHANGED runtimeVars
  BY <1>16 DEF runtimeVars, WorkerInv, x11Vars, workerVars, compositorVars, boundVars
<1> QED
  BY <1>1, <1>2, <1>3, <1>4, <1>5, <1>6, <1>7, <1>8, <1>9, <1>10, <1>11, <1>12, <1>13,
     <1>14, <1>15, <1>16
     DEF ListenerMoves, WorkerStep

\* What the tasks and the portal know of the trigger is kept by every step.
LEMMA QueueTail ==
  ASSUME NEW S, NEW q \in Seq(S), q # <<>>
  PROVE  /\ Head(q) \in S
         /\ Tail(q) \in Seq(S)
         /\ Tail(q) # <<>> => Tail(q)[Len(Tail(q))] = q[Len(q)]
         /\ Tail(q) = <<>> => Head(q) = q[Len(q)]
<1>1. /\ Head(q) \in S /\ Head(q) = q[1] /\ Tail(q) \in Seq(S)
      /\ Len(Tail(q)) = Len(q) - 1 /\ Len(q) \in Nat \ {0}
      /\ \A i \in 1..Len(Tail(q)) : Tail(q)[i] = q[i + 1]
  BY HeadTailProperties
<1>2. Tail(q) # <<>> => Len(Tail(q)) \in Nat \ {0}
  BY <1>1, EmptySeq
<1>3. Tail(q) = <<>> => Len(q) = 1
  <2>1. Tail(q) = <<>> => Len(Tail(q)) = 0
    BY <1>1, EmptySeq
  <2> QED
    BY ONLY <1>1, <2>1
<1>4. Tail(q) # <<>> => Len(Tail(q)) \in 1..Len(Tail(q)) /\ Len(Tail(q)) + 1 = Len(q)
  BY <1>1, <1>2
<1> QED
  BY <1>1, <1>3, <1>4

\* What is put into a queue is its last element.
LEMMA QueueAppend ==
  ASSUME NEW S, NEW q \in Seq(S), NEW x \in S
  PROVE  /\ Append(q, x) \in Seq(S)
         /\ Append(q, x) # <<>>
         /\ Append(q, x)[Len(Append(q, x))] = x
BY AppendProperties

\* A step that leaves the portal alone keeps its invariant.
LEMMA PortalKept ==
  ASSUME PortalInv,
         UNCHANGED <<trigger, version, session, effective, subscribed, signals, events,
                     missed, instance>>,
         platform = "portal" => status'.effective = status.effective
  PROVE  PortalInv'
BY DEF PortalInv, platform, Known

\* A registration keeps the invariant of the portal.
LEMMA PortalRegistered ==
  ASSUME GrabInv, WorkerInv, PortalInv, platform # "none", UNCHANGED instance,
         NEW s \in Shortcut, NEW result \in Results(s), Register(s, result),
         platform = "portal" =>
           IF Ok(result) THEN status' = OutcomeStatus(s, result)
           ELSE status'.effective = status.effective
  PROVE  PortalInv'
<1>1. CASE platform # "portal"
  <2>1. UNCHANGED portalVars
    BY <1>1, Registers, ListenerAssumption DEF WorkerInv, Compositor, platform
  <2> QED
    BY <1>1, <2>1, PortalKept DEF portalVars
<1>2. CASE platform = "portal"
  <2>1. /\ result \in {"Unavailable", "Failed", "Active", "Unconfigured"}
        /\ PortalRegister(result) /\ platform' = platform
        /\ result \in PortalResults
    BY <1>2, Registers DEF platform, Results, Compositor
  <2>2. CASE result \in {"Unavailable", "Failed"}
    <3>1. UNCHANGED portalVars
      BY <1>2, <2>1, <2>2, PortalRegisters
    <3>2. status'.effective = status.effective
      BY <1>2, <2>2 DEF Ok, BindingStates, PortalInv
    <3> QED
      BY <3>1, <3>2, PortalKept DEF portalVars
  <2>3. CASE result \in {"Active", "Unconfigured"}
    <3>1. status'.effective = effective'
      BY <1>2, <2>1, <2>3, Registers
         DEF Ok, BindingStates, OutcomeStatus, Status
    <3>2. trigger' \in Triggers /\ effective' \in Triggers /\ missed' \in BOOLEAN
      BY <1>2, <2>1, PortalRegisters
    <3>3. CASE session = "none"
      BY <2>1, <2>3, <3>1, <3>2, <3>3 DEF PortalRegister, PortalInv, Known
    <3>4. CASE session # "none"
      BY <2>1, <3>1, <3>2, <3>4 DEF PortalRegister, PortalInv, Known, Lists
    <3> QED
      BY <3>3, <3>4
  <2> QED
    BY <2>1, <2>2, <2>3
<1> QED
  BY <1>1, <1>2

\* And so does every step of the listener: no change of the trigger is
\* overlooked for longer than its signal and its event take.
LEMMA PortalStep ==
  ASSUME GrabInv, WorkerInv, PortalInv, ListenerMoves
  PROVE  PortalInv'
<1>1. CASE Start
  <2>1. platform # "none" /\ UNCHANGED instance
    BY <1>1 DEF Start, boundVars, WorkerInv
  <2>2. PICK result \in Results(current) : Register(current, result)
          /\ status' = IF Ok(result) THEN OutcomeStatus(current, result)
                       ELSE Status(current, None, result)
    BY <1>1 DEF Start
  <2>3. platform = "portal" /\ ~Ok(result) => status'.effective = status.effective
    BY <2>2, ResultTypes DEF Results, PortalResults, Assigned, PortalInv, Status, Ok, Compositor
  <2> QED
    BY <2>1, <2>2, <2>3, PortalRegistered DEF WorkerInv
<1>2. CASE Rebind
  <2>1. platform # "none" /\ UNCHANGED instance /\ Head(cmds).shortcut \in Shortcut
    BY <1>2, TakenCommand DEF Rebind, boundVars, WorkerInv
  <2>2. PICK result \in Results(Head(cmds).shortcut) :
          /\ Register(Head(cmds).shortcut, result)
          /\ status' = RebindStatus(Head(cmds).shortcut, result)
    BY <1>2 DEF Rebind
  <2> QED
    BY <2>1, <2>2, PortalRegistered DEF RebindStatus
<1>3. CASE Recheck
  <2>1. platform # "none" /\ UNCHANGED instance
    BY <1>3, TakenCommand DEF Recheck, boundVars, WorkerInv
  <2>2. CASE Compositor
    BY <1>3, <2>1, <2>2, PortalRegistered DEF Recheck, WorkerInv, Compositor
  <2>3. CASE ~Compositor
    BY <1>3, <2>1, <2>3, PortalKept DEF Recheck, portalVars
  <2> QED
    BY <2>2, <2>3
<1>4. CASE ConfigurePortal \/ CheckCommand \/ Shutdown \/ Drained \/ EventsDrained
             \/ WaitWoken \/ \E answer \in {"activation", "none"} : WaitKey(answer)
  BY <1>4, PortalKept
     DEF ConfigurePortal, CheckCommand, Shutdown, Drained, EventsDrained, WaitWoken, WaitKey,
         portalVars, boundVars
<1>5. CASE BackendEvent
  <2>1. status'.effective = Head(events) /\ UNCHANGED platform
    BY <1>5 DEF BackendEvent, boundVars, platform, WorkerInv, StatusType
  <2>2. events \in Seq(Triggers) /\ signals \in Seq(Triggers \cup {Omitted})
    BY DEF PortalInv
  <2>3. /\ Head(events) \in Triggers /\ Tail(events) \in Seq(Triggers)
        /\ Tail(events) # <<>> => Tail(events)[Len(Tail(events))] = events[Len(events)]
        /\ Tail(events) = <<>> => Head(events) = events[Len(events)]
    BY <1>5, <2>2, QueueTail DEF BackendEvent
  <2> QED
    BY <1>5, <2>1, <2>3 DEF BackendEvent, PortalInv, Known
<1>6. CASE WaitPortal \/ WaitFails
  <2>1. status'.effective = status.effective
    BY <1>6 DEF WaitPortal, WaitFails, WorkerInv, StatusType
  <2> QED
    BY <1>6, <2>1, PortalKept DEF WaitPortal, WaitFails, portalVars, boundVars
<1>7. CASE ChangedStep
  <2>1. UNCHANGED <<status, platform>>
    BY <1>7 DEF ChangedStep, workerVars, boundVars, platform
  <2>2. ASSUME NEW next \in {"yes", "ended"}, Subscribe(next)
        PROVE  PortalInv'
    BY <2>1, <2>2 DEF Subscribe, PortalInv, Known
  <2>3. CASE ReadChanged
    <3>1. events \in Seq(Triggers) /\ signals \in Seq(Triggers \cup {Omitted})
          /\ signals # <<>> /\ signals' = Tail(signals) /\ trigger \in Triggers
          /\ UNCHANGED <<trigger, version, session, effective, subscribed>>
          /\ subscribed = "yes"
      BY <2>3 DEF PortalInv, ReadChanged
    <3>2. /\ Head(signals) \in Triggers \cup {Omitted}
          /\ Tail(signals) \in Seq(Triggers \cup {Omitted})
          /\ Tail(signals) # <<>> =>
               Tail(signals)[Len(Tail(signals))] = signals[Len(signals)]
          /\ Tail(signals) = <<>> => Head(signals) = signals[Len(signals)]
      BY <3>1, QueueTail
    <3> DEFINE x == IF Head(signals) = Omitted THEN trigger ELSE Head(signals)
    <3>3. CASE missed' = TRUE /\ events' = events
      BY <2>1, <3>1, <3>2, <3>3 DEF PortalInv, Known
    <3>4. CASE missed' = missed /\ events' = Append(events, x)
      <4>1. x \in Triggers
        BY <3>1, <3>2
      <4>2. /\ events' \in Seq(Triggers) /\ events' # <<>> /\ events'[Len(events')] = x
        BY <3>1, <3>4, <4>1, QueueAppend
      <4>3. Known /\ signals' = <<>> => x = trigger
        BY <3>1, <3>2 DEF PortalInv
      <4> HIDE DEF x
      <4> QED
        BY <2>1, <3>1, <3>2, <3>4, <4>1, <4>2, <4>3 DEF PortalInv, Known
    <3> QED
      BY <2>3, <3>3, <3>4 DEF ReadChanged
  <2> QED
    BY <1>7, <2>2, <2>3 DEF ChangedStep
<1>8. CASE Disturbance
  <2>1. UNCHANGED <<status, platform, instance>>
    BY <1>8 DEF Disturbance, workerVars, platform
  <2>2. ASSUME NEW t \in Triggers, NEW p \in {t, Omitted}, PortalChange(t, p)
        PROVE  PortalInv'
    <3>1. signals \in Seq(Triggers \cup {Omitted}) /\ events \in Seq(Triggers)
      BY DEF PortalInv
    <3>2. CASE subscribed = "yes"
      <4>1. signals' = Append(signals, p) /\ missed' = missed
        BY <2>2, <3>2 DEF PortalChange
      <4>2. /\ signals' \in Seq(Triggers \cup {Omitted})
            /\ signals' # <<>> /\ signals'[Len(signals')] = p
        BY <3>1, <4>1, QueueAppend
      <4> QED
        BY <2>1, <2>2, <3>2, <4>1, <4>2 DEF PortalChange, PortalInv, Known
    <3>3. CASE subscribed # "yes"
      BY <2>1, <2>2, <3>3 DEF PortalChange, PortalInv, Known
    <3> QED
      BY <3>2, <3>3
  <2>3. CASE PortalRestart \/ StreamEnds
    BY <2>1, <2>3 DEF PortalRestart, StreamEnds, PortalInv, Known
  <2>4. CASE UNCHANGED portalVars
    BY <2>1, <2>4, PortalKept DEF portalVars
  <2> QED
    BY <1>8, <2>2, <2>3, <2>4 DEF Disturbance
<1>9. CASE Keyboard
  BY <1>9, PortalKept DEF Keyboard, PortalActivated, portalVars, workerVars
<1>10. CASE Sends \/ GivesUp \/ LoadsFile \/ UNCHANGED runtimeVars
  BY <1>10, PortalKept
     DEF Sends, Send, GivesUp, LoadsFile, runtimeVars, portalVars, workerVars, boundVars
<1> QED
  BY <1>1, <1>2, <1>3, <1>4, <1>5, <1>6, <1>7, <1>8, <1>9, <1>10 DEF ListenerMoves, WorkerStep

-----------------------------------------------------------------------------
(* The calls *)

CoordInv == CallInv /\ CommandInv /\ AnswerInv

NoneOutstanding == pc # "gone" => \A i \in DOMAIN cmds : ~Outstanding(i)

\* What the call awaits and what the worker answers are as they were.
LEMMA CallKept ==
  ASSUME CoordInv,
         UNCHANGED <<coord, config, temp, edits, reply, cmds, instance>>,
         pc' = "gone" <=> pc = "gone",
         coord.at \in {"rebind", "rollback"} => registered'.shortcut = registered.shortcut,
         coord.at = "check" => status'.configured = status.configured,
         UNCHANGED checked
  PROVE  CoordInv'
<1>1. CallInv'
  BY DEF CoordInv, CallInv, platform, Compositor
<1>2. CommandInv'
  BY DEF CoordInv, CommandInv, Outstanding
<1>3. AnswerInv'
  BY DEF CoordInv, AnswerInv, platform
<1> QED
  BY <1>1, <1>2, <1>3 DEF CoordInv

\* While nobody holds the gate, and once the answer is there, no command is
\* awaited.
LEMMA NothingAwaited ==
  ASSUME CommandInv, cmds \in Seq(Cmds), coord.at \notin Awaits \/ reply # NoReply
  PROVE  NoneOutstanding
<1> SUFFICES ASSUME pc # "gone", NEW i \in DOMAIN cmds, Outstanding(i)
             PROVE  FALSE
  BY DEF NoneOutstanding
<1>1. cmds[i].kind = Serves(coord.at) /\ reply = NoReply
  BY DEF CommandInv
<1>2. cmds[i].kind \in CommandKinds
  BY DEF Cmds
<1>3. coord.at \notin Awaits
  BY <1>1
<1>4. Serves(coord.at) = "none"
  BY <1>3 DEF Serves, Awaits
<1> QED
  BY <1>1, <1>2, <1>4 DEF CommandKinds

\* A call ends, or the gate is released, with no command awaited.
LEMMA CallEnds ==
  ASSUME CoordInv, NoneOutstanding,
         coord' \in CallType, coord'.at = "end" \/ coord' = NoCall,
         config' \in File, edits' \in Nat, temp' = None,
         UNCHANGED <<cmds, pc>>
  PROVE  CoordInv'
<1>1. coord'.at \in {"end", "idle"}
  BY DEF NoCall
<1>2. CallInv'
  BY <1>1 DEF CoordInv, CallInv
<1>3. CommandInv'
  BY <1>1 DEF CoordInv, CommandInv, NoneOutstanding, Outstanding, Awaits
<1>4. AnswerInv'
  BY <1>1 DEF AnswerInv
<1> QED
  BY <1>2, <1>3, <1>4 DEF CoordInv

\* A call sends a command and awaits the answer.
LEMMA CallAsks ==
  ASSUME CoordInv, NoneOutstanding, WorkerInv, pc # "gone", UNCHANGED <<instance, registered, status>>,
         NEW kind \in CommandKinds \ {"Shutdown"}, NEW s \in Triggers,
         cmds' = Append(cmds, Command(kind, s)), pc' = pc, reply' = NoReply,
         kind \in {"Rebind", "CheckConflict"} => s \in Shortcut,
         coord' \in CallType, coord'.at \in Awaits, kind = Serves(coord'.at),
         config' \in File, edits' \in Nat,
         IF coord'.at = "rebind"
         THEN /\ temp' \in Document
              /\ LoadFromPath(temp') = coord'.target
              /\ coord'.before = registered.shortcut
         ELSE temp' = None,
         coord'.at \in {"rebind", "rollback"} => platform = "x11",
         coord'.at \in {"check", "reprobe"} => Compositor,
         IF coord'.at \in {"rebind", "rollback", "check", "reprobe"}
         THEN coord'.op = "set" /\ coord'.target \in Shortcut
         ELSE coord'.op # "set",
         coord'.at \in {"rebind", "check"} => s = coord'.target,
         coord'.at = "rollback" => s = LoadOrDefault(config'),
         coord'.at = "check" => status.configured # coord'.target
  PROVE  CoordInv'
<1>1. CallInv'
  BY DEF CallInv, platform, Compositor, Awaits
<1>2. CommandInv'
  <2> DEFINE c == Command(kind, s)
  <2>1. c \in Cmds /\ c.kind = kind /\ c.awaited = TRUE /\ c.shortcut = s
    BY DEF Command, Cmds
  <2>2. cmds \in Seq(Cmds)
    BY DEF WorkerInv
  <2>3. \A i \in DOMAIN cmds' : \/ i \in DOMAIN cmds /\ cmds'[i] = cmds[i]
                                \/ i = Len(cmds) + 1 /\ cmds'[i] = c
    BY <2>1, <2>2, CommandQueue
  <2> HIDE DEF c
  <2>4. ASSUME NEW i \in DOMAIN cmds', i \in DOMAIN cmds, cmds'[i] = cmds[i]
        PROVE  ~Outstanding(i)' /\ (cmds'[i].kind \notin {"Recheck", "Shutdown"} => cmds'[i].awaited)
    BY <2>4 DEF CoordInv, CommandInv, NoneOutstanding, Outstanding
  <2>5. \A i, j \in DOMAIN cmds' : Outstanding(i)' /\ Outstanding(j)' => i = j /\ cmds'[i] = c
    BY <2>3, <2>4
  <2>6. \A i \in DOMAIN cmds' : cmds'[i].kind \notin {"Recheck", "Shutdown"} => cmds'[i].awaited
    BY <2>1, <2>3, <2>4
  <2>7. reply' = NoReply /\ NoReply \in {NoReply, "free", "occupied", "error"}
    OBVIOUS
  <2>8. coord'.at = "rollback" => s = LoadOrDefault(config')
    OBVIOUS
  <2> QED
    BY <2>1, <2>5, <2>6, <2>7, <2>8 DEF CommandInv
<1>3. AnswerInv'
  BY DEF AnswerInv, NoReply
<1> QED
  BY <1>1, <1>2, <1>3 DEF CoordInv

\* The worker's answers are those the call awaits, and say what it did.
LEMMA WorkerServes ==
  ASSUME GrabInv, WorkerInv, PortalInv, CoordInv, WorkerStep,
         UNCHANGED <<coord, temp, edits>>
  PROVE  CoordInv'
<1>1. cmds \in Seq(Cmds)
  BY DEF WorkerInv
<1>2. CASE Start
  <2>1. UNCHANGED <<cmds, reply, instance, checked, config>> /\ pc' # "gone"
        /\ pc = "start" /\ platform # "none"
    <3>1. pc = "start" /\ pc' # "gone" /\ UNCHANGED <<cmds, reply, instance, config>>
      BY <1>2 DEF Start, boundVars
    <3>2. UNCHANGED checked
      BY <1>2 DEF Start, Register, compositorVars
    <3> QED
      BY <3>1, <3>2 DEF WorkerInv
  <2>2. PICK result \in Results(current) : Register(current, result)
          /\ status' = IF Ok(result) THEN OutcomeStatus(current, result)
                       ELSE Status(current, None, result)
    BY <1>2 DEF Start
  <2>3. coord.at = "check" => status'.configured = status.configured
    BY <2>2 DEF CoordInv, CallInv, WorkerInv, OutcomeStatus, Status
  <2>4. registered.shortcut = None
    BY <2>1 DEF WorkerInv, NoGrab
  <2>5. coord.at = "rebind" => reply # "Ok" /\ coord.before = None
    BY <2>1, <2>4, TextIsThere DEF CoordInv, CallInv, AnswerInv
  <2>6. ~(coord.at = "rollback" /\ edits = 0 /\ reply = "Ok")
    BY <2>1, <2>4, LoadTypes, TextIsThere DEF CoordInv, CallInv, AnswerInv
  <2>7. CallInv'
    BY <2>1 DEF CoordInv, CallInv, platform, Compositor
  <2>8. CommandInv'
    BY <2>1 DEF CoordInv, CommandInv, Outstanding
  <2>9. AnswerInv'
    BY <2>1, <2>3, <2>5, <2>6 DEF CoordInv, AnswerInv, platform
  <2> QED
    BY <2>7, <2>8, <2>9 DEF CoordInv
<1>3. ASSUME NEW kind \in CommandKinds \ {"Shutdown"}, Takes(kind),
             UNCHANGED <<pc, instance, config>>
      PROVE  /\ pc # "gone" /\ Head(cmds) = cmds[1] /\ Head(cmds) \in Cmds
             /\ Head(cmds).kind = kind
             /\ kind # "Recheck" => Head(cmds).awaited
             /\ Head(cmds).awaited =>
                  /\ kind = Serves(coord.at)
                  /\ reply = NoReply
                  /\ coord.at \in {"rebind", "check"} => Head(cmds).shortcut = coord.target
                  /\ coord.at = "rollback" /\ edits = 0 =>
                       Head(cmds).shortcut = LoadOrDefault(config)
             /\ CallInv'
             /\ (/\ Head(cmds).awaited =>
                    /\ coord.at \in Awaits \ {"check"} => reply' \in States \cup {"Ok"}
                    /\ coord.at = "check" => reply' \in {"free", "occupied", "error"}
                 /\ ~Head(cmds).awaited => reply' = reply) => CommandInv'
  <2>1. cmds # <<>> /\ cmds' = Tail(cmds) /\ pc # "gone" /\ Head(cmds).kind = kind
    BY <1>3 DEF Takes, Listening
  <2>2. /\ Head(cmds) \in Cmds /\ Head(cmds) = cmds[1] /\ 1 \in DOMAIN cmds
        /\ \A i \in DOMAIN cmds' : i + 1 \in DOMAIN cmds /\ cmds'[i] = cmds[i + 1]
    BY <1>1, <2>1, CommandQueue
  <2>3. Head(cmds).awaited => Outstanding(1)
    BY <1>3, <2>1, <2>2 DEF Outstanding
  <2>4. CallInv'
    BY <1>3 DEF CoordInv, CallInv, platform, Compositor
  <2>5. ASSUME Head(cmds).awaited =>
                 /\ coord.at \in Awaits \ {"check"} => reply' \in States \cup {"Ok"}
                 /\ coord.at = "check" => reply' \in {"free", "occupied", "error"},
               ~Head(cmds).awaited => reply' = reply
        PROVE  CommandInv'
    <3>1. DOMAIN cmds = 1..Len(cmds) /\ DOMAIN cmds' = 1..Len(cmds')
      BY <1>1, <2>1, TakenCommand, <1>3
    <3>2. CASE Head(cmds).awaited
      <4>1. \A i \in DOMAIN cmds' : ~Outstanding(i)'
        <5> SUFFICES ASSUME NEW i \in DOMAIN cmds', Outstanding(i)' PROVE FALSE
          OBVIOUS
        <5>1. Outstanding(i + 1) /\ i + 1 \in DOMAIN cmds
          BY <2>2 DEF Outstanding
        <5>2. i + 1 = 1
          BY <2>1, <2>2, <2>3, <3>2, <5>1 DEF CoordInv, CommandInv
        <5> QED
          BY <3>1, <5>2
      <4>2. \A i \in DOMAIN cmds' : cmds'[i].kind \notin {"Recheck", "Shutdown"} => cmds'[i].awaited
        BY <2>1, <2>2 DEF CoordInv, CommandInv
      <4> QED
        BY <1>3, <2>5, <3>2, <4>1, <4>2 DEF CommandInv
    <3>3. CASE ~Head(cmds).awaited
      <4>1. reply' = reply
        BY <2>5, <3>3
      <4>2. ASSUME NEW i \in DOMAIN cmds'
            PROVE  /\ cmds'[i].kind \notin {"Recheck", "Shutdown"} => cmds'[i].awaited
                   /\ Outstanding(i)' =>
                        /\ cmds'[i].kind = Serves(coord.at)
                        /\ reply = NoReply
                        /\ coord.at \in {"rebind", "check"} => cmds'[i].shortcut = coord.target
                        /\ coord.at = "rollback" /\ edits = 0 =>
                             cmds'[i].shortcut = LoadOrDefault(config)
                        /\ \A j \in DOMAIN cmds' : Outstanding(j)' => i = j
        <5>1. i + 1 \in DOMAIN cmds /\ cmds'[i] = cmds[i + 1] /\ Outstanding(i)' = Outstanding(i + 1)
          BY <2>2 DEF Outstanding
        <5>2. \A j \in DOMAIN cmds' : j + 1 \in DOMAIN cmds /\ (Outstanding(j)' => Outstanding(j + 1))
          BY <2>2 DEF Outstanding
        <5>3. \A j \in DOMAIN cmds' : i + 1 = j + 1 => i = j
          BY <3>1
        <5> QED
          BY <2>1, <5>1, <5>2, <5>3 DEF CoordInv, CommandInv
      <4> QED
        BY <1>3, <4>1, <4>2 DEF CoordInv, CommandInv
    <3> QED
      BY <3>2, <3>3
  <2> QED
    BY <2>1, <2>2, <2>3, <2>4, <2>5 DEF CoordInv, CommandInv
<1>4. CASE Rebind
  <2> DEFINE s == Head(cmds).shortcut
  <2>1. PICK result \in Results(s) : Register(s, result) /\ status' = RebindStatus(s, result)
          /\ Answer(Head(cmds), IF Ok(result) THEN "Ok" ELSE result)
    BY <1>4 DEF Rebind
  <2>2. Takes("Rebind") /\ UNCHANGED <<pc, instance, config>> /\ platform # "none"
    BY <1>4 DEF Rebind, boundVars, WorkerInv, Takes, Listening
  <2>3. /\ pc # "gone" /\ Head(cmds) \in Cmds
        /\ Serves(coord.at) = "Rebind" /\ reply = NoReply /\ Head(cmds).awaited
        /\ coord.at \in {"rebind", "check"} => s = coord.target
        /\ coord.at = "rollback" /\ edits = 0 => s = LoadOrDefault(config)
        /\ CallInv'
        /\ reply' \in States \cup {"Ok"} => CommandInv'
    BY <1>3, <2>2 DEF CommandKinds, Serves
  <2>4. s \in Shortcut
    BY <1>1, <2>2, TakenCommand
  <2> HIDE DEF s
  <2>5. result \in States
    BY <2>1, <2>2, <2>4, Registers DEF boundVars
  <2>6. reply' = IF Ok(result) THEN "Ok" ELSE result
    BY <2>1, <2>3 DEF Answer
  <2>7. coord.at \in {"reload", "rebind", "rollback", "reprobe"}
    BY <2>3 DEF Serves
  <2>8. CASE platform = "x11"
    <3>1. /\ result \in {"Active", "Failed", "Conflict"}
          /\ result = "Active" => registered'.shortcut = s
          /\ result # "Active" => registered' = registered
      BY <2>1, <2>2, <2>4, <2>8, Registers
    <3>2. reply' = "Ok" <=> result = "Active"
      BY <2>6, <3>1 DEF Ok, BindingStates
    <3>3. AnswerInv'
      BY <2>2, <2>3, <2>7, <3>1, <3>2 DEF CoordInv, AnswerInv, NoReply
    <3> QED
      BY <2>3, <2>5, <2>6, <3>3 DEF CoordInv
  <2>9. CASE platform # "x11"
    <3>1. coord.at \notin {"rebind", "rollback", "check"}
      BY <2>7, <2>9 DEF CoordInv, CallInv
    <3>2. AnswerInv'
      BY <3>1 DEF AnswerInv
    <3> QED
      BY <2>3, <2>5, <2>6, <3>2 DEF CoordInv
  <2> QED
    BY <2>8, <2>9
<1>5. CASE Recheck
  <2>1. Takes("Recheck") /\ UNCHANGED <<pc, instance, config>> /\ platform # "none"
        /\ reply' = IF Head(cmds).awaited THEN "Ok" ELSE reply
    BY <1>5 DEF Recheck, boundVars, WorkerInv, Takes, Listening, Answer
  <2>2. /\ CallInv' /\ CommandInv' /\ pc # "gone"
        /\ Head(cmds).awaited => coord.at = "recheck"
    BY <1>3, <2>1 DEF CommandKinds, Serves
  <2>3. /\ coord.at \in {"rebind", "rollback"} => UNCHANGED registered
        /\ coord.at = "check" => status'.configured = status.configured
        /\ UNCHANGED checked
    <3>1. CASE Compositor
      <4>1. PICK result \in Results(current) :
              Register(current, result) /\ status' = OutcomeStatus(current, result)
        BY <1>5, <3>1 DEF Recheck
      <4>2. UNCHANGED <<registered, checked>>
        BY <3>1, <4>1 DEF Register, x11Vars, Compositor
      <4>3. status'.configured = status.configured
        BY <3>1, <4>1 DEF OutcomeStatus, Status, WorkerInv
      <4> QED
        BY <4>2, <4>3
    <3>2. CASE ~Compositor
      BY <1>5, <3>2 DEF Recheck, x11Vars, compositorVars
    <3> QED
      BY <3>1, <3>2
  <2>4. coord.at \in {"rebind", "rollback", "check"} => reply' = reply
    BY <2>1, <2>2
  <2>5. AnswerInv'
    BY <2>1, <2>2, <2>3, <2>4 DEF CoordInv, AnswerInv, platform
  <2> QED
    BY <2>2, <2>5 DEF CoordInv
<1>6. CASE ConfigurePortal
  <2>1. Takes("ConfigurePortal") /\ UNCHANGED <<pc, instance, config>>
        /\ (Head(cmds).awaited => reply' \in {"Ok", "Failed", "Unavailable"})
    BY <1>6 DEF ConfigurePortal, boundVars, Answer, ConfigureResult
  <2>2. CallInv' /\ coord.at = "portal" /\ CommandInv'
    BY <1>3, <2>1 DEF CommandKinds, Serves, States
  <2>3. AnswerInv'
    BY <2>2 DEF AnswerInv
  <2> QED
    BY <2>2, <2>3 DEF CoordInv
<1>7. CASE CheckCommand
  <2>1. Takes("CheckConflict") /\ UNCHANGED <<pc, instance, config, status>>
        /\ reply' = IF Head(cmds).awaited THEN Check(Head(cmds).shortcut) ELSE reply
    BY <1>7 DEF CheckCommand, boundVars, Answer
  <2>2. \A s : Check(s) \in {"free", "occupied", "error"}
    BY DEF Check, CheckConflict
  <2>3. CallInv' /\ coord.at = "check" /\ CommandInv' /\ pc # "gone" /\ reply = NoReply
        /\ reply' = Check(coord.target) /\ Head(cmds).shortcut = coord.target
    BY <1>3, <2>1, <2>2 DEF CommandKinds, Serves
  <2>4. coord.target \in Shortcut /\ Compositor /\ status.configured # coord.target
    BY <2>3 DEF CoordInv, CallInv, AnswerInv
  <2>5. inspected # coord.target
    BY <2>4, TextIsThere DEF WorkerInv
  <2>6. reply' = "free" => /\ Answers(platform, ipc)
                           /\ LiveDiagnosis(platform, ipc, live, coord.target)
                                \notin {"Conflict", "Opaque"}
    BY <2>3, <2>5 DEF Check, CheckConflict
  <2>7. LiveDiagnosis(platform, "up", live, coord.target)
          \in {"Conflict", "Opaque", "Matched", "NotFound"}
    BY DEF LiveDiagnosis, SwayDiagnosis, HyprlandDiagnosis
  <2>8. /\ checked'.shortcut = coord.target
        /\ checked'.ipc = ipc
        /\ checked'.found = LiveDiagnosis(platform, "up", live, coord.target)
    <3>1. checked' = Bound(Head(cmds).shortcut)
      BY <1>7 DEF CheckCommand
    <3> QED
      BY <2>3, <3>1 DEF Bound
  <2>9. reply' = "free" => /\ ipc # "down"
                           /\ ipc = "up" => checked'.found \in {"Matched", "NotFound"}
    BY <2>6, <2>7, <2>8 DEF Answers
  <2>10. AnswerInv'
    BY <2>1, <2>2, <2>3, <2>8, <2>9 DEF AnswerInv, NoReply, platform
  <2> QED
    BY <2>3, <2>10 DEF CoordInv
<1>8. CASE Shutdown
  <2>1. pc' = "gone" /\ UNCHANGED <<instance, config, reply, status, checked>>
    BY <1>8 DEF Shutdown, boundVars, compositorVars
  <2>2. CallInv'
    BY <2>1 DEF CoordInv, CallInv, platform, Compositor
  <2>3. CommandInv'
    BY <2>1 DEF CoordInv, CommandInv
  <2>4. AnswerInv'
    BY <2>1 DEF CoordInv, AnswerInv, platform
  <2> QED
    BY <2>2, <2>3, <2>4 DEF CoordInv
<1>9. CASE Drained \/ EventsDrained \/ BackendEvent \/ WaitWoken \/ WaitPortal \/ WaitFails
           \/ \E answer \in {"activation", "none"} : WaitKey(answer)
  <2>1. UNCHANGED <<cmds, reply, instance, config, checked, registered>>
        /\ pc # "gone" /\ pc' # "gone"
    BY <1>9
       DEF Drained, EventsDrained, BackendEvent, WaitWoken, WaitPortal, WaitFails, WaitKey,
           x11Vars, compositorVars, boundVars, X11Woken, X11Event
  <2>2. status'.configured = status.configured
    BY <1>9
       DEF Drained, EventsDrained, BackendEvent, WaitWoken, WaitPortal, WaitFails, WaitKey,
           WorkerInv, StatusType
  <2> QED
    BY <2>1, <2>2, CallKept
<1> QED
  BY <1>2, <1>4, <1>5, <1>6, <1>7, <1>8, <1>9 DEF WorkerStep

\* An action of the setup is a move of the listener, and most are steps of it.
LEMMA AsksMoves ==
  ASSUME NEW caller, NEW op, NEW s, NEW at, NEW kind \in CommandKinds, NEW arg \in Triggers,
         NEW gone, Asks(caller, op, s, at, kind, arg, gone),
         kind \in {"Rebind", "CheckConflict"} => arg \in Shortcut
  PROVE  /\ Sends \/ UNCHANGED runtimeVars
         /\ UNCHANGED instance
         /\ IF pc = "gone" THEN Ends(caller, op, s, gone) /\ UNCHANGED runtimeVars
            ELSE /\ At(caller, op, s, at, "none")
                 /\ reply' = NoReply
                 /\ cmds' = Append(cmds, Command(kind, arg))
                 /\ UNCHANGED <<pc, registered, status>>
BY DEF Asks, Sends, Send, runtimeVars, boundVars

\* The record of a call.
LEMMA CallRecord ==
  ASSUME GrabInv, CallInv, NEW caller \in {"none", "other", "toggle", "popup", "poll"},
         NEW op \in Ops, NEW s \in Triggers, NEW at \in Awaits \cup {"idle", "end"},
         NEW answer \in CallAnswers, At(caller, op, s, at, answer)
  PROVE  /\ coord' \in CallType
         /\ coord'.at = at /\ coord'.op = op /\ coord'.target = s /\ coord'.answer = answer
         /\ coord'.before = IF Idle THEN registered.shortcut ELSE coord.before
<1>1. registered.shortcut \in Triggers
  BY DEF GrabInv, NoGrab, Triggers
<1>2. coord.before \in Triggers
  BY DEF CallInv, CallType
<1> QED
  BY <1>1, <1>2 DEF At, CallType

CallerNames == {"other", "toggle", "popup", "poll"}

\* A call that begins has the gate to itself.
LEMMA BeginsIdle ==
  ASSUME CoordInv, WorkerInv, NEW caller, Begins(caller)
  PROVE  /\ Idle /\ NoneOutstanding /\ temp = None /\ coord.at = "idle" /\ edits' = edits
         /\ edits \in Nat /\ config \in File
BY NothingAwaited DEF Begins, Idle, NoCall, CoordInv, CallInv, WorkerInv, Awaits

\* A call that ends at once, with what it found in the files.
LEMMA EndsAtOnce ==
  ASSUME GrabInv, WorkerInv, CoordInv, NEW caller \in CallerNames, Begins(caller),
         NEW op \in Ops, NEW s \in Triggers, NEW answer \in CallAnswers,
         Ends(caller, op, s, answer), UNCHANGED <<cmds, pc, temp>>, config' \in File
  PROVE  CoordInv'
<1>1. coord' \in CallType /\ coord'.at = "end"
  BY CallRecord DEF Ends, CallerNames, CoordInv
<1> QED
  BY <1>1, BeginsIdle, CallEnds

\* reload, recheck and configure_portal.
LEMMA SimpleCall ==
  ASSUME GrabInv, WorkerInv, CoordInv, NEW caller \in CallerNames,
         Reload(caller) \/ RecheckCall(caller) \/ PortalCall(caller)
  PROVE  CoordInv' /\ ListenerMoves /\ UNCHANGED instance
<1> SUFFICES ASSUME NEW op \in {"reload", "recheck", "portal"},
                    NEW kind \in {"Rebind", "Recheck", "ConfigurePortal"},
                    kind = Serves(op), NEW s \in Triggers, NEW arg \in Triggers,
                    kind = "Rebind" => arg \in Shortcut, Begins(caller),
                    \/ Asks(caller, op, s, op, kind, arg, "Gone")
                    \/ Ends(caller, op, s, "ConfigError") /\ UNCHANGED runtimeVars,
                    config' \in File, temp' = temp
             PROVE  CoordInv' /\ ListenerMoves /\ UNCHANGED instance
  <2>1. CASE Reload(caller)
    <3> DEFINE x == LoadFromPath(EnsureExists(config))
    <3>1. EnsureExists(config) \in File
      BY LoadTypes DEF CoordInv, CallInv
    <3>2. x \in {None} \cup Shortcut
      BY <3>1, LoadTypes
    <3>3. config' \in File /\ temp' = temp /\ Begins(caller)
      BY <2>1, <3>1 DEF Reload
    <3>4. \/ x = None /\ Ends(caller, "reload", None, "ConfigError") /\ UNCHANGED runtimeVars
          \/ x # None /\ Asks(caller, "reload", x, "reload", "Rebind", x, "Gone")
      BY <2>1 DEF Reload
    <3> HIDE DEF x
    <3>5. "Rebind" = Serves("reload")
      BY DEF Serves
    <3>6. ASSUME NEW arg \in Shortcut, NEW s \in Triggers,
                 \/ Asks(caller, "reload", s, "reload", "Rebind", arg, "Gone")
                 \/ Ends(caller, "reload", s, "ConfigError") /\ UNCHANGED runtimeVars
          PROVE  CoordInv' /\ ListenerMoves /\ UNCHANGED instance
      BY <3>3, <3>5, <3>6 DEF Triggers
    <3>7. CASE x = None
      BY <3>4, <3>6, <3>7, ConfigAssumption DEF Triggers
    <3>8. CASE x # None
      BY <3>2, <3>4, <3>6, <3>8 DEF Triggers
    <3> QED
      BY <3>7, <3>8
  <2>2. CASE RecheckCall(caller)
    BY <2>2 DEF RecheckCall, Serves, Triggers, CoordInv, CallInv
  <2>3. CASE PortalCall(caller)
    BY <2>3 DEF PortalCall, Serves, Triggers, CoordInv, CallInv
  <2> QED
    BY <2>1, <2>2, <2>3
<1>1. op \in Ops /\ op \in Awaits /\ op \notin {"rebind", "rollback", "check", "reprobe", "set"}
  BY DEF Ops, Awaits
<1>2. /\ Idle /\ NoneOutstanding /\ temp = None /\ edits' \in Nat
  BY BeginsIdle
<1>3. ASSUME NEW answer \in {"Gone", "ConfigError"}, Ends(caller, op, s, answer),
             UNCHANGED runtimeVars
      PROVE  CoordInv' /\ ListenerMoves /\ UNCHANGED instance
  <2>1. answer \in CallAnswers
    BY DEF CallAnswers
  <2> QED
    BY <1>1, <1>3, <2>1, EndsAtOnce DEF ListenerMoves, runtimeVars, workerVars, boundVars
<1>4. CASE Asks(caller, op, s, op, kind, arg, "Gone")
  <2>1. kind \in CommandKinds \ {"Shutdown"}
    BY DEF CommandKinds
  <2>2. CASE pc = "gone"
    BY <1>3, <1>4, <2>1, <2>2, AsksMoves
  <2>3. CASE pc # "gone"
    <3>1. /\ At(caller, op, s, op, "none") /\ reply' = NoReply
          /\ cmds' = Append(cmds, Command(kind, arg))
          /\ UNCHANGED <<pc, registered, status, instance>>
          /\ ListenerMoves
      BY <1>4, <2>1, <2>3, AsksMoves DEF ListenerMoves
    <3>2. coord' \in CallType /\ coord'.at = op /\ coord'.op = op
      BY <1>1, <3>1, CallRecord DEF CallerNames, CoordInv, CallAnswers
    <3> QED
      BY <1>1, <1>2, <2>1, <2>3, <3>1, <3>2, CallAsks
  <2> QED
    BY <2>2, <2>3
<1> QED
  BY <1>3, <1>4

\* CommitCompositor asks the worker or ends; the gate has nothing awaited.
LEMMA CommitsCompositor ==
  ASSUME GrabInv, WorkerInv, CoordInv, NoneOutstanding, Compositor, temp = None,
         NEW caller \in CallerNames \cup {"none"}, NEW s \in Shortcut, CommitCompositor(caller, s),
         edits' = edits
  PROVE  CoordInv' /\ ListenerMoves /\ UNCHANGED instance
<1>1. config \in File /\ edits \in Nat /\ temp' = None
  BY DEF CoordInv, CallInv, CommitCompositor
<1>2. /\ "set" \in Ops /\ s \in Triggers /\ "Rebind" = Serves("reprobe") /\ "reprobe" \in Awaits
      /\ "Gone" \in CallAnswers /\ "ConfigError" \in CallAnswers /\ "none" \in CallAnswers
      /\ "Rebind" \in CommandKinds \ {"Shutdown"}
  BY DEF Ops, Triggers, Serves, Awaits, CallAnswers, CommandKinds
<1>3. ASSUME NEW answer \in CallAnswers, Ends(caller, "set", s, answer), UNCHANGED runtimeVars,
             config' \in File
      PROVE  CoordInv' /\ ListenerMoves /\ UNCHANGED instance
  <2>1. coord' \in CallType /\ coord'.at = "end"
    BY <1>2, <1>3, CallRecord DEF Ends, CallerNames, CoordInv
  <2> QED
    BY <1>1, <1>3, <2>1, CallEnds DEF ListenerMoves, runtimeVars, workerVars, boundVars
<1>4. CASE /\ PrepareNewConfig(config, s) # None
           /\ config' = PrepareNewConfig(config, s)
           /\ Asks(caller, "set", s, "reprobe", "Rebind", s, "Gone")
  <2>1. config' \in File
    BY <1>1, <1>4, PreparedIsRead DEF File
  <2>2. CASE pc = "gone"
    BY <1>2, <1>3, <1>4, <2>1, <2>2, AsksMoves
  <2>3. CASE pc # "gone"
    <3>1. /\ At(caller, "set", s, "reprobe", "none") /\ reply' = NoReply
          /\ cmds' = Append(cmds, Command("Rebind", s))
          /\ UNCHANGED <<pc, registered, status, instance>>
          /\ ListenerMoves
      BY <1>2, <1>4, <2>3, AsksMoves DEF ListenerMoves
    <3>2. coord' \in CallType /\ coord'.at = "reprobe" /\ coord'.op = "set" /\ coord'.target = s
      BY <1>2, <3>1, CallRecord DEF CallerNames, CoordInv
    <3> QED
      BY <1>1, <1>2, <2>1, <2>3, <3>1, <3>2, CallAsks
  <2> QED
    BY <2>2, <2>3
<1>5. CASE /\ config' = EnsureExists(config)
           /\ Ends(caller, "set", s, "ConfigError")
           /\ UNCHANGED runtimeVars
  BY <1>1, <1>2, <1>3, <1>5, LoadTypes
<1> QED
  BY <1>4, <1>5 DEF CommitCompositor

\* set_shortcut.
LEMMA SetCall ==
  ASSUME GrabInv, WorkerInv, CoordInv, NEW caller \in CallerNames, NEW s \in Shortcut,
         \/ SetRefused(caller, s) \/ SetNotPrepared(caller, s)
         \/ SetNative(caller, s) \/ SetCompositor(caller, s)
  PROVE  CoordInv' /\ ListenerMoves /\ UNCHANGED instance
<1>1. /\ Begins(caller) /\ Idle /\ NoneOutstanding /\ temp = None /\ edits' = edits
      /\ edits \in Nat /\ config \in File
  BY BeginsIdle DEF SetRefused, SetNotPrepared, SetNative, SetCompositor
<1>2. /\ "set" \in Ops /\ s \in Triggers
      /\ "Rebind" = Serves("rebind") /\ "CheckConflict" = Serves("check")
      /\ "rebind" \in Awaits /\ "check" \in Awaits
      /\ "Gone" \in CallAnswers /\ "ConfigError" \in CallAnswers /\ "none" \in CallAnswers
      /\ "Refused" \in CallAnswers
      /\ "Rebind" \in CommandKinds \ {"Shutdown"}
      /\ "CheckConflict" \in CommandKinds \ {"Shutdown"}
  BY DEF Ops, Triggers, Serves, Awaits, CallAnswers, CommandKinds
<1>3. ASSUME NEW answer \in CallAnswers, Ends(caller, "set", s, answer), UNCHANGED runtimeVars,
             config' \in File, temp' = temp
      PROVE  CoordInv' /\ ListenerMoves /\ UNCHANGED instance
  BY <1>1, <1>2, <1>3, EndsAtOnce DEF ListenerMoves, runtimeVars, workerVars, boundVars
<1>4. EnsureExists(config) \in File
  BY <1>1, LoadTypes
<1>5. CASE SetRefused(caller, s)
  BY <1>1, <1>2, <1>3, <1>5
     DEF SetRefused, lvars, runtimeVars, x11Vars, portalVars, compositorVars, workerVars,
         boundVars
<1>6. CASE SetNotPrepared(caller, s)
  BY <1>2, <1>3, <1>4, <1>6 DEF SetNotPrepared
<1>7. CASE SetNative(caller, s)
  <2>1. /\ PrepareNewConfig(config, s) \in Document
        /\ LoadFromPath(PrepareNewConfig(config, s)) = s
        /\ platform = "x11"
    BY <1>1, <1>7, PreparedIsRead DEF SetNative
  <2>2. config' \in File /\ Asks(caller, "set", s, "rebind", "Rebind", s, "Gone")
    BY <1>4, <1>7 DEF SetNative
  <2>3. CASE pc = "gone"
    <3>1. temp' = temp
      BY <1>1, <1>7, <2>3 DEF SetNative
    <3> QED
      BY <1>2, <1>3, <2>2, <2>3, <3>1, AsksMoves
  <2>4. CASE pc # "gone"
    <3>1. /\ At(caller, "set", s, "rebind", "none") /\ reply' = NoReply
          /\ cmds' = Append(cmds, Command("Rebind", s))
          /\ UNCHANGED <<pc, registered, status, instance>>
          /\ ListenerMoves
      BY <1>2, <2>2, <2>4, AsksMoves DEF ListenerMoves
    <3>2. coord' \in CallType /\ coord'.at = "rebind" /\ coord'.op = "set" /\ coord'.target = s
          /\ coord'.before = registered.shortcut
      BY <1>1, <1>2, <3>1, CallRecord DEF CallerNames, CoordInv
    <3>3. temp' = PrepareNewConfig(config, s)
      BY <1>7, <2>4 DEF SetNative
    <3> QED
      BY <1>1, <1>2, <2>1, <2>2, <2>4, <3>1, <3>2, <3>3, CallAsks
  <2> QED
    BY <2>3, <2>4
<1>8. CASE SetCompositor(caller, s)
  <2>1. CASE status.configured = s
    BY <1>1, <1>8, <2>1, CommitsCompositor DEF SetCompositor
  <2>2. CASE status.configured # s
    <3>1. /\ Compositor /\ config' \in File /\ temp' = temp
          /\ Asks(caller, "set", s, "check", "CheckConflict", s, "Gone")
      BY <1>4, <1>8, <2>2 DEF SetCompositor
    <3>2. CASE pc = "gone"
      BY <1>2, <1>3, <3>1, <3>2, AsksMoves
    <3>3. CASE pc # "gone"
      <4>1. /\ At(caller, "set", s, "check", "none") /\ reply' = NoReply
            /\ cmds' = Append(cmds, Command("CheckConflict", s))
            /\ UNCHANGED <<pc, registered, status, instance>>
            /\ ListenerMoves
        BY <1>2, <3>1, <3>3, AsksMoves DEF ListenerMoves
      <4>2. coord' \in CallType /\ coord'.at = "check" /\ coord'.op = "set" /\ coord'.target = s
        BY <1>2, <4>1, CallRecord DEF CallerNames, CoordInv
      <4> QED
        BY <1>1, <1>2, <2>2, <3>1, <3>3, <4>1, <4>2, CallAsks
    <3> QED
      BY <3>2, <3>3
  <2> QED
    BY <2>1, <2>2
<1> QED
  BY <1>5, <1>6, <1>7, <1>8

\* The gate's holder goes on, or gives the gate back.
LEMMA CallGoesOn ==
  ASSUME GrabInv, WorkerInv, CoordInv, Advance \/ Return \/ RecheckTimesOut
  PROVE  CoordInv' /\ ListenerMoves /\ UNCHANGED instance
<1> DEFINE Still == UNCHANGED <<lvars, calls, edits>>
<1>1. Still => /\ ListenerMoves /\ UNCHANGED <<instance, cmds, pc, config, edits>>
  BY DEF ListenerMoves, lvars, runtimeVars, x11Vars, portalVars, compositorVars, workerVars,
         boundVars
<1>2. config \in File /\ edits \in Nat /\ coord \in CallType
  BY DEF CoordInv, CallInv
<1>3. ASSUME NEW answer \in CallAnswers, coord.at \in Awaits, End(answer)
      PROVE  coord' \in CallType /\ coord'.at = "end"
  <2>1. ~Idle
    BY <1>3 DEF Idle, NoCall, Awaits
  <2> QED
    BY <1>2, <1>3, <2>1 DEF End, Ends, At, CallType
<1>4. cmds \in Seq(Cmds)
  BY DEF WorkerInv
<1>5. reply # NoReply => NoneOutstanding
  BY <1>4, NothingAwaited DEF CoordInv
<1> HIDE DEF Still
<1>6. ASSUME NEW answer \in CallAnswers, coord.at \in Awaits, End(answer), NoneOutstanding,
             config' \in File, temp' = None, UNCHANGED <<cmds, pc, edits>>
      PROVE  CoordInv'
  BY <1>2, <1>3, <1>6, CallEnds
<1>7. coord.at \in Awaits \ {"check"} => reply \in CallAnswers
  BY DEF CoordInv, CommandInv, CallAnswers, NoReply
<1>8. CASE Return
  <2>1. NoneOutstanding /\ coord' = NoCall /\ temp' = None /\ UNCHANGED <<cmds, pc, config, edits>>
    BY <1>4, <1>8, NothingAwaited
       DEF Return, Awaits, CoordInv, CallInv, lvars, workerVars
  <2>2. NoCall \in CallType
    BY DEF NoCall, CallType, Triggers, CallAnswers
  <2>3. Still
    BY <1>8 DEF Return, Still
  <2> QED
    BY <1>1, <1>2, <2>1, <2>2, <2>3, CallEnds
<1>9. CASE Closed
  <2>1. NoneOutstanding /\ Still /\ temp' = None
    BY <1>9 DEF Closed, NoneOutstanding, Still
  <2>2. {"Gone", "DoubleFailure"} \subseteq CallAnswers
    BY DEF CallAnswers
  <2> QED
    BY <1>1, <1>2, <1>6, <1>9, <2>1, <2>2 DEF Closed
<1>10. CASE Answered
  <2>1. Still /\ coord.at \in Awaits \ {"check"} /\ reply # NoReply /\ End(reply) /\ temp' = None
    BY <1>10 DEF Answered, Still, Awaits, CoordInv, CallInv
  <2> QED
    BY <1>1, <1>2, <1>5, <1>6, <1>7, <2>1
<1>11. CASE RebindFailed
  <2>1. Still /\ coord.at \in Awaits \ {"check"} /\ reply # NoReply /\ End(reply) /\ temp' = None
    BY <1>11 DEF RebindFailed, Still, Awaits
  <2> QED
    BY <1>1, <1>2, <1>5, <1>6, <1>7, <2>1
<1>12. CASE Commit
  <2>1. /\ coord.at \in Awaits /\ reply # NoReply /\ End("Ok") /\ temp' = None
        /\ UNCHANGED runtimeVars /\ edits' = edits /\ config' = temp
    BY <1>12 DEF Commit, Awaits, NoReply
  <2>2. config' \in File
    BY <1>12, <2>1 DEF Commit, CoordInv, CallInv, File
  <2>3. "Ok" \in CallAnswers
    BY DEF CallAnswers
  <2> QED
    BY <1>5, <1>6, <2>1, <2>2, <2>3 DEF ListenerMoves, runtimeVars, workerVars, boundVars
<1>13. CASE CommitFailed
  <2> DEFINE arg == LoadOrDefault(config)
  <2>1. /\ coord.at = "rebind" /\ reply # NoReply /\ temp' = None /\ config' = config
        /\ edits' = edits /\ arg \in Shortcut
        /\ Asks(coord.caller, "set", coord.target, "rollback", "Rebind", arg, "DoubleFailure")
    BY <1>2, <1>13, LoadTypes DEF CommitFailed, NoReply
  <2>2. /\ coord.op = "set" /\ coord.target \in Shortcut /\ platform = "x11" /\ NoneOutstanding
    BY <1>5, <2>1 DEF CoordInv, CallInv
  <2>3. /\ "Rebind" \in CommandKinds \ {"Shutdown"} /\ "Rebind" = Serves("rollback")
        /\ "rollback" \in Awaits /\ arg \in Triggers /\ coord.at \in Awaits
        /\ "DoubleFailure" \in CallAnswers /\ "none" \in CallAnswers
    BY <2>1 DEF CommandKinds, Serves, Awaits, Triggers, CallAnswers
  <2> HIDE DEF arg
  <2>4. CASE pc = "gone"
    <3>1. End("DoubleFailure") /\ UNCHANGED runtimeVars
      BY <2>1, <2>2, <2>3, <2>4, AsksMoves DEF End
    <3> QED
      BY <1>2, <1>6, <2>1, <2>2, <2>3, <3>1
         DEF ListenerMoves, runtimeVars, workerVars, boundVars
  <2>5. CASE pc # "gone"
    <3>1. /\ At(coord.caller, "set", coord.target, "rollback", "none") /\ reply' = NoReply
          /\ cmds' = Append(cmds, Command("Rebind", arg))
          /\ UNCHANGED <<pc, registered, status, instance>>
          /\ ListenerMoves
      BY <2>1, <2>3, <2>5, AsksMoves DEF ListenerMoves
    <3>2. ~Idle
      BY <2>1 DEF Idle, NoCall
    <3>3. coord' \in CallType /\ coord'.at = "rollback" /\ coord'.op = "set"
          /\ coord'.target = coord.target
      BY <1>2, <2>2, <2>3, <3>1, <3>2 DEF At, CallType, Ops
    <3>4. arg = LoadOrDefault(config')
      BY <2>1 DEF arg
    <3> QED
      BY <1>2, <2>1, <2>2, <2>3, <2>5, <3>1, <3>3, <3>4, CallAsks
  <2> QED
    BY <2>4, <2>5
<1>14. CASE RollbackEnds
  <2>1. /\ Still /\ coord.at \in Awaits /\ reply # NoReply /\ temp' = None
        /\ End(IF reply = "Ok" THEN "RolledBack" ELSE "DoubleFailure")
    BY <1>14 DEF RollbackEnds, Still, Awaits, CoordInv, CallInv
  <2>2. {"RolledBack", "DoubleFailure"} \subseteq CallAnswers
    BY DEF CallAnswers
  <2> QED
    BY <1>1, <1>2, <1>5, <1>6, <2>1, <2>2
<1>15. CASE PreflightRefused
  <2>1. /\ Still /\ coord.at \in Awaits /\ reply # NoReply /\ temp' = None
        /\ End(IF reply = "occupied" THEN "Occupied" ELSE "Unchecked")
    BY <1>15 DEF PreflightRefused, Still, Awaits, CoordInv, CallInv, NoReply
  <2>2. {"Occupied", "Unchecked"} \subseteq CallAnswers
    BY DEF CallAnswers
  <2> QED
    BY <1>1, <1>2, <1>5, <1>6, <2>1, <2>2
<1>16. CASE PreflightCleared
  <2>1. /\ coord.at = "check" /\ reply # NoReply /\ edits' = edits
        /\ CommitCompositor(coord.caller, coord.target)
    BY <1>16 DEF PreflightCleared, NoReply
  <2>2. Compositor /\ coord.target \in Shortcut /\ temp = None
    BY <2>1 DEF CoordInv, CallInv
  <2>3. coord.caller \in CallerNames \cup {"none"}
    BY <1>2 DEF CallType, CallerNames
  <2> QED
    BY <1>5, <2>1, <2>2, <2>3, CommitsCompositor
<1>17. CASE RecheckTimesOut
  <2>1. GivesUp /\ cmds' = GivenUp /\ UNCHANGED <<pc, config, temp, edits, instance>>
        /\ coord.at = "recheck" /\ coord' = NoCall
    BY <1>17 DEF RecheckTimesOut, GivesUp, GivenUp, boundVars
  <2>2. CallInv'
    <3>1. NoCall \in CallType
      BY DEF NoCall, CallType, Triggers, CallAnswers
    <3> QED
      BY <1>2, <2>1, <3>1 DEF CoordInv, CallInv, NoCall
  <2>3. CommandInv'
    <3>1. ASSUME pc # "gone", NEW i \in DOMAIN cmds'
          PROVE  ~cmds'[i].awaited /\ cmds'[i].kind \in {"Recheck", "Shutdown"}
      <4>1. i \in DOMAIN cmds /\ cmds'[i].kind = cmds[i].kind /\ cmds'[i].awaited = FALSE
        BY <1>4, <2>1, CommandQueue
      <4>2. cmds[i].kind \notin {"Recheck", "Shutdown"} => Outstanding(i)
        BY <3>1, <4>1 DEF CoordInv, CommandInv, Outstanding
      <4>3. Outstanding(i) => cmds[i].kind = "Recheck"
        BY <2>1, <3>1, <4>1 DEF CoordInv, CommandInv, Serves
      <4> QED
        BY <4>1, <4>2, <4>3
    <3> QED
      BY <2>1, <3>1 DEF CommandInv, Outstanding, NoCall, Awaits
  <2>4. AnswerInv'
    BY <2>1 DEF AnswerInv, NoCall
  <2> QED
    BY <2>1, <2>2, <2>3, <2>4 DEF CoordInv, ListenerMoves
<1> QED
  BY <1>8, <1>9, <1>10, <1>11, <1>12, <1>13, <1>14, <1>15, <1>16, <1>17 DEF Advance

-----------------------------------------------------------------------------
(* The steps of the setup *)

\* What leaves the listener, the call and the files as they are.
LEMMA Elsewhere ==
  ASSUME CoordInv, UNCHANGED <<runtimeVars, config, coord, temp, edits>>
  PROVE  CoordInv' /\ ListenerMoves /\ UNCHANGED instance
<1>1. UNCHANGED <<coord, config, temp, edits, reply, cmds, instance, pc, registered, status,
                  checked>>
  BY DEF runtimeVars, workerVars, boundVars, x11Vars, compositorVars
<1>2. CoordInv'
  BY <1>1, CallKept
<1> QED
  BY <1>1, <1>2 DEF ListenerMoves

\* What other programs, the user, the portal's task and the daemon's stop do.
LEMMA WorldMoves ==
  ASSUME WorkerInv, CoordInv, World \/ ReadSignals, ~RecheckTimesOut
  PROVE  CoordInv' /\ ListenerMoves /\ UNCHANGED instance
<1>1. CASE Disturbance /\ UNCHANGED <<coord, temp, calls, edits>>
  <2>1. /\ UNCHANGED <<coord, config, temp, edits, reply, cmds, instance, pc, status>>
        /\ UNCHANGED checked
        /\ platform = "x11" => registered' = registered
    BY <1>1
       DEF Disturbance, workerVars, HangUp, OtherGrabs, OtherReleases, Compositor, platform,
           compositorVars, EditBindings, IpcChanges
  <2>2. coord.at \in {"rebind", "rollback"} => platform = "x11"
    BY DEF CoordInv, CallInv
  <2> QED
    BY <1>1, <2>1, <2>2, CallKept DEF ListenerMoves
<1>2. CASE (Keyboard \/ ChangedStep) /\ UNCHANGED <<coord, temp, calls, edits>>
  <2>1. UNCHANGED <<coord, config, temp, edits, reply, cmds, instance, pc, registered, status,
                    checked>>
    BY <1>2
       DEF Keyboard, ChangedStep, workerVars, boundVars, compositorVars, x11Vars, Press,
           AutoRepeat, Release
  <2> QED
    BY <1>2, <2>1, CallKept DEF ListenerMoves
<1>3. ASSUME NEW new \in Edits, EditConfig(new)
      PROVE  CoordInv' /\ ListenerMoves /\ UNCHANGED instance
  <2>1. /\ UNCHANGED runtimeVars /\ UNCHANGED <<coord, temp>> /\ config' \in File
        /\ edits' = edits + 1 /\ edits' \in Nat /\ edits' # 0
    BY <1>3, CoordinatorAssumption DEF EditConfig, CoordInv, CallInv
  <2>2. UNCHANGED <<instance, pc, cmds, reply, status, registered, checked>>
    BY <2>1 DEF runtimeVars, workerVars, boundVars, x11Vars, compositorVars
  <2>3. CallInv'
    BY <2>1, <2>2 DEF CoordInv, CallInv, platform, Compositor
  <2>4. CommandInv'
    BY <2>1, <2>2 DEF CoordInv, CommandInv, Outstanding
  <2>5. AnswerInv'
    BY <2>1, <2>2 DEF CoordInv, AnswerInv, platform
  <2> QED
    BY <2>1, <2>2, <2>3, <2>4, <2>5 DEF CoordInv, ListenerMoves
<1>4. CASE Stop
  <2> DEFINE c == Command("Shutdown", None)
  <2>1. /\ Send("Shutdown", None) /\ UNCHANGED <<coord, temp, reply, config>>
        /\ edits' = edits + 1 /\ edits' \in Nat /\ edits' # 0
    BY <1>4 DEF Stop, Drop, CoordInv, CallInv
  <2>2. UNCHANGED <<instance, pc, status, registered, checked>>
        /\ cmds' = Append(cmds, c) /\ pc # "gone"
    BY <2>1 DEF Send, boundVars, compositorVars
  <2>3. CallInv'
    BY <2>1, <2>2 DEF CoordInv, CallInv, platform, Compositor
  <2>4. c \in Cmds /\ c.kind = "Shutdown"
    BY DEF Command, Cmds, CommandKinds, Triggers
  <2> HIDE DEF c
  <2>5. CommandInv'
    <3>1. \A i \in DOMAIN cmds' : \/ i \in DOMAIN cmds /\ cmds'[i] = cmds[i]
                                  \/ i = Len(cmds) + 1 /\ cmds'[i] = c
      BY <2>2, <2>4, CommandQueue DEF WorkerInv
    <3>2. \A i \in DOMAIN cmds' :
            /\ cmds'[i].kind \notin {"Recheck", "Shutdown"} => cmds'[i].awaited
            /\ Outstanding(i)' => i \in DOMAIN cmds /\ cmds'[i] = cmds[i] /\ Outstanding(i)
      BY <2>2, <2>4, <3>1 DEF CoordInv, CommandInv, Outstanding
    <3> QED
      BY <2>1, <2>2, <3>2 DEF CoordInv, CommandInv
  <2>6. AnswerInv'
    BY <2>1, <2>2 DEF CoordInv, AnswerInv, platform
  <2>7. Sends
    BY <2>1 DEF Sends, CommandKinds, Triggers
  <2> QED
    BY <2>2, <2>3, <2>5, <2>6, <2>7 DEF CoordInv, ListenerMoves
<1> QED
  BY <1>1, <1>2, <1>3, <1>4 DEF World, ReadSignals

\* A step of the setup is one of these, and those of the popup alone change
\* nothing else.
LEMMA SetupMoves ==
  ASSUME GrabInv, WorkerInv, PortalInv, CoordInv, ViewInv, [SNext]_svars
  PROVE  CoordInv' /\ ListenerMoves /\ UNCHANGED instance
<1>1. UNCHANGED rvars => UNCHANGED <<runtimeVars, config, coord, temp, edits>>
  BY DEF rvars, lvars, runtimeVars
<1>2. CASE UNCHANGED svars
  BY <1>1, <1>2, Elsewhere DEF svars
<1>3. CASE Running /\ Clicks
  <2>1. CASE Save \/ AskPortal
    <3>1. UNCHANGED <<runtimeVars, config, coord, temp, edits>>
      BY <2>1 DEF Save, AskPortal, Act, lvars, runtimeVars
    <3> QED
      BY <3>1, Elsewhere
  <2>2. CASE ReloadSway
    <3>1. /\ UNCHANGED <<coord, config, temp, edits, reply, cmds, instance, pc, registered, status,
                         checked>>
          /\ disturbed' \in {disturbed, disturbed + 1}
      BY <2>2 DEF ReloadSway, workerVars, x11Vars
    <3>2. LoadsFile
      BY <2>2, <3>1 DEF ReloadSway, LoadsFile, Compositor
    <3> QED
      BY <3>1, <3>2, CallKept DEF ListenerMoves
  <2>3. CASE UNCHANGED rvars
    BY <1>1, <2>3, Elsewhere
  <2> QED
    BY <1>3, <2>1, <2>2, <2>3
       DEF Clicks, Close, OpenSetup, BackToHistory, Escape, Change, Capture, CancelRecording,
           Discard
<1>4. CASE PopupWorks
  <2>1. UNCHANGED rvars
    BY <1>4 DEF PopupWorks, StartPoll, GetStatus, ReadPoll, ReadAction
  <2> QED
    BY <1>1, <2>1, Elsewhere
<1>5. CASE Begin
  <2>1. CASE PollBegins
    BY <2>1, SimpleCall DEF PollBegins, CallerNames
  <2>2. CASE ActionBegins
    <3>1. action.op = "set" => action.shortcut \in Shortcut
      BY DEF ViewInv
    <3> QED
      BY <2>2, <3>1, SimpleCall, SetCall DEF ActionBegins, CallerNames
  <2> QED
    BY <1>5, <2>1, <2>2 DEF Begin
<1>6. CASE CallReturns \/ Advance
  BY <1>6, CallGoesOn DEF CallReturns
<1>7. CASE Happens
  <2>1. CASE Worker
    <3>1. WorkerStep /\ UNCHANGED <<coord, temp, edits>>
      BY <2>1 DEF Worker
    <3>2. UNCHANGED instance
      BY <3>1
         DEF WorkerStep, Start, Rebind, Recheck, ConfigurePortal, CheckCommand, Shutdown,
             Drained, BackendEvent, EventsDrained, WaitKey, WaitWoken, WaitPortal, WaitFails,
             boundVars
    <3> QED
      BY <3>1, <3>2, WorkerServes DEF ListenerMoves
  <2>2. CASE RecheckTimesOut
    BY <2>2, CallGoesOn
  <2>3. CASE (World \/ ReadSignals) /\ ~RecheckTimesOut
    BY <2>3, WorldMoves
  <2>4. CASE OtherCall
    <3>1. ASSUME NEW caller \in CallerNames, Call(caller) \/ RecheckCall(caller)
          PROVE  CoordInv' /\ ListenerMoves /\ UNCHANGED instance
      BY <3>1, SimpleCall, SetCall DEF Call
    <3> QED
      BY <2>4, <3>1 DEF OtherCall, CallerNames
  <2> QED
    BY <1>7, <2>1, <2>2, <2>3, <2>4 DEF Happens
<1> QED
  BY <1>2, <1>3, <1>4, <1>5, <1>6, <1>7 DEF SNext, Calls

\* The view keeps what it asks and shows in its types, and saves a shortcut.
LEMMA ViewStep ==
  ASSUME WorkerInv, ViewInv, [SNext]_svars
  PROVE  ViewInv'
<1>1. status \in StatusType /\ None \in Triggers /\ Shortcut \subseteq Triggers
      /\ NoRequest \in RequestType /\ NoRequest.op = "none"
  BY DEF WorkerInv, Triggers, NoRequest, RequestType
<1>2. \A op \in {"get", "recheck", "set", "portal"}, s \in Triggers :
        Request(op, s) \in RequestType /\ Request(op, s).op = op /\ Request(op, s).shortcut = s
  BY DEF Request, RequestType
<1>3. \A r \in RequestType, x \in {None} \cup StatusType :
        /\ Answering(r, x) \in RequestType
        /\ Answering(r, x).op = r.op /\ Answering(r, x).shortcut = r.shortcut
        /\ r.status \in {None} \cup StatusType
  BY DEF Answering, RequestType
<1>4. \A r \in RequestType :
        /\ [r EXCEPT !.stage = "begun"] \in RequestType
        /\ [r EXCEPT !.stage = "begun"].op = r.op
        /\ [r EXCEPT !.stage = "begun"].shortcut = r.shortcut
  BY DEF RequestType
<1>5. CASE UNCHANGED popupVars
  BY <1>5 DEF popupVars, ViewInv
<1>6. CASE Close \/ OpenSetup \/ BackToHistory \/ Escape \/ Change \/ CancelRecording \/ Discard
           \/ \E s \in Shortcut : Capture(s)
  BY <1>1, <1>6
     DEF Close, OpenSetup, BackToHistory, Escape, Change, CancelRecording, Discard, Capture,
         ViewInv
<1>7. CASE Save \/ AskPortal
  <2>1. ASSUME NEW r \in RequestType, r.op = "set" => r.shortcut \in Shortcut, Act(r)
        PROVE  ViewInv'
    BY <2>1 DEF Act, ViewInv
  <2>2. CASE Save
    BY <1>2, <2>1, <2>2 DEF Save, ViewInv, Triggers
  <2>3. CASE AskPortal
    BY <1>1, <1>2, <2>1, <2>3 DEF AskPortal
  <2> QED
    BY <1>7, <2>2, <2>3
<1>8. CASE ReloadSway \/ StartPoll
  <2>1. poll' = poll \/ \E op \in {"get", "recheck"} : poll' = Request(op, None)
    BY <1>8 DEF ReloadSway, StartPoll
  <2>2. UNCHANGED <<candidate, shown, action>>
    BY <1>8 DEF ReloadSway, StartPoll
  <2> QED
    BY <1>1, <1>2, <2>1, <2>2 DEF ViewInv
<1>9. CASE GetStatus \/ ReadPoll \/ ReadAction
  <2>1. CASE GetStatus
    BY <1>1, <1>3, <2>1 DEF GetStatus, ViewInv
  <2>2. CASE ReadPoll
    BY <1>1, <1>3, <2>2 DEF ReadPoll, ViewInv
  <2>3. CASE ReadAction
    BY <1>1, <1>3, <2>3 DEF ReadAction, ViewInv
  <2> QED
    BY <1>9, <2>1, <2>2, <2>3
<1>10. CASE PollBegins \/ ActionBegins
  BY <1>4, <1>10 DEF PollBegins, ActionBegins, ViewInv
<1>11. CASE CallReturns
  <2> DEFINE found == IF coord.answer = "Ok" THEN status ELSE None
  <2>1. found \in {None} \cup StatusType
    BY <1>1
  <2>2. /\ poll' = poll \/ poll' = Answering(poll, found)
        /\ action' = action \/ action' = Answering(action, found)
        /\ UNCHANGED <<candidate, shown>>
    BY <1>11 DEF CallReturns
  <2> HIDE DEF found
  <2> QED
    BY <1>3, <2>1, <2>2 DEF ViewInv
<1>12. SNext => \/ UNCHANGED popupVars \/ PollBegins \/ ActionBegins \/ CallReturns
                \/ ReloadSway \/ StartPoll \/ GetStatus \/ ReadPoll \/ ReadAction
                \/ Save \/ AskPortal
                \/ Close \/ OpenSetup \/ BackToHistory \/ Escape \/ Change \/ CancelRecording
                \/ Discard \/ \E s \in Shortcut : Capture(s)
  BY DEF SNext, Clicks, PopupWorks, Calls, Begin
<1> QED
  BY <1>5, <1>6, <1>7, <1>8, <1>9, <1>10, <1>11, <1>12 DEF svars

\* The worker starts with nothing grabbed, nobody calling and a file.
LEMMA SetupStarts == SInit => SetupInv
<1> SUFFICES ASSUME SInit PROVE SetupInv
  OBVIOUS
<1>1. config \in File
  <2>1. Template \in Document
    BY ConfigAssumption
       DEF Template, Primary, Document, Table, ModifierText, KeyText, Shortcut
  <2> QED
    BY <2>1, CoordinatorAssumption DEF SInit, RInit, File
<1>2. current \in Shortcut
  BY <1>1, LoadTypes DEF SInit, RInit, LInit
<1>3. GrabInv
  BY DEF SInit, RInit, LInit, X11Init, GrabInv, Ours, NoGrab
<1>4. WorkerInv
  <2>1. status \in StatusType /\ status.configured = current
        /\ status.state \in {"Unavailable", "Initializing"}
        /\ (Compositor => status.state = "Initializing")
    BY <1>2 DEF SInit, RInit, LInit, Status, StatusType, States, Triggers, Compositor
  <2>2. cmds \in Seq(Cmds) /\ instance \in Instances /\ inspected = None
        /\ pc = (IF platform = "none" THEN "gone" ELSE "start") /\ registered = NoGrab
        /\ disturbed = 0
    BY DEF SInit, RInit, LInit, X11Init
  <2> QED
    <3>1. pc \in WorkerPcs /\ inspected \in Triggers /\ status.state \notin BindingStates
          /\ pc \notin {"events", "drain", "wait", "parked"}
      BY <2>1, <2>2 DEF WorkerPcs, Triggers, BindingStates
    <3> QED
      BY <1>2, <2>1, <2>2, <3>1 DEF WorkerInv
<1>5. PortalInv
  <2>1. PortalInit /\ status.effective = None
    BY DEF SInit, RInit, LInit, Status
  <2> QED
    <3>1. None \in Triggers /\ <<>> \in Seq(Triggers) /\ <<>> \in Seq(Triggers \cup {Omitted})
      BY DEF Triggers
    <3> QED
      BY <2>1, <3>1 DEF PortalInit, PortalInv
<1>6. CallInv
  BY <1>1 DEF SInit, RInit, CallInv, CallType, NoCall, Triggers, CallAnswers
<1>7. CommandInv /\ AnswerInv
  BY DEF SInit, RInit, LInit, CommandInv, AnswerInv, NoCall, Awaits
<1>8. ViewInv
  BY DEF SInit, PopupInit, ViewInv, Request, NoRequest, RequestType, Triggers
<1> QED
  BY <1>3, <1>4, <1>5, <1>6, <1>7, <1>8 DEF SetupInv

\* Every step of the setup keeps the whole invariant.
LEMMA SetupStep ==
  ASSUME SetupInv, [SNext]_svars
  PROVE  SetupInv'
<1>1. CoordInv' /\ ListenerMoves /\ UNCHANGED instance
  BY SetupMoves DEF SetupInv, CoordInv
<1>2. GrabInv'
  BY <1>1, GrabStep DEF SetupInv
<1>3. PortalInv'
  BY <1>1, PortalStep DEF SetupInv
<1>4. WorkerInv'
  BY <1>1, <1>3, WorkerMoves DEF SetupInv, PortalInv
<1>5. ViewInv'
  BY ViewStep DEF SetupInv
<1> QED
  BY <1>1, <1>2, <1>3, <1>4, <1>5 DEF SetupInv, CoordInv

\* In every execution the worker, the grabs, the portal, the call of the
\* coordinator and its answers agree as the invariant says.
THEOREM SetupKept == SFairSpec => []SetupInv
<1>1. SInit => SetupInv
  BY SetupStarts
<1>2. SetupInv /\ [SNext]_svars => SetupInv'
  BY SetupStep
<1> QED
  BY <1>1, <1>2, PTL DEF SFairSpec, SSpec

\* The types of the worker, the coordinator, the backends and the view.
THEOREM SetupIsTyped == SFairSpec => []STypeOK
<1>1. SetupInv => STypeOK
  <2> SUFFICES ASSUME SetupInv PROVE STypeOK
    OBVIOUS
  <2>1. registered.shortcut \in Triggers /\ registered.masks \subseteq Mask
    BY DEF SetupInv, GrabInv, NoGrab, ModifierMasks, Mask, Triggers
  <2>2. coord.op \in Ops \cup {"none"} /\ coord.at \in Awaits \cup {"idle", "end"}
        /\ coord.answer \in CallAnswers /\ coord.target \in Triggers
    BY DEF SetupInv, CallInv, CallType
  <2> QED
    BY <2>1, <2>2
       DEF SetupInv, GrabInv, WorkerInv, PortalInv, CallInv, ViewInv, STypeOK
<1> QED
  BY <1>1, SetupKept, PTL

\* While the X server is up it holds exactly the grabs the backend means to
\* have, whatever registration was refused (GrabsMatch).
THEOREM GrabsAreMatched == SFairSpec => []GrabsMatch
<1>1. SetupInv => GrabsMatch
  BY DEF SetupInv, GrabInv, GrabsMatch
<1> QED
  BY <1>1, SetupKept, PTL

\* On X11 the status names the shortcut that is grabbed (StatusTellsGrab).
THEOREM StatusNamesTheGrab == SFairSpec => []StatusTellsGrab
<1>1. SetupInv => StatusTellsGrab
  BY DEF SetupInv, WorkerInv, StatusTellsGrab
<1> QED
  BY <1>1, SetupKept, PTL

\* When nothing is on its way from the portal the status shows the trigger the
\* user assigned (PortalConverges).
THEOREM PortalIsFollowed == SFairSpec => []PortalConverges
<1>1. SetupInv => PortalConverges
  BY DEF SetupInv, PortalInv, PortalConverges
<1> QED
  BY <1>1, SetupKept, PTL

-----------------------------------------------------------------------------
(* What a set does *)

\* The file is written when a set commits, or when one for the configured
\* shortcut begins under a compositor.
LEMMA FileChanges ==
  ASSUME SetupInv, SNext, FileWritten
  PROVE  \/ Commit
         \/ PreflightCleared
         \/ Compositor /\ status.configured = coord'.target
<1>1. edits' = edits /\ config' # config /\ config' # EnsureExists(config)
  BY DEF FileWritten
<1>2. edits \in Nat
  BY DEF SetupInv, CallInv
<1>3. ~(UNCHANGED lvars) /\ ~(UNCHANGED rvars)
  BY <1>1 DEF lvars, rvars
<1>4. ~(Running /\ Clicks) /\ ~PopupWorks
  BY <1>1, <1>3
     DEF Clicks, Close, OpenSetup, BackToHistory, Escape, Change, Capture, CancelRecording,
         Discard, Save, AskPortal, Act, ReloadSway, PopupWorks, StartPoll, GetStatus, ReadPoll,
         ReadAction
<1>5. ASSUME NEW caller, Reload(caller) \/ RecheckCall(caller) \/ PortalCall(caller)
      PROVE  FALSE
  BY <1>1, <1>5 DEF Reload, RecheckCall, PortalCall
<1>6. ASSUME NEW caller, NEW s,
             \/ SetRefused(caller, s) \/ SetNotPrepared(caller, s)
             \/ SetNative(caller, s) \/ SetCompositor(caller, s)
      PROVE  Compositor /\ status.configured = coord'.target
  <2>1. ~SetRefused(caller, s) /\ ~SetNotPrepared(caller, s) /\ ~SetNative(caller, s)
    BY <1>1, <1>3 DEF SetRefused, SetNotPrepared, SetNative
  <2>2. Compositor /\ status.configured = s /\ CommitCompositor(caller, s)
    BY <1>1, <1>6, <2>1 DEF SetCompositor
  <2>3. \E at : Asks(caller, "set", s, at, "Rebind", s, "Gone")
    BY <1>1, <2>2 DEF CommitCompositor
  <2>4. coord'.target = s
    BY <2>3 DEF Asks, Ends, At
  <2> QED
    BY <2>2, <2>4
<1>7. ~CallReturns
  BY <1>3 DEF CallReturns, Return
<1>8. ~World /\ ~ReadSignals
  BY <1>1, <1>2 DEF World, EditConfig, Stop, RecheckTimesOut, Disturbance, Keyboard, Drop,
                    ReadSignals, ChangedStep
<1>9. ~Worker
  BY <1>1
     DEF Worker, WorkerStep, Start, Rebind, Recheck, ConfigurePortal, CheckCommand, Shutdown,
         Drained, BackendEvent, EventsDrained, WaitKey, WaitWoken, WaitPortal, WaitFails
<1>10. CASE Begin \/ OtherCall
  BY <1>5, <1>6, <1>10 DEF Begin, PollBegins, ActionBegins, OtherCall, Call
<1>11. CASE Advance
  BY <1>1, <1>3, <1>11
     DEF Advance, Closed, Answered, RebindFailed, CommitFailed, RollbackEnds, PreflightRefused
<1> QED
  BY <1>4, <1>7, <1>8, <1>9, <1>10, <1>11 DEF SNext, Calls, Happens

\* Under a compositor a set writes the configured shortcut or one the
\* compositor was asked about, which was free or Pookie's when it answered;
\* what an unreadable reply hides and what is bound afterwards is not covered
\* (OccupiedNotTaken).
THEOREM OccupiedIsNotTaken == SFairSpec => OccupiedNotTaken
<1> DEFINE Step ==
  Compositor /\ FileWritten =>
    \/ status.configured = coord'.target
    \/ /\ checked.shortcut = coord'.target
       /\ checked.ipc # "down"
       /\ checked.ipc = "up" => checked.found \in {"Matched", "NotFound"}
<1>1. SetupInv /\ [SNext]_svars => [Step]_svars
  <2> SUFFICES ASSUME SetupInv, SNext, Compositor, FileWritten
               PROVE  \/ status.configured = coord'.target
                      \/ /\ checked.shortcut = coord'.target
                         /\ checked.ipc # "down"
                         /\ checked.ipc = "up" => checked.found \in {"Matched", "NotFound"}
    OBVIOUS
  <2>1. ~Commit
    BY DEF Commit, SetupInv, CallInv, Compositor
  <2>2. CASE PreflightCleared
    <3>1. coord.at = "check" /\ reply = "free" /\ CommitCompositor(coord.caller, coord.target)
      BY <2>2 DEF PreflightCleared
    <3>2. coord'.target = coord.target
      BY <3>1 DEF CommitCompositor, Asks, Ends, At
    <3> QED
      BY <3>1, <3>2 DEF SetupInv, AnswerInv
  <2> QED
    BY <2>1, <2>2, FileChanges
<1> QED
  BY <1>1, SetupKept, PTL DEF SFairSpec, SSpec, OccupiedNotTaken

\* How a set on X11 ends while the worker runs.
LEMMA SetEnds ==
  ASSUME SetupInv, SNext, coord.at # "end", coord'.at = "end", coord'.op = "set",
         platform = "x11", pc' # "gone"
  PROVE  \/ Commit \/ RebindFailed \/ RollbackEnds
         \/ Idle /\ UNCHANGED registered /\ coord'.answer = "ConfigError"
              /\ coord'.before = registered.shortcut
<1>1. coord' # coord
  OBVIOUS
<1>2. ~Compositor
  BY DEF Compositor
<1>3. ~(Running /\ Clicks) /\ ~PopupWorks
  BY <1>1
     DEF Clicks, Close, OpenSetup, BackToHistory, Escape, Change, Capture, CancelRecording,
         Discard, Save, AskPortal, Act, ReloadSway, PopupWorks, StartPoll, GetStatus, ReadPoll,
         ReadAction, rvars
<1>4. ~World /\ ~ReadSignals /\ ~Worker /\ ~CallReturns
  BY <1>1
     DEF World, EditConfig, Stop, RecheckTimesOut, ReadSignals, Worker, CallReturns, Return,
         NoCall
<1>5. ASSUME NEW caller, Reload(caller) \/ RecheckCall(caller) \/ PortalCall(caller)
      PROVE  FALSE
  BY <1>5 DEF Reload, RecheckCall, PortalCall, Asks, Ends, At
<1>6. ASSUME NEW caller, NEW s \in Shortcut,
             \/ SetRefused(caller, s) \/ SetNotPrepared(caller, s)
             \/ SetNative(caller, s) \/ SetCompositor(caller, s)
      PROVE  Idle /\ UNCHANGED registered /\ coord'.answer = "ConfigError"
               /\ coord'.before = registered.shortcut
  <2>1. ~SetRefused(caller, s) /\ ~SetCompositor(caller, s)
    BY <1>2 DEF SetRefused, SetCompositor
  <2>2. CASE SetNative(caller, s)
    BY <2>2 DEF SetNative, Asks, Ends, At, runtimeVars, workerVars
  <2>3. CASE SetNotPrepared(caller, s)
    BY <2>3 DEF SetNotPrepared, Begins, Ends, At, runtimeVars, x11Vars
  <2> QED
    BY <1>6, <2>1, <2>2, <2>3
<1>7. CASE Begin \/ OtherCall
  BY <1>5, <1>6, <1>7
     DEF Begin, PollBegins, ActionBegins, OtherCall, Call, SetupInv, ViewInv
<1>8. CASE Advance
  <2>1. ~PreflightRefused /\ ~PreflightCleared
    BY <1>2 DEF PreflightRefused, PreflightCleared, SetupInv, CallInv
  <2>2. ~Closed
    BY DEF Closed, lvars, workerVars
  <2>3. ~Answered
    BY <1>2 DEF Answered, End, Ends, At, SetupInv, CallInv
  <2>4. ~CommitFailed
    BY DEF CommitFailed, Asks, At, runtimeVars, workerVars
  <2> QED
    BY <1>8, <2>1, <2>2, <2>3, <2>4 DEF Advance
<1> QED
  BY <1>3, <1>4, <1>7, <1>8 DEF SNext, Calls, Happens

\* On X11 the file is written by the end of an accepted set.
LEMMA WrittenBySet ==
  ASSUME SetupInv, SNext, platform = "x11", FileWritten
  PROVE  /\ coord'.at = "end" /\ coord'.op = "set" /\ coord'.answer = "Ok"
         /\ LoadFromPath(config') = coord'.target
<1>1. ~Compositor /\ ~PreflightCleared
  BY DEF Compositor, PreflightCleared, SetupInv, CallInv
<1>2. Commit
  BY <1>1, FileChanges
<1>3. /\ coord'.at = "end" /\ coord'.op = coord.op /\ coord'.answer = "Ok"
      /\ coord'.target = coord.target /\ config' = temp /\ coord.at = "rebind"
  BY <1>2 DEF Commit, End, Ends, At
<1> QED
  BY <1>3 DEF SetupInv, CallInv

\* Setting a shortcut on X11 changes the grab and the file or neither, and
\* leaves no temporary file; a refused or rolled back set does not write the
\* file (SetAllOrNothing).
THEOREM SetIsAllOrNothing == SFairSpec => SetAllOrNothing
<1> DEFINE Written ==
  FileWritten => /\ coord'.at = "end"
                 /\ coord'.op = "set"
                 /\ coord'.answer = "Ok"
                 /\ LoadFromPath(config') = coord'.target
<1> DEFINE Ended ==
  coord.at # "end" /\ coord'.at = "end" /\ coord'.op = "set" /\ pc' # "gone" =>
    /\ temp' = None
    /\ CASE coord'.answer = "Ok" ->
              /\ registered'.shortcut = coord'.target
              /\ LoadFromPath(config') = coord'.target
         [] coord'.answer = "RolledBack" ->
              edits = 0 => registered'.shortcut = LoadOrDefault(config')
         [] coord'.answer = "DoubleFailure" -> TRUE
         [] OTHER -> coord'.before # None => registered'.shortcut = coord'.before
<1> DEFINE Step == platform = "x11" => Written /\ Ended
<1>0. SetupInv /\ SNext /\ platform = "x11" => Written
  BY WrittenBySet
<1>1. SetupInv /\ SNext /\ platform = "x11" => Ended
  <2> SUFFICES ASSUME SetupInv, SNext, coord.at # "end", coord'.at = "end",
                      coord'.op = "set", platform = "x11", pc' # "gone"
               PROVE  /\ temp' = None
                      /\ coord'.answer = "Ok" =>
                           /\ registered'.shortcut = coord'.target
                           /\ LoadFromPath(config') = coord'.target
                      /\ coord'.answer = "RolledBack" =>
                           (edits = 0 => registered'.shortcut = LoadOrDefault(config'))
                      /\ coord'.answer \notin {"Ok", "RolledBack", "DoubleFailure"} =>
                           (coord'.before # None => registered'.shortcut = coord'.before)
    OBVIOUS
  <2>1. temp' = None
    <3>1. SetupInv'
      BY SetupStep
    <3> QED
      BY <3>1 DEF SetupInv, CallInv
  <2>2. CASE Commit
    <3>1. /\ coord'.answer = "Ok" /\ coord'.target = coord.target /\ config' = temp
          /\ registered' = registered /\ pc # "gone" /\ coord.at = "rebind" /\ reply = "Ok"
      BY <2>2 DEF Commit, End, Ends, At, runtimeVars, x11Vars, workerVars
    <3> QED
      BY <2>1, <3>1 DEF SetupInv, CallInv, AnswerInv
  <2>3. CASE RebindFailed
    <3>1. /\ coord.at = "rebind" /\ reply \notin {NoReply, "Ok"} /\ coord'.answer = reply
          /\ registered' = registered /\ pc # "gone" /\ coord'.before = coord.before
      BY <2>3 DEF RebindFailed, End, Ends, At, lvars, x11Vars, workerVars, Idle, NoCall
    <3>2. reply \in States
      BY <3>1 DEF SetupInv, CommandInv, Awaits
    <3>3. reply \notin {"Ok", "RolledBack", "DoubleFailure"}
      BY <3>2 DEF States, BindingStates
    <3> QED
      BY <2>1, <3>1, <3>3 DEF SetupInv, AnswerInv
  <2>4. CASE RollbackEnds
    <3>1. /\ coord.at = "rollback" /\ registered' = registered /\ pc # "gone"
          /\ config' = config
          /\ coord'.answer = IF reply = "Ok" THEN "RolledBack" ELSE "DoubleFailure"
      BY <2>4 DEF RollbackEnds, End, Ends, At, lvars, x11Vars, workerVars
    <3> QED
      BY <2>1, <3>1 DEF SetupInv, AnswerInv
  <2>5. CASE Idle /\ UNCHANGED registered /\ coord'.answer = "ConfigError"
               /\ coord'.before = registered.shortcut
    BY <2>1, <2>5
  <2> QED
    BY <2>2, <2>3, <2>4, <2>5, SetEnds
<1>2. SetupInv /\ [SNext]_svars => [Step]_svars
  <2> HIDE DEF Written, Ended
  <2> QED
    BY <1>0, <1>1
<1> QED
  BY <1>2, SetupKept, PTL DEF SFairSpec, SSpec, SetAllOrNothing

-----------------------------------------------------------------------------
(* How often the shortcut activates *)

\* How many elements of a queue are in V.
Count(q, V) == Cardinality({i \in DOMAIN q : q[i] \in V})

\* The count of a queue is a number.
LEMMA CountType ==
  ASSUME NEW S, NEW q \in Seq(S), NEW V
  PROVE  /\ Count(q, V) \in Nat
         /\ IsFiniteSet({i \in DOMAIN q : q[i] \in V})
<1>1. DOMAIN q = 1..Len(q) /\ Len(q) \in Nat
  OBVIOUS
<1>2. IsFiniteSet(1..Len(q))
  BY <1>1, FS_Interval
<1> QED
  BY <1>1, <1>2, FS_Subset, FS_CardinalityType DEF Count

\* An empty queue counts for nothing.
LEMMA CountEmpty ==
  ASSUME NEW V
  PROVE  Count(<<>>, V) = 0
<1>1. {i \in DOMAIN <<>> : <<>>[i] \in V} = {}
  OBVIOUS
<1> QED
  BY <1>1, FS_EmptySet DEF Count

\* What is put into a queue counts for one or for nothing.
LEMMA CountAppend ==
  ASSUME NEW S, NEW q \in Seq(S), NEW e \in S, NEW V
  PROVE  Count(Append(q, e), V) = Count(q, V) + (IF e \in V THEN 1 ELSE 0)
<1> DEFINE A == {i \in DOMAIN q : q[i] \in V}
           B == {i \in DOMAIN Append(q, e) : Append(q, e)[i] \in V}
           n == Len(q) + 1
<1>1. /\ DOMAIN q = 1..Len(q) /\ Len(q) \in Nat /\ DOMAIN Append(q, e) = 1..n
      /\ \A i \in 1..Len(q) : Append(q, e)[i] = q[i]
      /\ Append(q, e)[n] = e
  BY AppendProperties
<1>2. IsFiniteSet(A) /\ Cardinality(A) \in Nat
  BY CountType DEF Count
<1>3. n \notin A
  BY <1>1
<1>4. Count(q, V) = Cardinality(A) /\ Count(Append(q, e), V) = Cardinality(B)
  BY DEF Count
<1>5. CASE e \in V
  <2>1. B = A \cup {n}
    BY <1>1, <1>5
  <2> HIDE DEF A, B, n
  <2> QED
    BY <1>2, <1>3, <1>4, <1>5, <2>1, FS_AddElement
<1>6. CASE e \notin V
  <2>1. B = A
    BY <1>1, <1>6
  <2> HIDE DEF A, B, n
  <2> QED
    BY <1>2, <1>4, <1>6, <2>1
<1> QED
  BY <1>5, <1>6

\* What is taken from a queue counted for one or for nothing.
LEMMA CountTail ==
  ASSUME NEW S, NEW q \in Seq(S), q # <<>>, NEW V
  PROVE  Count(q, V) = Count(Tail(q), V) + (IF Head(q) \in V THEN 1 ELSE 0)
<1> DEFINE t == Tail(q)
           A == {i \in DOMAIN t : t[i] \in V}
           B == {i \in DOMAIN q : q[i] \in V}
           f == [i \in A |-> i + 1]
<1>1. /\ DOMAIN q = 1..Len(q) /\ Len(q) \in Nat \ {0} /\ Head(q) = q[1]
      /\ t \in Seq(S) /\ Len(t) = Len(q) - 1 /\ DOMAIN t = 1..Len(q) - 1
      /\ \A i \in 1..Len(q) - 1 : t[i] = q[i + 1]
  BY HeadTailProperties
<1>2. /\ IsFiniteSet(A) /\ IsFiniteSet(B)
      /\ Cardinality(A) \in Nat /\ Cardinality(B) \in Nat
  BY <1>1, CountType DEF Count
<1>3. ExistsBijection(A, B \ {1})
  <2>1. f \in [A -> B \ {1}]
    BY <1>1
  <2>2. \A i, j \in A : f[i] = f[j] => i = j
    BY <1>1
  <2>3. ASSUME NEW k \in B \ {1}
        PROVE  \E i \in A : f[i] = k
    <3>1. k - 1 \in A /\ k \in Nat
      BY <1>1
    <3>2. f[k - 1] = k
      BY <3>1
    <3> QED
      BY <3>1, <3>2
  <2> HIDE DEF f, A, B
  <2>4. f \in Bijection(A, B \ {1})
    BY <2>1, <2>2, <2>3, Fun_IsBij
  <2> QED
    BY <2>4 DEF ExistsBijection
<1>4. Cardinality(B \ {1}) = Cardinality(A)
  BY <1>2, <1>3, FS_Bijection
<1>5. Cardinality(B \ {1}) = IF 1 \in B THEN Cardinality(B) - 1 ELSE Cardinality(B)
  BY <1>2, FS_RemoveElement
<1>6. 1 \in B <=> Head(q) \in V
  BY <1>1
<1>7. Count(q, V) = Cardinality(B) /\ Count(t, V) = Cardinality(A)
  BY DEF Count
<1> HIDE DEF A, B
<1> QED
  BY <1>2, <1>4, <1>5, <1>6, <1>7

\* A repeat puts two events into the queue, one after the other.
LEMMA TwoAppended ==
  ASSUME NEW S, NEW q \in Seq(S), NEW d \in S, NEW e \in S
  PROVE  q \o <<d, e>> = Append(Append(q, d), e)
<1>1. /\ Append(q, d) \in Seq(S) /\ Len(Append(q, d)) = Len(q) + 1
      /\ \A i \in 1..Len(q) : Append(q, d)[i] = q[i]
      /\ Append(q, d)[Len(q) + 1] = d
  BY AppendProperties
<1>2. /\ Append(Append(q, d), e) \in Seq(S) /\ Len(Append(Append(q, d), e)) = Len(q) + 2
      /\ \A i \in 1..Len(q) + 1 : Append(Append(q, d), e)[i] = Append(q, d)[i]
      /\ Append(Append(q, d), e)[Len(q) + 2] = e
  BY <1>1, AppendProperties
<1>3. <<d, e>> \in Seq(S) /\ Len(<<d, e>>) = 2
  OBVIOUS
<1>4. /\ q \o <<d, e>> \in Seq(S) /\ Len(q \o <<d, e>>) = Len(q) + 2
      /\ \A i \in 1..Len(q) + 2 : (q \o <<d, e>>)[i] =
           IF i <= Len(q) THEN q[i] ELSE <<d, e>>[i - Len(q)]
  BY <1>3, ConcatProperties
<1>5. \A i \in 1..Len(q) + 2 : (q \o <<d, e>>)[i] = Append(Append(q, d), e)[i]
  <2> SUFFICES ASSUME NEW i \in 1..Len(q) + 2
               PROVE  (q \o <<d, e>>)[i] = Append(Append(q, d), e)[i]
    OBVIOUS
  <2>1. i \in 1..Len(q) \/ i = Len(q) + 1 \/ i = Len(q) + 2
    OBVIOUS
  <2> QED
    BY <1>1, <1>2, <1>4, <2>1
<1> QED
  BY <1>2, <1>4, <1>5, SeqEqual

Combinations == {Combination(s) : s \in {t \in Shortcut : t.key \in LayoutKeys}}

Codes == {Keycode[k] : k \in LayoutKeys}

\* The events of X11 that may activate: the presses that repeat none.
Fresh == [type : {"press"}, code : Codes, repeat : {FALSE}]

KeyEvents == [type : {"press", "release"}, code : Codes, repeat : BOOLEAN]

\* A release follows the press of its key, and a repeat the release of its.
Follows(e, next) ==
  IF e.type = "press" THEN next.type = "release" /\ next.code = e.code
  ELSE next.type = "press" /\ (next.repeat => next.code = e.code)

Alternates(q) ==
  /\ q \in Seq(KeyEvents)
  /\ \A i \in 1 .. Len(q) - 1 : Follows(q[i], q[i + 1])

\* The events alternate, up to what is held.
QueueInv ==
  /\ Alternates(xevents)
  /\ server /\ xevents # <<>> =>
       IF xevents[Len(xevents)].type = "press"
       THEN held.ours /\ held.combination.code = xevents[Len(xevents)].code
       ELSE ~held.ours
  /\ ~server => ~held.ours
  /\ held \in {NotHeld} \cup [combination : Combinations, ours : BOOLEAN]
  /\ registered = NoGrab /\ pc # "gone" => xevents = <<>> /\ ~held.ours

\* The code, if there is one, whose press the worker has read and whose release
\* it has not, when q are the events and h is held.
Pressed(q, h) ==
  IF q = <<>> THEN IF h.ours THEN {h.combination.code} ELSE {}
  ELSE IF q[1] \in Fresh THEN {} ELSE {q[1].code}

\* Halves of activations that no press accounts for: one when another key is
\* grabbed than the one pressed, two when the grab came back to the key pressed
\* after the other had taken the release of a repeat.
DueIn(q, h, r) ==
  IF r = NoGrab \/ Pressed(q, h) = {} THEN 0
  ELSE IF Pressed(q, h) # {Keycode[r.shortcut.key]} THEN 1
  ELSE IF q # <<>> /\ q[1].type = "press" THEN 2
  ELSE 0

Due == DueIn(xevents, held, registered)

\* The halves of activations that the events make, and those due.
Unread == 2 * Count(xevents, Fresh) + Due

Spent == 2 * activations + Unread

\* What is put behind an alternating queue that it may follow alternates.
LEMMA AlternatesAppend ==
  ASSUME NEW q, Alternates(q), NEW e \in KeyEvents, q # <<>> => Follows(q[Len(q)], e)
  PROVE  /\ Alternates(Append(q, e))
         /\ Append(q, e) # <<>>
         /\ Append(q, e)[Len(Append(q, e))] = e
         /\ Append(q, e)[1] = IF q = <<>> THEN e ELSE q[1]
<1>1. /\ Append(q, e) \in Seq(KeyEvents) /\ Len(Append(q, e)) = Len(q) + 1
      /\ \A i \in 1..Len(q) : Append(q, e)[i] = q[i]
      /\ Append(q, e)[Len(q) + 1] = e
      /\ Len(q) \in Nat /\ (q # <<>> => Len(q) \in Nat \ {0}) /\ (q = <<>> => Len(q) = 0)
  BY AppendProperties, EmptySeq DEF Alternates
<1>2. ASSUME NEW i \in 1..Len(q)
      PROVE  Follows(Append(q, e)[i], Append(q, e)[i + 1])
  <2>1. q # <<>> /\ (i \in 1..Len(q) - 1 \/ i = Len(q))
    BY <1>1
  <2> QED
    BY <1>1, <2>1 DEF Alternates
<1>3. Append(q, e) # <<>>
  BY <1>1, EmptySeq
<1>4. Alternates(Append(q, e))
  BY <1>1, <1>2 DEF Alternates
<1>5. Append(q, e)[1] = IF q = <<>> THEN e ELSE q[1]
  <2>1. CASE q = <<>>
    BY <1>1, <2>1
  <2>2. CASE q # <<>>
    <3>1. 1 \in 1..Len(q)
      BY <1>1, <2>2
    <3> QED
      BY <1>1, <2>2, <3>1
  <2> QED
    BY <2>1, <2>2
<1>6. Append(q, e)[Len(Append(q, e))] = e
  BY <1>1
<1> QED
  BY <1>3, <1>4, <1>5, <1>6

\* What is left of an alternating queue alternates, and its first follows.
LEMMA AlternatesTail ==
  ASSUME NEW q, Alternates(q), q # <<>>
  PROVE  /\ Alternates(Tail(q))
         /\ Head(q) = q[1] /\ q[1] \in KeyEvents
         /\ Tail(q) # <<>> => /\ Len(q) > 1
                              /\ Tail(q)[1] = q[2] /\ q[2] \in KeyEvents /\ Follows(q[1], q[2])
                              /\ Tail(q)[Len(Tail(q))] = q[Len(q)]
         /\ Tail(q) = <<>> => Len(q) = 1 /\ q[1] = q[Len(q)]
<1>1. /\ Tail(q) \in Seq(KeyEvents) /\ Len(Tail(q)) = Len(q) - 1 /\ Len(q) \in Nat \ {0}
      /\ Head(q) = q[1] /\ \A i \in 1..Len(q) - 1 : Tail(q)[i] = q[i + 1]
      /\ \A i \in 1..Len(q) : q[i] \in KeyEvents
  <2>1. q \in Seq(KeyEvents)
    BY DEF Alternates
  <2>2. \A i \in 1..Len(q) : q[i] \in KeyEvents
    BY <2>1, ElementOfSeq
  <2>3. Len(q) \in Nat \ {0}
    BY <2>1, EmptySeq
  <2> QED
    BY <2>1, <2>2, <2>3, HeadTailProperties
<1>2. Tail(q) # <<>> => Len(Tail(q)) \in Nat \ {0}
  BY <1>1, EmptySeq
<1>3. Tail(q) = <<>> => Len(q) = 1
  <2>1. Tail(q) = <<>> => Len(Tail(q)) = 0
    BY EmptySeq
  <2> QED
    BY <1>1, <2>1
<1>4. ASSUME NEW i \in 1..Len(Tail(q)) - 1
      PROVE  Follows(Tail(q)[i], Tail(q)[i + 1])
  <2>1. i \in 1..Len(q) - 1 /\ i + 1 \in 1..Len(q) - 1
    BY <1>1
  <2> QED
    BY <1>1, <2>1 DEF Alternates
<1>5. Alternates(Tail(q))
  BY <1>1, <1>4 DEF Alternates
<1>6. Tail(q) # <<>> => 1 \in 1..Len(q) - 1 /\ Len(q) - 1 \in 1..Len(q) - 1
  BY <1>1, <1>2
<1> QED
  BY <1>1, <1>3, <1>5, <1>6 DEF Alternates

\* What is due is at most an activation, and nothing while nothing is pressed.
LEMMA DueType ==
  ASSUME NEW q, NEW h, NEW r
  PROVE  /\ DueIn(q, h, r) \in 0..2
         /\ Pressed(q, h) = {} => DueIn(q, h, r) = 0
         /\ q = <<>> => DueIn(q, h, r) <= 1
BY DEF DueIn

\* What is pressed has a code of the keyboard.
LEMMA CombinationTypes ==
  /\ \A c \in Combinations : c.code \in Codes
  /\ \A m \in Mask : m[1] \in Combinations
BY DEF Combinations, Codes, Combination, Mask

\* A press is fresh or a repeat.
LEMMA EventTypes ==
  /\ \A e \in KeyEvents : /\ e \in Fresh <=> e.type = "press" /\ ~e.repeat
                          /\ e.code \in Codes
  /\ \A c \in Combinations, type \in {"press", "release"}, repeat \in BOOLEAN :
       /\ KeyEvent(type, c, repeat) \in KeyEvents
       /\ KeyEvent(type, c, repeat).type = type
       /\ KeyEvent(type, c, repeat).code = c.code
       /\ KeyEvent(type, c, repeat).repeat = repeat
<1>1. ASSUME NEW e \in KeyEvents
      PROVE  (e \in Fresh <=> e.type = "press" /\ ~e.repeat) /\ e.code \in Codes
  BY DEF KeyEvents, Fresh
<1>2. ASSUME NEW c \in Combinations, NEW type \in {"press", "release"},
             NEW repeat \in BOOLEAN
      PROVE  /\ KeyEvent(type, c, repeat) \in KeyEvents
             /\ KeyEvent(type, c, repeat).type = type
             /\ KeyEvent(type, c, repeat).code = c.code
             /\ KeyEvent(type, c, repeat).repeat = repeat
  BY <1>2, CombinationTypes DEF KeyEvent, KeyEvents
<1> QED
  BY <1>1, <1>2

\* What the server sends makes nothing due: to an empty queue a fresh press, or
\* the release of what is held.
LEMMA DueAppend ==
  ASSUME NEW q, Alternates(q), NEW e \in KeyEvents, NEW h, NEW next, NEW r,
         q # <<>> => Follows(q[Len(q)], e),
         q = <<>> => \/ e \in Fresh
                     \/ h.ours /\ e.type = "release" /\ e.code = h.combination.code
  PROVE  DueIn(Append(q, e), next, r) <= DueIn(q, h, r)
<1>1. Append(q, e) # <<>> /\ Append(q, e)[1] = IF q = <<>> THEN e ELSE q[1]
  BY AlternatesAppend
<1>2. CASE q # <<>>
  <2>1. Pressed(Append(q, e), next) = Pressed(q, h)
    BY <1>1, <1>2 DEF Pressed
  <2> QED
    BY <1>1, <1>2, <2>1, DueType DEF DueIn
<1>3. CASE q = <<>> /\ e \in Fresh
  <2>1. Pressed(Append(q, e), next) = {}
    BY <1>1, <1>3 DEF Pressed
  <2> QED
    BY <2>1, DueType
<1>4. CASE q = <<>> /\ e \notin Fresh
  <2>1. Pressed(Append(q, e), next) = {e.code} /\ Pressed(q, h) = {e.code}
        /\ Append(q, e)[1].type # "press"
    BY <1>1, <1>4 DEF Pressed
  <2>2. DueIn(Append(q, e), next, r) =
          IF r = NoGrab \/ Pressed(q, h) = {} THEN 0
          ELSE IF Pressed(q, h) # {Keycode[r.shortcut.key]} THEN 1 ELSE 0
    BY <2>1 DEF DueIn
  <2>3. DueIn(q, h, r) =
          IF r = NoGrab \/ Pressed(q, h) = {} THEN 0
          ELSE IF Pressed(q, h) # {Keycode[r.shortcut.key]} THEN 1 ELSE 0
    BY <1>4 DEF DueIn
  <2> QED
    BY <2>2, <2>3
<1> QED
  BY <1>2, <1>3, <1>4

\* The halves of activations to come are a number.
LEMMA UnreadType ==
  ASSUME QueueInv
  PROVE  Unread \in Nat /\ Count(xevents, Fresh) \in Nat /\ Due \in 0..2
<1>1. Count(xevents, Fresh) \in Nat
  BY CountType DEF QueueInv, Alternates
<1> QED
  BY <1>1, DueType DEF Unread, Due

\* A press, a repeat, a release and the end of the connection leave the events
\* alternating; only a press makes half an activation, or two halves, possible.
LEMMA KeysSpend ==
  ASSUME GrabInv, QueueInv, UNCHANGED pc,
         \/ \E m \in Mask : Press(m)
         \/ AutoRepeat \/ Release \/ HangUp
  PROVE  /\ QueueInv'
         /\ Unread' <= Unread + 2
         /\ AutoRepeat \/ Release \/ HangUp => Unread' <= Unread
<1> DEFINE last == xevents[Len(xevents)]
<1>1. xevents \in Seq(KeyEvents) /\ Count(xevents, Fresh) \in Nat /\ Due \in 0..2
  BY CountType, DueType DEF QueueInv, Alternates, Due
<1>2. xevents # <<>> => last \in KeyEvents
  BY <1>1, EmptySeq, ElementOfSeq
<1>3. ASSUME NEW m \in Mask, Press(m)
      PROVE  QueueInv' /\ Unread' <= Unread + 2
  <2> DEFINE e == KeyEvent("press", m[1], FALSE)
  <2>1. m[1] \in Combinations /\ server /\ held = NotHeld /\ UNCHANGED <<server, registered>>
        /\ held' = [combination |-> m[1], ours |-> m \in Ours]
    BY <1>3, CombinationTypes DEF Press
  <2>2. held' \in [combination : Combinations, ours : BOOLEAN] /\ ~held.ours
        /\ held'.combination = m[1] /\ (held'.ours <=> m \in Ours)
    <3>1. held'.combination = m[1] /\ held'.ours = (m \in Ours)
      BY <2>1
    <3>2. (m \in Ours) \in BOOLEAN
      OBVIOUS
    <3>3. held' \in [combination : Combinations, ours : BOOLEAN]
      BY <2>1, <3>2
    <3> QED
      BY <2>1, <3>1, <3>3 DEF NotHeld
  <2>3. CASE m \in Ours
    <3>1. xevents' = Append(xevents, e)
      BY <1>3, <2>3 DEF Press
    <3>2. e \in KeyEvents /\ e \in Fresh /\ e.type = "press" /\ e.code = m[1].code
      BY <2>1, EventTypes
    <3>3. ~e.repeat
      BY <2>1, EventTypes
    <3> HIDE DEF e
    <3>4. xevents # <<>> => Follows(last, e)
      <4>1. xevents # <<>> => last.type = "release"
        BY <1>2, <2>1, <2>2 DEF QueueInv, KeyEvents
      <4> QED
        BY <3>2, <3>3, <4>1 DEF Follows
    <3>5. Alternates(xevents') /\ xevents' # <<>> /\ xevents'[Len(xevents')] = e
      BY <3>1, <3>2, <3>4, AlternatesAppend DEF QueueInv
    <3>6. registered # NoGrab
      BY <2>1, <2>3 DEF GrabInv, NoGrab
    <3>7. QueueInv'
      BY <2>1, <2>2, <2>3, <3>2, <3>5, <3>6 DEF QueueInv
    <3>8. Count(xevents', Fresh) = Count(xevents, Fresh) + 1
      BY <1>1, <3>1, <3>2, CountAppend
    <3>9. Due' <= Due /\ Due' \in 0..2
      BY <2>1, <3>1, <3>2, <3>4, DueAppend, DueType DEF Due, QueueInv
    <3> QED
      BY <1>1, <3>7, <3>8, <3>9 DEF Unread
  <2>4. CASE m \notin Ours
    <3>1. UNCHANGED xevents /\ ~held'.ours
      BY <1>3, <2>2, <2>4 DEF Press
    <3>2. QueueInv'
      BY <2>1, <2>2, <3>1 DEF QueueInv
    <3>3. Due' = Due
      BY <2>1, <2>2, <3>1 DEF Due, DueIn, Pressed
    <3> QED
      BY <1>1, <3>1, <3>2, <3>3 DEF Unread
  <2> QED
    BY <2>3, <2>4
<1>4. CASE AutoRepeat
  <2> DEFINE d == KeyEvent("release", held.combination, FALSE)
             e == KeyEvent("press", held.combination, TRUE)
             q == Append(xevents, d)
  <2>1. /\ server /\ held.ours /\ xevents' = xevents \o <<d, e>>
        /\ UNCHANGED <<server, held, registered>> /\ held.combination \in Combinations
    BY <1>4 DEF AutoRepeat, QueueInv, NotHeld
  <2>2. /\ d \in KeyEvents /\ e \in KeyEvents /\ d \notin Fresh /\ e \notin Fresh
        /\ d.type = "release" /\ e.type = "press"
        /\ d.code = held.combination.code /\ e.code = held.combination.code
    BY <2>1, EventTypes
  <2> HIDE DEF d, e
  <2>3. xevents # <<>> => Follows(last, d)
    BY <1>2, <2>1, <2>2 DEF QueueInv, Follows
  <2>4. Alternates(q) /\ q # <<>> /\ q[Len(q)] = d
    BY <2>2, <2>3, AlternatesAppend DEF QueueInv
  <2>5. Follows(d, e)
    BY <2>2 DEF Follows
  <2>6. xevents' = Append(q, e)
    BY <1>1, <2>1, <2>2, TwoAppended
  <2>7. Alternates(xevents') /\ xevents' # <<>> /\ xevents'[Len(xevents')] = e
    BY <2>2, <2>4, <2>5, <2>6, AlternatesAppend
  <2>8. QueueInv'
    BY <2>1, <2>2, <2>7 DEF QueueInv
  <2>9. Count(xevents', Fresh) = Count(xevents, Fresh)
    <3>1. q \in Seq(KeyEvents)
      BY <2>4 DEF Alternates
    <3>2. Count(q, Fresh) = Count(xevents, Fresh)
      BY <1>1, <2>2, CountAppend
    <3> HIDE DEF q
    <3>3. Count(Append(q, e), Fresh) = Count(q, Fresh) + 0
      BY <2>2, <3>1, CountAppend
    <3> QED
      BY <1>1, <2>6, <3>2, <3>3
  <2>10. Due' <= Due
    <3>1. DueIn(q, held, registered) <= DueIn(xevents, held, registered)
      BY <2>1, <2>2, <2>3, DueAppend DEF QueueInv
    <3>2. DueIn(Append(q, e), held, registered) <= DueIn(q, held, registered)
      BY <2>2, <2>4, <2>5, DueAppend
    <3>3. /\ DueIn(Append(q, e), held, registered) \in 0..2
          /\ DueIn(q, held, registered) \in 0..2
          /\ DueIn(xevents, held, registered) \in 0..2
      BY DueType
    <3>4. Due' = DueIn(Append(q, e), held, registered)
      BY <2>1, <2>6 DEF Due
    <3> HIDE DEF q
    <3> QED
      BY <3>1, <3>2, <3>3, <3>4 DEF Due
  <2>11. Due' \in 0..2
    BY DueType DEF Due
  <2> QED
    BY <1>1, <2>8, <2>9, <2>10, <2>11 DEF Unread
<1>5. CASE Release
  <2> DEFINE e == KeyEvent("release", held.combination, FALSE)
  <2>1. server /\ held' = NotHeld /\ ~held'.ours /\ UNCHANGED <<server, registered>>
    BY <1>5 DEF Release, NotHeld
  <2>2. CASE held.ours
    <3>1. xevents' = Append(xevents, e) /\ held.combination \in Combinations
      BY <1>5, <2>2 DEF Release, QueueInv, NotHeld
    <3>2. e \in KeyEvents /\ e \notin Fresh /\ e.type = "release" /\ e.code = held.combination.code
      BY <3>1, EventTypes
    <3> HIDE DEF e
    <3>3. xevents # <<>> => Follows(last, e)
      BY <1>2, <2>1, <2>2, <3>2 DEF QueueInv, Follows
    <3>4. Alternates(xevents') /\ xevents' # <<>> /\ xevents'[Len(xevents')] = e
      BY <3>1, <3>2, <3>3, AlternatesAppend DEF QueueInv
    <3>5. QueueInv'
      BY <2>1, <2>2, <3>2, <3>4 DEF QueueInv
    <3>6. Count(xevents', Fresh) = Count(xevents, Fresh) + 0
      BY <1>1, <3>1, <3>2, CountAppend
    <3>7. Due' <= Due /\ Due' \in 0..2
      BY <2>1, <2>2, <3>1, <3>2, <3>3, DueAppend, DueType DEF Due, QueueInv
    <3> QED
      BY <1>1, <3>5, <3>6, <3>7 DEF Unread
  <2>3. CASE ~held.ours
    <3>1. UNCHANGED xevents
      BY <1>5, <2>3 DEF Release
    <3>2. QueueInv'
      BY <2>1, <2>3, <3>1 DEF QueueInv
    <3>3. Due' = Due
      BY <2>1, <2>3, <3>1 DEF Due, DueIn, Pressed
    <3> QED
      BY <1>1, <3>1, <3>2, <3>3 DEF Unread
  <2> QED
    BY <2>2, <2>3
<1>6. CASE HangUp
  <2>1. ~server' /\ held' = NotHeld /\ ~held'.ours /\ UNCHANGED <<xevents, registered>>
    BY <1>6 DEF HangUp, NotHeld
  <2>2. QueueInv'
    BY <2>1 DEF QueueInv
  <2>3. Due' <= Due /\ Due' \in 0..2
    <3>1. CASE xevents = <<>>
      <4>1. Pressed(xevents', held') = {}
        BY <2>1, <3>1 DEF Pressed
      <4> QED
        BY <4>1, DueType DEF Due
    <3>2. CASE xevents # <<>>
      <4>1. Pressed(xevents', held') = Pressed(xevents, held)
        BY <2>1, <3>2 DEF Pressed
      <4> QED
        BY <2>1, <4>1, DueType DEF Due, DueIn
    <3> QED
      BY <3>1, <3>2
  <2> QED
    BY <1>1, <2>1, <2>2, <2>3 DEF Unread
<1>7. QueueInv'
  BY <1>3, <1>4, <1>5, <1>6
<1>8. AutoRepeat \/ Release \/ HangUp => Unread' <= Unread
  BY <1>4, <1>5, <1>6
<1>9. Unread' <= Unread + 2
  <2>1. CASE \E m \in Mask : Press(m)
    BY <1>3, <2>1
  <2>2. CASE AutoRepeat \/ Release \/ HangUp
    <3>1. Unread \in Nat
      BY UnreadType
    <3>2. xevents' \in Seq(KeyEvents)
      BY <1>7 DEF QueueInv, Alternates
    <3>3. Count(xevents', Fresh) \in Nat /\ Due' \in 0..2
      BY <3>2, CountType, DueType DEF Due
    <3>4. Unread' \in Nat
      BY <3>3 DEF Unread
    <3> QED
      BY <1>8, <2>2, <3>1, <3>4
  <2> QED
    BY <2>1, <2>2
<1> QED
  BY <1>7, <1>8, <1>9

\* Once a press is read nothing is due while its key is grabbed, and half an
\* activation while another is.
LEMMA DueAfterPress ==
  ASSUME NEW q, Alternates(q), q # <<>>, q[1].type = "press", NEW h, NEW r,
         Len(q) = 1 /\ h.ours => h.combination.code = q[1].code
  PROVE  DueIn(Tail(q), h, r) <= IF q[1].code = Keycode[r.shortcut.key] THEN 0 ELSE 1
<1>1. CASE Tail(q) = <<>>
  <2>1. Pressed(Tail(q), h) \in {{}, {q[1].code}}
    BY <1>1, AlternatesTail DEF Pressed
  <2> QED
    BY <1>1, <2>1 DEF DueIn
<1>2. CASE Tail(q) # <<>>
  <2>1. Tail(q)[1] \in KeyEvents /\ Tail(q)[1].type = "release" /\ Tail(q)[1].code = q[1].code
    BY <1>2, AlternatesTail DEF Follows
  <2>2. Pressed(Tail(q), h) = {q[1].code}
    BY <1>2, <2>1, EventTypes DEF Pressed
  <2> QED
    BY <2>1, <2>2 DEF DueIn
<1> QED
  BY <1>1, <1>2

\* An event that is read makes no more activations than it, or what was due,
\* accounted for.
LEMMA EventSpends ==
  ASSUME QueueInv, registered # NoGrab,
         NEW answer \in {"activation", "none"}, X11Event(answer)
  PROVE  /\ QueueInv'
         /\ (IF answer = "activation" THEN 2 ELSE 0) + Unread' <= Unread
<1> DEFINE e == xevents[1]
           t == Tail(xevents)
           ours == e.code = RegisteredCode
           repeated == /\ e.type = "release" /\ Len(xevents) > 1
                       /\ xevents[2].type = "press" /\ xevents[2].code = e.code
                       /\ xevents[2].repeat
<1>1. /\ xevents # <<>> /\ Alternates(xevents) /\ Alternates(t) /\ e = Head(xevents)
      /\ e \in KeyEvents /\ e.code \in Codes
      /\ xevents \in Seq(KeyEvents) /\ t \in Seq(KeyEvents)
  BY AlternatesTail, EventTypes DEF QueueInv, X11Event, Alternates
<1>2. /\ xevents' = IF ours /\ repeated THEN Tail(t) ELSE t
      /\ answer = "activation" => ours /\ e.type = "press"
      /\ UNCHANGED <<server, held, registered>>
  BY <1>1 DEF X11Event
<1>3. /\ Count(xevents, Fresh) = Count(t, Fresh) + IF e \in Fresh THEN 1 ELSE 0
      /\ Count(t, Fresh) \in Nat
  BY <1>1, CountTail, CountType
<1>4. Due \in 0..2 /\ Due' \in 0..2
  BY DueType DEF Due
<1>5. Due = IF e \in Fresh THEN 0 ELSE IF ~ours THEN 1 ELSE IF e.type = "press" THEN 2 ELSE 0
  BY <1>1 DEF Due, DueIn, Pressed, RegisteredCode
<1>6. e.type \in {"press", "release"} /\ (e \in Fresh => e.type = "press")
  BY <1>1, EventTypes DEF KeyEvents
<1>7. server /\ t = <<>> => IF e.type = "press" THEN held.ours => held.combination.code = e.code
                            ELSE ~held.ours
  BY <1>1, AlternatesTail DEF QueueInv
<1>8. t # <<>> => /\ Len(xevents) > 1 /\ t[1] = xevents[2] /\ t[1] \in KeyEvents
                  /\ Follows(e, t[1]) /\ t[Len(t)] = xevents[Len(xevents)]
  BY <1>1, AlternatesTail
<1>9. CASE ~(ours /\ repeated)
  <2>1. xevents' = t
    BY <1>2, <1>9
  <2>2. QueueInv'
    BY <1>1, <1>2, <1>8, <2>1 DEF QueueInv
  <2>3. CASE e.type = "press"
    <3>1. Len(xevents) = 1 /\ held.ours => held.combination.code = e.code
      BY <1>1, <2>3 DEF QueueInv
    <3>2. DueIn(t, held, registered) <= IF ours THEN 0 ELSE 1
      BY <1>1, <2>3, <3>1, DueAfterPress DEF RegisteredCode
    <3>3. Due' = DueIn(t, held, registered)
      BY <1>2, <2>1 DEF Due
    <3>4. CASE ours
      <4>1. Due' = 0 /\ Due = IF e \in Fresh THEN 0 ELSE 2
        BY <1>4, <1>5, <2>3, <3>2, <3>3, <3>4
      <4> HIDE DEF e, t, ours, repeated
      <4> QED
        BY <1>3, <2>1, <2>2, <4>1 DEF Unread
    <3>5. CASE ~ours
      <4>1. Due' <= 1 /\ answer # "activation" /\ Due = IF e \in Fresh THEN 0 ELSE 1
        BY <1>2, <1>5, <3>2, <3>3, <3>5
      <4> HIDE DEF e, t, ours, repeated
      <4> QED
        BY <1>3, <1>4, <2>1, <2>2, <4>1 DEF Unread
    <3> QED
      BY <3>4, <3>5
  <2>4. CASE e.type = "release"
    <3>1. Due' <= IF ours THEN 0 ELSE 1
      <4>1. CASE t = <<>>
        <5>1. ~held.ours
          BY <1>7, <2>4, <4>1 DEF QueueInv
        <5> QED
          BY <1>2, <2>1, <4>1, <5>1 DEF Due, DueIn, Pressed, RegisteredCode
      <4>2. CASE t # <<>>
        <5>1. t[1].type = "press" /\ (t[1].repeat => t[1].code = e.code)
          BY <1>8, <2>4, <4>2 DEF Follows
        <5>2. CASE t[1] \in Fresh
          BY <1>2, <2>1, <4>2, <5>2 DEF Due, DueIn, Pressed, RegisteredCode
        <5>3. CASE t[1] \notin Fresh
          <6>1. t[1].code = e.code /\ t[1].repeat
            BY <1>8, <4>2, <5>1, <5>3, EventTypes
          <6>2. ~ours
            BY <1>8, <1>9, <2>4, <4>2, <5>1, <6>1
          <6>3. Pressed(xevents', held') = {t[1].code}
            BY <2>1, <4>2, <5>3 DEF Pressed
          <6>4. {t[1].code} # {} /\ {t[1].code} # {Keycode[registered.shortcut.key]}
            BY <6>1, <6>2 DEF RegisteredCode
          <6> QED
            BY <1>2, <6>2, <6>3, <6>4 DEF Due, DueIn
        <5> QED
          BY <5>2, <5>3
      <4> QED
        BY <4>1, <4>2
    <3>2. e \notin Fresh /\ answer # "activation"
      BY <1>2, <1>6, <2>4
    <3> HIDE DEF e, t, ours, repeated
    <3> QED
      BY <1>3, <1>4, <1>5, <2>1, <2>2, <2>4, <3>1, <3>2 DEF Unread
  <2> QED
    BY <1>6, <2>3, <2>4
<1>10. CASE ours /\ repeated
  <2>1. xevents' = Tail(t) /\ t # <<>> /\ t[1].type = "press" /\ t[1].code = e.code
        /\ t[1].repeat
    <3>1. t # <<>>
      BY <1>1, <1>10, AlternatesTail
    <3> QED
      BY <1>2, <1>8, <1>10, <3>1
  <2>2. /\ Alternates(Tail(t)) /\ Head(t) = t[1]
        /\ Tail(t) # <<>> => Tail(t)[Len(Tail(t))] = t[Len(t)]
        /\ Tail(t) = <<>> => Len(t) = 1
    BY <1>1, <2>1, AlternatesTail
  <2>3. QueueInv'
    BY <1>2, <1>8, <2>1, <2>2 DEF QueueInv
  <2>4. t[1] \notin Fresh /\ e \notin Fresh /\ answer # "activation"
    BY <1>2, <1>6, <1>8, <1>10, <2>1, EventTypes
  <2>5. Count(t, Fresh) = Count(Tail(t), Fresh) + 0
    BY <1>1, <2>1, <2>2, <2>4, CountTail
  <2>6. Len(t) = 1 /\ held.ours => held.combination.code = t[1].code
    <3>1. Len(t) = 1 => xevents[Len(xevents)] = t[1]
      BY <1>8, <2>1
    <3> QED
      BY <1>1, <2>1, <3>1 DEF QueueInv
  <2>7. DueIn(Tail(t), held, registered) <= 0
    <3>1. t[1].code = RegisteredCode
      BY <1>10, <2>1
    <3> HIDE DEF t
    <3>2. DueIn(Tail(t), held, registered) <=
            IF t[1].code = RegisteredCode THEN 0 ELSE 1
      BY <1>1, <2>1, <2>6, DueAfterPress DEF RegisteredCode
    <3> QED
      BY <3>1, <3>2 DEF RegisteredCode
  <2>8. Due' = DueIn(Tail(t), held, registered)
    BY <1>2, <2>1 DEF Due
  <2>9. Count(Tail(t), Fresh) \in Nat
    BY <2>2, CountType DEF Alternates
  <2> HIDE DEF e, t, ours, repeated
  <2> QED
    BY <1>3, <1>4, <2>1, <2>3, <2>4, <2>5, <2>7, <2>8, <2>9 DEF Unread
<1> QED
  BY <1>9, <1>10

\* Another grab makes at most half an activation due, and the first one none.
LEMMA GrabSpends ==
  ASSUME QueueInv, UNCHANGED <<server, held, xevents>>, pc # "gone",
         registered' = NoGrab => pc' = "gone" \/ registered = NoGrab
  PROVE  /\ QueueInv'
         /\ Unread' <= Unread + 1
         /\ registered \in {NoGrab, registered'} => Unread' <= Unread
<1>1. QueueInv'
  BY DEF QueueInv
<1>2. registered = NoGrab => Pressed(xevents, held) = {}
  BY DEF QueueInv, Pressed
<1>3. registered = NoGrab => Due' = 0
  BY <1>2 DEF Due, DueIn
<1>4. registered # NoGrab => Due' <= Due + 1
  BY DEF Due, DueIn
<1>5. registered' = registered => Due' = Due
  BY DEF Due
<1>6. Due \in 0..2 /\ Due' \in 0..2 /\ Count(xevents, Fresh) \in Nat
  BY UnreadType, DueType DEF Due
<1>7. Unread' = 2 * Count(xevents, Fresh) + Due'
  BY DEF Unread
<1> QED
  BY <1>1, <1>3, <1>4, <1>5, <1>6, <1>7 DEF Unread

ActivationMessages == {"activation", "interrupted", "failed"}

ChannelInv == chan \in Seq(ActivationMessages)

\* The activations on their way from the portal.
Coming == Count(chan, {"activation"})

\* What a step of the listener adds to the activations: on X11 what a press
\* pays for, or half of one with a grab in place of another; from the portal a
\* press each.
LEMMA ListenerSpends ==
  ASSUME SetupInv, QueueInv, ChannelInv, activations \in Nat,
         presses \in Nat, ListenerMoves, UNCHANGED instance
  PROVE  /\ QueueInv'
         /\ ChannelInv'
         /\ activations' \in Nat /\ presses' \in Nat /\ presses <= presses'
         /\ pc = "gone" => pc' = "gone"
         /\ pc' = "gone" \/ platform \notin {"x11", "portal"} => activations' = activations
         /\ platform = "x11" /\ pc' # "gone" =>
              \/ Spent' + 2 * presses <= Spent + 2 * presses'
              \/ /\ Spent' <= Spent + 1
                 /\ presses' = presses /\ registered # NoGrab /\ registered' # registered
         /\ platform = "portal" =>
              activations' + Coming' + presses <= activations + Coming + presses'
<1> DEFINE Goal == /\ QueueInv'
                   /\ ChannelInv'
                   /\ activations' \in Nat /\ presses' \in Nat /\ presses <= presses'
                   /\ pc = "gone" => pc' = "gone"
                   /\ pc' = "gone" \/ platform \notin {"x11", "portal"} =>
                        activations' = activations
                   /\ platform = "x11" /\ pc' # "gone" =>
                        \/ Spent' + 2 * presses <= Spent + 2 * presses'
                        \/ /\ Spent' <= Spent + 1
                           /\ presses' = presses /\ registered # NoGrab
                           /\ registered' # registered
                   /\ platform = "portal" =>
                        activations' + Coming' + presses <= activations + Coming + presses'
<1>1. Unread \in Nat /\ Coming \in Nat
      /\ Spent = 2 * activations + Unread /\ Spent' = 2 * activations' + Unread'
  BY UnreadType, CountType DEF Coming, Spent, ChannelInv
<1>2. QueueInv' => Unread' \in Nat
  <2> SUFFICES ASSUME QueueInv'
               PROVE  Unread' \in Nat
    OBVIOUS
  <2>1. xevents' \in Seq(KeyEvents)
    BY DEF QueueInv, Alternates
  <2>2. Count(xevents', Fresh) \in Nat /\ Due' \in 0..2
    BY <2>1, CountType, DueType DEF Due
  <2> QED
    BY <2>2 DEF Unread
<1>3. ASSUME NEW m \in ActivationMessages, chan' = Append(chan, m)
      PROVE  ChannelInv' /\ Coming' = Coming + IF m = "activation" THEN 1 ELSE 0
  <2>1. chan' \in Seq(ActivationMessages)
    BY <1>3, AppendProperties DEF ChannelInv
  <2>2. Coming' = Coming + IF m \in {"activation"} THEN 1 ELSE 0
    BY <1>3, CountAppend DEF Coming, ChannelInv
  <2> QED
    BY <2>1, <2>2 DEF ChannelInv
<1>4. ASSUME UNCHANGED <<server, held, xevents, registered, activations, presses>>,
             chan' = chan \/ chan' \in {Append(chan, "interrupted"), Append(chan, "failed")},
             pc = "gone" => pc' = "gone"
      PROVE  Goal
  <2>1. QueueInv'
    BY <1>4 DEF QueueInv
  <2>2. Unread' = Unread
    BY <1>4 DEF Unread, Due
  <2>3. ChannelInv' /\ Coming' = Coming
    <3>1. CASE chan' = chan
      BY <3>1 DEF Coming, ChannelInv
    <3>2. ASSUME NEW m \in {"interrupted", "failed"}, chan' = Append(chan, m)
          PROVE  ChannelInv' /\ Coming' = Coming
      <4>1. Coming' = Coming + 0 /\ ChannelInv'
        BY <1>3, <3>2 DEF ActivationMessages
      <4> QED
        BY <1>1, <4>1
    <3> QED
      BY <1>4, <3>1, <3>2
  <2> QED
    BY <1>1, <1>2, <1>4, <2>1, <2>2, <2>3
<1>5. ASSUME NEW s \in Shortcut, NEW result \in Results(s), Register(s, result),
             platform # "none", pc # "gone", pc' # "gone", UNCHANGED <<activations, presses>>
      PROVE  Goal
  <2>1. UNCHANGED <<server, held, xevents, chan>>
    BY <1>5 DEF Register, x11Vars, portalVars, PortalRegister
  <2>2. registered' = registered \/ registered' # NoGrab
    <3>1. CASE platform = "x11"
      <4>1. registered' = registered \/ registered'.shortcut = s
        BY <1>5, <3>1, Registers DEF SetupInv
      <4> QED
        BY <4>1, TextIsThere DEF NoGrab
    <3>2. CASE platform # "x11"
      BY <1>5, <3>2 DEF Register, x11Vars
    <3> QED
      BY <3>1, <3>2
  <2>3. QueueInv' /\ Unread' <= Unread + 1
        /\ (registered \in {NoGrab, registered'} => Unread' <= Unread)
    BY <1>5, <2>1, <2>2, GrabSpends
  <2>4. Coming' = Coming /\ ChannelInv'
    BY <2>1 DEF Coming, ChannelInv
  <2> QED
    BY <1>1, <1>2, <1>5, <2>1, <2>3, <2>4
<1>6. CASE Start \/ Rebind \/ Recheck
  <2>1. /\ pc # "gone" /\ pc' # "gone" /\ UNCHANGED <<activations, presses>>
        /\ platform # "none" /\ current \in Shortcut
    BY <1>6 DEF Start, Rebind, Recheck, Takes, Listening, boundVars, SetupInv, WorkerInv
  <2>2. CASE Start
    BY <1>5, <2>1, <2>2 DEF Start
  <2>3. CASE Rebind
    <3>1. Head(cmds).shortcut \in Shortcut
      BY <2>3, TakenCommand DEF Rebind, SetupInv, WorkerInv
    <3> QED
      BY <1>5, <2>1, <2>3, <3>1 DEF Rebind
  <2>4. CASE Recheck
    <3>1. CASE Compositor
      BY <1>5, <2>1, <2>4, <3>1 DEF Recheck
    <3>2. CASE ~Compositor
      BY <1>4, <2>1, <2>4, <3>2 DEF Recheck, x11Vars, portalVars
    <3> QED
      BY <3>1, <3>2
  <2> QED
    BY <1>6, <2>2, <2>3, <2>4
<1>7. CASE ConfigurePortal \/ CheckCommand \/ Drained \/ BackendEvent \/ EventsDrained
           \/ WaitWoken \/ WaitFails
  BY <1>4, <1>7
     DEF ConfigurePortal, CheckCommand, Drained, BackendEvent, EventsDrained, WaitWoken,
         WaitFails, X11Woken, Takes, Listening, x11Vars, portalVars, boundVars
<1>8. CASE Shutdown
  <2>1. /\ pc' = "gone" /\ UNCHANGED <<server, held, xevents, activations, presses, chan>>
    BY <1>8 DEF Shutdown, X11Drop, x11Vars, portalVars, boundVars
  <2>2. QueueInv'
    BY <2>1 DEF QueueInv
  <2>3. Coming' = Coming /\ ChannelInv'
    BY <2>1 DEF Coming, ChannelInv
  <2> QED
    BY <1>1, <1>2, <2>1, <2>2, <2>3
<1>9. ASSUME NEW answer \in {"activation", "none"}, WaitKey(answer)
      PROVE  Goal
  <2>1. /\ platform = "x11" /\ registered # NoGrab /\ X11Event(answer) /\ pc # "gone"
        /\ pc' # "gone" /\ UNCHANGED <<presses, chan>>
        /\ activations' = activations + (IF answer = "activation" THEN 1 ELSE 0)
    BY <1>9 DEF WaitKey, portalVars, boundVars
  <2>2. QueueInv' /\ (IF answer = "activation" THEN 2 ELSE 0) + Unread' <= Unread
    BY <2>1, EventSpends
  <2>3. ChannelInv'
    BY <2>1 DEF ChannelInv
  <2>4. CASE answer = "activation"
    BY <1>1, <1>2, <2>1, <2>2, <2>3, <2>4
  <2>5. CASE answer = "none"
    BY <1>1, <1>2, <2>1, <2>2, <2>3, <2>5
  <2> QED
    BY <2>4, <2>5
<1>10. CASE WaitPortal
  <2>1. /\ platform = "portal" /\ chan # <<>> /\ chan' = Tail(chan) /\ pc # "gone"
        /\ pc' # "gone" /\ UNCHANGED <<server, held, xevents, registered, presses>>
        /\ activations' = activations + (IF Head(chan) = "activation" THEN 1 ELSE 0)
    BY <1>10 DEF WaitPortal, x11Vars, boundVars
  <2>2. QueueInv'
    BY <2>1 DEF QueueInv
  <2>3. /\ Coming = Count(Tail(chan), {"activation"})
                    + (IF Head(chan) \in {"activation"} THEN 1 ELSE 0)
        /\ ChannelInv'
    BY <2>1, CountTail, QueueTail DEF Coming, ChannelInv
  <2>4. Coming' \in Nat /\ Coming' = Count(Tail(chan), {"activation"})
    BY <2>1, <2>3, CountType DEF Coming, ChannelInv
  <2>5. Coming = Coming' + (IF Head(chan) = "activation" THEN 1 ELSE 0)
    BY <2>3, <2>4
  <2>6. CASE Head(chan) = "activation"
    <3>1. Coming = Coming' + 1 /\ activations' = activations + 1
      BY <2>1, <2>5, <2>6
    <3>2. Coming \in Nat /\ Coming' \in Nat /\ presses' = presses
      BY <1>1, <2>1, <2>4
    <3>3. activations' \in Nat
      BY <3>1
    <3>4. \A a, c, p \in Nat : (a + 1) + c + p <= a + (c + 1) + p
      OBVIOUS
    <3>5. (activations + 1) + Coming' + presses <= activations + (Coming' + 1) + presses
      BY <3>2, <3>4
    <3>6. activations' + Coming' + presses <= activations + Coming + presses'
      BY <3>1, <3>2, <3>5
    <3> QED
      BY <2>1, <2>2, <2>3, <3>3, <3>6
  <2>7. CASE Head(chan) # "activation"
    <3>1. Coming = Coming' /\ activations' = activations
      BY <1>1, <2>1, <2>4, <2>5, <2>7
    <3>2. activations' + Coming' + presses <= activations + Coming + presses'
      BY <2>1, <2>4, <3>1
    <3> QED
      BY <2>1, <2>2, <2>3, <3>1, <3>2
  <2> QED
    BY <2>6, <2>7
<1>11. CASE ChangedStep
  BY <1>4, <1>11 DEF ChangedStep, Subscribe, ReadChanged, x11Vars, workerVars, boundVars
<1>12. CASE Disturbance
  <2>1. UNCHANGED <<activations, presses, pc>>
    BY <1>12 DEF Disturbance, workerVars
  <2>2. CASE HangUp /\ UNCHANGED portalVars
    <3>1. QueueInv' /\ Unread' <= Unread
      BY <2>1, <2>2, KeysSpend DEF SetupInv
    <3>2. Coming' = Coming /\ ChannelInv'
      BY <2>2 DEF portalVars, Coming, ChannelInv
    <3> QED
      BY <1>1, <1>2, <2>1, <3>1, <3>2
  <2>3. CASE ~(HangUp /\ UNCHANGED portalVars)
    BY <1>4, <1>12, <2>1, <2>3
       DEF Disturbance, OtherGrabs, OtherReleases, PortalChange, PortalRestart, StreamEnds,
           x11Vars, portalVars
  <2> QED
    BY <2>2, <2>3
<1>13. CASE Keyboard
  <2>1. UNCHANGED <<activations, pc>>
    BY <1>13 DEF Keyboard, workerVars
  <2>2. CASE /\ platform = "portal" /\ PortalActivated /\ presses' = presses + 1
             /\ UNCHANGED x11Vars
    <3>1. chan' = Append(chan, "activation") /\ UNCHANGED <<server, held, xevents, registered>>
      BY <2>2 DEF PortalActivated, x11Vars
    <3>2. ChannelInv' /\ Coming' = Coming + 1
      BY <1>3, <3>1 DEF ActivationMessages
    <3>3. QueueInv'
      BY <2>1, <3>1 DEF QueueInv
    <3> QED
      BY <1>1, <1>2, <2>1, <2>2, <3>2, <3>3
  <2>3. CASE /\ platform = "x11" /\ UNCHANGED portalVars
             /\ \/ presses' = presses + 1 /\ \E m \in Mask : Press(m)
                \/ presses' = presses /\ (AutoRepeat \/ Release)
    <3>1. QueueInv' /\ Unread' <= Unread + 2
          /\ (AutoRepeat \/ Release => Unread' <= Unread)
      BY <2>1, <2>3, KeysSpend DEF SetupInv
    <3>2. Coming' = Coming /\ ChannelInv'
      BY <2>3 DEF portalVars, Coming, ChannelInv
    <3>3. Unread' + 2 * presses <= Unread + 2 * presses'
          /\ presses' \in Nat /\ presses <= presses'
      <4>1. CASE presses' = presses + 1
        BY <1>1, <1>2, <3>1, <4>1
      <4>2. CASE presses' = presses /\ Unread' <= Unread
        BY <1>1, <1>2, <3>1, <4>2
      <4> QED
        BY <2>3, <3>1, <4>1, <4>2
    <3> QED
      BY <1>1, <1>2, <2>1, <2>3, <3>1, <3>2, <3>3
  <2> QED
    BY <1>13, <2>2, <2>3 DEF Keyboard
<1>14. CASE Sends
  BY <1>4, <1>14 DEF Sends, Send, boundVars
<1>15. CASE GivesUp \/ LoadsFile \/ UNCHANGED runtimeVars
  BY <1>4, <1>15
     DEF GivesUp, LoadsFile, runtimeVars, x11Vars, portalVars, workerVars, boundVars
<1> QED
  BY <1>6, <1>7, <1>8, <1>9, <1>10, <1>11, <1>12, <1>13, <1>14, <1>15
     DEF ListenerMoves, WorkerStep

\* Halves of activations the call may still cost: a rebind to come, and for a
\* set the rollback too.
CallMay ==
  CASE coord.at \in {"reload", "rollback"} /\ reply = NoReply -> 1
    [] coord.at = "rebind" /\ reply = NoReply -> 2
    [] coord.at = "rebind" /\ reply = "Ok" -> 1
    [] OTHER -> 0

\* Those of the action that was asked for and has not got the gate.
ActionMay == IF action.stage = "sent" THEN 2 ELSE 0

\* What was spent and what may yet be is paid for by presses and calls.
AccountInv ==
  /\ QueueInv
  /\ ChannelInv
  /\ activations \in Nat /\ presses \in Nat /\ calls \in Nat
  /\ activations <= presses + calls
  /\ platform = "x11" /\ pc # "gone" =>
       Spent + CallMay + ActionMay <= 2 * presses + 2 * calls
  /\ platform = "portal" => activations + Coming <= presses

\* A call costs at most a rebind and its rollback.
LEMMA MayType ==
  /\ CallMay \in 0..2 /\ ActionMay \in {0, 2}
  /\ coord.at \notin {"reload", "rebind", "rollback"} => CallMay = 0
<1>1. CallMay \in 0..2
  BY DEF CallMay
<1>2. coord.at \notin {"reload", "rebind", "rollback"} => CallMay = 0
  BY DEF CallMay
<1> QED
  BY <1>1, <1>2 DEF ActionMay

\* The worker answers a call that waits, and nobody else.
LEMMA AnswersOnce ==
  ASSUME SetupInv, WorkerStep
  PROVE  reply' = reply \/ reply = NoReply
<1>1. ASSUME NEW kind \in CommandKinds \ {"Shutdown"}, Takes(kind), NEW value,
             Answer(Head(cmds), value)
      PROVE  reply' = reply \/ reply = NoReply
  <2>1. cmds # <<>> /\ pc # "gone" /\ Head(cmds).kind = kind
    BY <1>1 DEF Takes, Listening
  <2>2. 1 \in DOMAIN cmds /\ Head(cmds) = cmds[1]
    BY <2>1, CommandQueue DEF SetupInv, WorkerInv
  <2>3. CASE Head(cmds).awaited
    <3>1. Outstanding(1)
      BY <1>1, <2>1, <2>2, <2>3 DEF Outstanding
    <3> QED
      BY <2>1, <2>2, <3>1 DEF SetupInv, CommandInv
  <2>4. CASE ~Head(cmds).awaited
    BY <1>1, <2>4 DEF Answer
  <2> QED
    BY <2>3, <2>4
<1>2. CASE Rebind
  BY <1>1, <1>2 DEF Rebind, CommandKinds
<1>3. CASE Recheck
  BY <1>1, <1>3 DEF Recheck, CommandKinds
<1>4. CASE ConfigurePortal \/ CheckCommand
  BY <1>1, <1>4 DEF ConfigurePortal, CheckCommand, CommandKinds
<1>5. CASE \/ Start \/ Shutdown \/ Drained \/ BackendEvent \/ EventsDrained \/ WaitWoken
           \/ WaitPortal \/ WaitFails \/ \E answer \in {"activation", "none"} : WaitKey(answer)
  BY <1>5
     DEF Start, Shutdown, Drained, BackendEvent, EventsDrained, WaitWoken, WaitPortal,
         WaitFails, WaitKey
<1> QED
  BY <1>2, <1>3, <1>4, <1>5 DEF WorkerStep

\* What a call does while it has the gate costs no more than it might have.
LEMMA CallSpends ==
  ASSUME CallReturns \/ Advance \/ RecheckTimesOut
  PROVE  calls' = calls /\ CallMay' <= CallMay
<1>1. calls' = calls
  BY DEF CallReturns, Return, Advance, RecheckTimesOut, Closed, Answered, RebindFailed, Commit,
         CommitFailed, RollbackEnds, PreflightRefused, PreflightCleared
<1>2. CallMay \in 0..2
  BY MayType
<1>3. CASE CommitFailed
  <2>1. coord.at = "rebind" /\ reply = "Ok"
    BY <1>3 DEF CommitFailed
  <2>2. CallMay = 1
    BY <2>1 DEF CallMay, NoReply
  <2>3. coord'.at \in {"end", "rollback"}
    BY <1>3 DEF CommitFailed, Asks, Ends, At
  <2>4. CallMay' \in {0, 1}
    BY <2>3 DEF CallMay
  <2> QED
    BY <1>1, <2>2, <2>4
<1>4. CASE ~CommitFailed
  <2>1. coord'.at \in {"idle", "end", "reprobe"}
    BY <1>4
       DEF CallReturns, Return, Advance, RecheckTimesOut, Closed, Answered, RebindFailed,
           Commit, RollbackEnds, PreflightRefused, PreflightCleared, CommitCompositor, Asks,
           End, Ends, At, NoCall
  <2>2. CallMay' = 0
    BY <2>1 DEF CallMay
  <2> QED
    BY <1>1, <1>2, <2>2
<1> QED
  BY <1>3, <1>4

\* A call that gets the gate held nothing; a recheck costs nothing.
LEMMA CallBegins ==
  ASSUME SetupInv, calls \in Nat, NEW caller, Call(caller) \/ RecheckCall(caller)
  PROVE  /\ CallMay = 0
         /\ CallMay' \in 0..2
         /\ RecheckCall(caller) => CallMay' = 0
         /\ calls' = calls + (IF caller \in Counted THEN 1 ELSE 0)
<1>1. Begins(caller)
  BY DEF Call, Reload, RecheckCall, PortalCall, SetRefused, SetNotPrepared, SetNative,
         SetCompositor
<1>2. CallMay = 0
  BY <1>1, MayType DEF Begins, Idle, NoCall
<1>3. CallMay' \in 0..2
  BY DEF CallMay
<1>4. RecheckCall(caller) => coord'.at \in {"end", "recheck"}
  BY DEF RecheckCall, Asks, Ends, At
<1>5. RecheckCall(caller) => CallMay' = 0
  BY <1>4 DEF CallMay
<1>6. calls' = calls + (IF caller \in Counted THEN 1 ELSE 0)
  BY <1>1 DEF Begins
<1> QED
  BY <1>2, <1>3, <1>5, <1>6

\* What a step lets the calls and the action cost is paid for by a call.
LEMMA CreditKept ==
  ASSUME SetupInv, calls \in Nat, [SNext]_svars
  PROVE  /\ calls' \in Nat /\ calls <= calls'
         /\ 2 * calls + CallMay' + ActionMay' <= 2 * calls' + CallMay + ActionMay
<1> DEFINE Goal == /\ calls' \in Nat /\ calls <= calls'
                   /\ 2 * calls + CallMay' + ActionMay' <= 2 * calls' + CallMay + ActionMay
<1>1. /\ CallMay \in 0..2 /\ CallMay' \in 0..2
      /\ ActionMay \in {0, 2} /\ ActionMay' \in {0, 2}
  BY DEF CallMay, ActionMay
<1>2. ASSUME CallMay' <= CallMay, ActionMay' <= ActionMay, calls' = calls
      PROVE  Goal
  <2>1. \A c \in Nat, m, n \in 0..2, a, b \in {0, 2} :
          n <= m /\ b <= a => 2 * c + n + b <= 2 * c + m + a
    OBVIOUS
  <2>2. 2 * calls + CallMay' + ActionMay' <= 2 * calls + CallMay + ActionMay
    BY <1>1, <1>2, <2>1
  <2> QED
    BY <1>2, <2>2
<1>3. ASSUME CallMay' = CallMay, ActionMay = 0, calls' = calls + 1
       PROVE  Goal
  <2>1. \A c \in Nat, m \in 0..2, b \in {0, 2} : 2 * c + m + b <= 2 * (c + 1) + m + 0
    OBVIOUS
  <2>2. 2 * calls + CallMay + ActionMay' <= 2 * (calls + 1) + CallMay + 0
    BY <1>1, <2>1
  <2>3. calls + 1 \in Nat /\ calls <= calls + 1
    OBVIOUS
  <2> QED
    BY <1>3, <2>2, <2>3
<1>4. ASSUME CallMay = 0, ActionMay' = ActionMay, calls' = calls + 1
       PROVE  Goal
  <2>1. \A c \in Nat, n \in 0..2, a \in {0, 2} : 2 * c + n + a <= 2 * (c + 1) + 0 + a
    OBVIOUS
  <2>2. 2 * calls + CallMay' + ActionMay <= 2 * (calls + 1) + 0 + ActionMay
    BY <1>1, <2>1
  <2>3. calls + 1 \in Nat /\ calls <= calls + 1
    OBVIOUS
  <2> QED
    BY <1>4, <2>2, <2>3
<1>5. ASSUME CallMay = 0, ActionMay = 2, ActionMay' = 0, calls' = calls
       PROVE  Goal
  <2>1. \A c \in Nat, n \in 0..2 : 2 * c + n + 0 <= 2 * c + 0 + 2
    OBVIOUS
  <2>2. 2 * calls + CallMay' + 0 <= 2 * calls + 0 + 2
    BY <1>1, <2>1
  <2> QED
    BY <1>5, <2>2
<1>6. /\ CallMay' \in {CallMay, 0} => CallMay' <= CallMay
      /\ ActionMay' \in {ActionMay, 0} => ActionMay' <= ActionMay
  BY <1>1
<1> SUFFICES Goal
  OBVIOUS
<1> HIDE DEF Goal
<1>7. UNCHANGED <<coord, reply>> => CallMay' = CallMay
  BY DEF CallMay
<1>8. UNCHANGED action => ActionMay' = ActionMay
  BY DEF ActionMay
<1>9. action'.stage # "sent" => ActionMay' = 0
  BY DEF ActionMay
<1>10. UNCHANGED rvars => UNCHANGED <<coord, reply, calls>>
  BY DEF rvars, lvars, workerVars
<1>11. UNCHANGED popupVars => ActionMay' = ActionMay
  BY <1>8 DEF popupVars
<1>12. CASE UNCHANGED svars
  BY <1>2, <1>6, <1>7, <1>10, <1>11, <1>12 DEF svars
<1>13. CASE Running /\ Clicks
  <2>1. CASE Save \/ AskPortal
    <3>1. action = NoRequest /\ calls' = calls + 1 /\ UNCHANGED <<coord, reply>>
      BY <2>1 DEF Save, AskPortal, Act, lvars, workerVars
    <3>2. ActionMay = 0 /\ CallMay' = CallMay
      BY <1>7, <3>1 DEF ActionMay, NoRequest
    <3> QED
      BY <1>3, <3>1, <3>2
  <2>2. CASE ReloadSway
    <3>1. UNCHANGED <<coord, reply, calls, action>>
      BY <2>2 DEF ReloadSway, workerVars
    <3> QED
      BY <1>2, <1>6, <1>7, <1>8, <3>1
  <2>3. CASE UNCHANGED rvars /\ (UNCHANGED action \/ action' = NoRequest)
    <3>1. ActionMay' = ActionMay \/ ActionMay' = 0
      BY <1>8, <1>9, <2>3 DEF NoRequest
    <3> QED
      BY <1>2, <1>6, <1>7, <1>10, <2>3, <3>1
  <2> QED
    BY <1>13, <2>1, <2>2, <2>3
       DEF Clicks, Close, OpenSetup, BackToHistory, Escape, Change, Capture, CancelRecording,
           Discard
<1>14. CASE PopupWorks
  <2>1. UNCHANGED rvars /\ (UNCHANGED action \/ action' = NoRequest)
    BY <1>14 DEF PopupWorks, StartPoll, GetStatus, ReadPoll, ReadAction
  <2>2. ActionMay' = ActionMay \/ ActionMay' = 0
    BY <1>8, <1>9, <2>1 DEF NoRequest
  <2> QED
    BY <1>2, <1>6, <1>7, <1>10, <2>1, <2>2
<1>15. CASE PollBegins
  <2>1. RecheckCall("poll") /\ UNCHANGED action
    BY <1>15 DEF PollBegins
  <2>2. CallMay' = 0 /\ CallMay = 0 /\ calls' = calls
    BY <2>1, CallBegins DEF Counted
  <2> QED
    BY <1>2, <1>6, <1>8, <2>1, <2>2
<1>16. CASE ActionBegins
  <2>1. ActionMay = 2
    BY <1>16 DEF ActionBegins, ActionMay
  <2>2. action'.stage = "begun"
    BY <1>16 DEF ActionBegins, SetupInv, ViewInv, RequestType
  <2>3. \E s \in Shortcut : PortalCall("popup") \/ SetRefused("popup", s)
                            \/ SetNotPrepared("popup", s) \/ SetNative("popup", s)
                            \/ SetCompositor("popup", s)
    BY <1>16, ConfigAssumption DEF ActionBegins, SetupInv, ViewInv
  <2>4. Call("popup")
    BY <2>3 DEF Call
  <2>5. CallMay = 0 /\ calls' = calls + 0
    BY <2>4, CallBegins DEF Counted
  <2>6. calls' = calls
    BY <2>5
  <2> QED
    BY <1>9, <1>5, <2>1, <2>2, <2>5, <2>6
<1>17. CASE CallReturns \/ (UNCHANGED popupVars /\ Advance)
  <2>1. ActionMay' <= ActionMay
    <3>1. CASE UNCHANGED popupVars
      BY <1>6, <1>11, <3>1
    <3>2. CASE CallReturns
      <4>1. action' = action \/ action'.stage = "answered"
        BY <3>2 DEF CallReturns, Answering, SetupInv, ViewInv, RequestType
      <4> QED
        BY <1>6, <1>8, <1>9, <4>1
    <3> QED
      BY <1>17, <3>1, <3>2
  <2>2. calls' = calls /\ CallMay' <= CallMay
    BY <1>17, CallSpends
  <2> QED
    BY <1>2, <2>1, <2>2
<1>18. CASE UNCHANGED popupVars /\ Happens
  <2>1. ActionMay' = ActionMay
    BY <1>11, <1>18
  <2>2. CASE Worker
    <3>1. UNCHANGED <<coord, calls>> /\ (reply' = reply \/ reply = NoReply)
      BY <2>2, AnswersOnce DEF Worker
    <3>2. CallMay' <= CallMay
      <4>1. CASE reply' = reply
        BY <1>6, <1>7, <3>1, <4>1
      <4>2. CASE reply = NoReply
        BY <3>1, <4>2 DEF CallMay, NoReply
      <4> QED
        BY <3>1, <4>1, <4>2
    <3> QED
      BY <1>2, <1>6, <2>1, <3>1, <3>2
  <2>3. CASE RecheckTimesOut
    BY <1>2, <1>6, <2>1, <2>3, CallSpends
  <2>4. CASE ReadSignals \/ (World /\ ~RecheckTimesOut)
    <3>1. UNCHANGED <<coord, reply, calls>>
      BY <2>4
         DEF ReadSignals, World, ChangedStep, Disturbance, Keyboard, EditConfig, Stop, Drop,
             workerVars, runtimeVars
    <3> QED
      BY <1>2, <1>6, <1>7, <2>1, <3>1
  <2>5. CASE OtherCall
    <3>1. CallMay = 0 /\ calls' = calls + 1
      <4>1. ASSUME NEW caller \in Counted, Call(caller) \/ RecheckCall(caller)
            PROVE  CallMay = 0 /\ calls' = calls + 1
        BY <4>1, CallBegins
      <4> QED
        BY <2>5, <4>1 DEF OtherCall, Counted
    <3> QED
      BY <1>4, <2>1, <3>1
  <2> QED
    BY <1>18, <2>2, <2>3, <2>4, <2>5 DEF Happens
<1> QED
  BY <1>12, <1>13, <1>14, <1>15, <1>16, <1>17, <1>18 DEF SNext, Calls, Begin

\* Only the worker changes what is grabbed, and the shortcut in place of another
\* only when it obeys a rebind.
LEMMA GrabReplaced ==
  ASSUME SetupInv, [SNext]_svars, platform = "x11",
         registered # NoGrab, registered' # registered, pc' # "gone"
  PROVE  UNCHANGED popupVars /\ Worker /\ Rebind
<1>1. ASSUME NEW caller, NEW op, NEW s, NEW at, NEW kind, NEW arg, NEW gone,
             Asks(caller, op, s, at, kind, arg, gone)
      PROVE  FALSE
  BY <1>1 DEF Asks, Send, runtimeVars, x11Vars
<1>2. ~UNCHANGED x11Vars
  BY DEF x11Vars
<1>3. ~UNCHANGED lvars /\ ~UNCHANGED runtimeVars /\ ~UNCHANGED rvars
  BY <1>2 DEF rvars, lvars, runtimeVars
<1>4. ASSUME NEW caller
      PROVE  ~Call(caller) /\ ~RecheckCall(caller)
  BY <1>1, <1>3
     DEF Call, Reload, RecheckCall, PortalCall, SetRefused, SetNotPrepared, SetNative,
         SetCompositor, CommitCompositor
<1>5. ~Begin
  <2>1. ActionBegins => \E s \in Triggers : \/ PortalCall("popup") \/ SetRefused("popup", s)
                                            \/ SetNotPrepared("popup", s)
                                            \/ SetNative("popup", s) \/ SetCompositor("popup", s)
    BY DEF ActionBegins, SetupInv, ViewInv, RequestType
  <2> QED
    BY <1>1, <1>3, <1>4, <2>1
       DEF Begin, PollBegins, PortalCall, SetRefused, SetNotPrepared, SetNative,
           SetCompositor, CommitCompositor
<1>6. ~CallReturns /\ ~Advance
  BY <1>1, <1>3
     DEF CallReturns, Return, Advance, Closed, Answered, RebindFailed, Commit, CommitFailed,
         RollbackEnds, PreflightRefused, PreflightCleared, CommitCompositor
<1>7. ~Clicks /\ ~PopupWorks
  BY <1>2, <1>3
     DEF Clicks, Close, OpenSetup, BackToHistory, Escape, Change, Capture, CancelRecording,
         Discard, Save, AskPortal, Act, ReloadSway, PopupWorks, StartPoll, GetStatus, ReadPoll,
         ReadAction
<1>8. ~World /\ ~ReadSignals
  BY <1>2, <1>3
     DEF World, ReadSignals, ChangedStep, Disturbance, HangUp, OtherGrabs, OtherReleases,
         Keyboard, Press, AutoRepeat, Release, EditConfig, RecheckTimesOut, Stop, Drop, Send,
         Compositor
<1>9. UNCHANGED popupVars /\ Worker
  BY <1>3, <1>4, <1>5, <1>6, <1>7, <1>8 DEF SNext, svars, Calls, Happens, OtherCall
<1>10. Rebind
  <2>1. /\ ~Start /\ ~Recheck /\ ~ConfigurePortal /\ ~CheckCommand /\ ~Shutdown
        /\ ~Drained /\ ~BackendEvent /\ ~EventsDrained /\ ~WaitWoken /\ ~WaitPortal /\ ~WaitFails
    BY <1>2
       DEF SetupInv, WorkerInv, Start, Recheck, ConfigurePortal, CheckCommand, Shutdown,
           Drained, BackendEvent, EventsDrained, WaitWoken, X11Woken, WaitPortal, WaitFails,
           Compositor
  <2>2. \A answer \in {"activation", "none"} : ~WaitKey(answer)
    BY DEF WaitKey, X11Event
  <2> QED
    BY <1>9, <2>1, <2>2 DEF Worker, WorkerStep
<1> QED
  BY <1>9, <1>10

\* A grab in place of another is what a rebind of the call was to cost.
LEMMA GrabCost ==
  ASSUME SetupInv, calls \in Nat, [SNext]_svars, platform = "x11",
         registered # NoGrab, registered' # registered, pc' # "gone"
  PROVE  /\ calls' = calls
         /\ CallMay' + ActionMay' + 1 <= CallMay + ActionMay
<1>1. UNCHANGED popupVars /\ UNCHANGED <<coord, calls, instance>> /\ Rebind
  BY GrabReplaced DEF Worker, Rebind, boundVars
<1>2. PICK result \in Results(Head(cmds).shortcut) :
        /\ Register(Head(cmds).shortcut, result)
        /\ Answer(Head(cmds), IF Ok(result) THEN "Ok" ELSE result)
  BY <1>1 DEF Rebind
<1>3. Head(cmds).shortcut \in Shortcut
  BY <1>1, TakenCommand DEF Rebind, SetupInv, WorkerInv
<1>4. result = "Active"
  BY <1>1, <1>2, <1>3, Registers DEF SetupInv
<1>5. cmds # <<>> /\ pc # "gone" /\ Head(cmds).kind = "Rebind"
  BY <1>1 DEF Rebind, Takes, Listening
<1>6. 1 \in DOMAIN cmds /\ Head(cmds) = cmds[1]
  BY <1>5, CommandQueue DEF SetupInv, WorkerInv
<1>7. Head(cmds).awaited /\ Serves(coord.at) = "Rebind" /\ reply = NoReply
  BY <1>5, <1>6 DEF SetupInv, CommandInv, Outstanding
<1>8. coord.at \in {"reload", "rebind", "rollback"}
  BY <1>7 DEF Serves, SetupInv, CallInv, Compositor
<1>9. reply' = "Ok"
  BY <1>2, <1>4, <1>7 DEF Answer, Ok
<1>10. CallMay = IF coord.at = "rebind" THEN 2 ELSE 1
  <2>1. CASE coord.at = "rebind"
    <3>1. coord.at \notin {"reload", "rollback"} /\ reply # "Ok"
      BY <1>7, <2>1 DEF NoReply
    <3> QED
      BY <1>7, <2>1, <3>1 DEF CallMay
  <2>2. CASE coord.at \in {"reload", "rollback"}
    BY <1>7, <2>2 DEF CallMay
  <2> QED
    BY <1>8, <2>1, <2>2
<1>11. CallMay' = IF coord.at = "rebind" THEN 1 ELSE 0
  BY <1>1, <1>8, <1>9 DEF CallMay, NoReply
<1>12. ActionMay' = ActionMay /\ ActionMay \in {0, 2}
  BY <1>1 DEF ActionMay, popupVars
<1> QED
  BY <1>1, <1>10, <1>11, <1>12

\* Nothing is pressed, asked or on its way when the worker starts.
LEMMA AccountStarts == SInit => AccountInv
<1> SUFFICES ASSUME SInit PROVE AccountInv
  OBVIOUS
<1>1. /\ xevents = <<>> /\ held = NotHeld /\ registered = NoGrab /\ chan = <<>>
      /\ activations = 0 /\ presses = 0 /\ calls = 0 /\ coord = NoCall /\ action = NoRequest
  BY DEF SInit, RInit, LInit, X11Init, PortalInit, PopupInit
<1>2. <<>> \in Seq(KeyEvents) /\ Len(<<>>) = 0 /\ <<>> \in Seq(ActivationMessages)
  BY EmptySeq
<1>3. Alternates(<<>>)
  BY <1>2 DEF Alternates
<1>4. QueueInv
  BY <1>1, <1>3 DEF QueueInv, NotHeld
<1>5. ChannelInv
  BY <1>1, <1>2 DEF ChannelInv
<1>6. Coming = 0 /\ Count(xevents, Fresh) = 0
  BY <1>1, CountEmpty DEF Coming
<1>7. Due = 0
  BY <1>1 DEF Due, DueIn
<1>8. Unread = 0
  BY <1>6, <1>7 DEF Unread
<1>9. Spent = 0
  BY <1>1, <1>8 DEF Spent
<1>10. CallMay = 0 /\ ActionMay = 0
  BY <1>1 DEF CallMay, ActionMay, NoCall, NoRequest
<1> QED
  BY <1>1, <1>4, <1>5, <1>6, <1>9, <1>10 DEF AccountInv

\* Every step of the setup keeps the account.
LEMMA AccountStep ==
  ASSUME SetupInv, AccountInv, [SNext]_svars
  PROVE  AccountInv'
<1>1. ListenerMoves /\ UNCHANGED instance /\ platform' = platform
  BY SetupMoves DEF SetupInv, CoordInv, platform
<1>2. /\ calls \in Nat /\ presses \in Nat /\ activations \in Nat
      /\ activations <= presses + calls
      /\ platform = "portal" => activations + Coming <= presses
      /\ platform = "x11" /\ pc # "gone" =>
           Spent + CallMay + ActionMay <= 2 * presses + 2 * calls
  BY DEF AccountInv
<1>3. /\ QueueInv' /\ ChannelInv'
      /\ activations' \in Nat /\ presses' \in Nat /\ presses <= presses'
      /\ pc = "gone" => pc' = "gone"
      /\ pc' = "gone" \/ platform \notin {"x11", "portal"} => activations' = activations
      /\ platform = "x11" /\ pc' # "gone" =>
           \/ Spent' + 2 * presses <= Spent + 2 * presses'
           \/ /\ Spent' <= Spent + 1
              /\ presses' = presses /\ registered # NoGrab /\ registered' # registered
      /\ platform = "portal" =>
           activations' + Coming' + presses <= activations + Coming + presses'
  BY <1>1, <1>2, ListenerSpends DEF AccountInv
<1>4. /\ calls' \in Nat /\ calls <= calls'
      /\ 2 * calls + CallMay' + ActionMay' <= 2 * calls' + CallMay + ActionMay
  BY <1>2, CreditKept
<1>5. /\ CallMay \in Nat /\ CallMay' \in Nat
      /\ ActionMay \in Nat /\ ActionMay' \in Nat
  BY DEF CallMay, ActionMay
<1>6. /\ Coming \in Nat /\ Coming' \in Nat
  <2>1. chan \in Seq(ActivationMessages) /\ chan' \in Seq(ActivationMessages)
    BY <1>3 DEF AccountInv, ChannelInv
  <2> QED
    BY <2>1, CountType DEF Coming
<1>7. Spent \in Nat /\ Spent' \in Nat /\ 2 * activations <= Spent /\ 2 * activations' <= Spent'
  <2>1. xevents \in Seq(KeyEvents) /\ xevents' \in Seq(KeyEvents)
    BY <1>3 DEF AccountInv, QueueInv, Alternates
  <2>2. /\ Count(xevents, Fresh) \in Nat /\ Count(xevents', Fresh) \in Nat
        /\ Due \in 0..2 /\ Due' \in 0..2
    BY <2>1, CountType, DueType DEF Due
  <2>3. Unread \in Nat /\ Unread' \in Nat
    BY <2>2 DEF Unread
  <2>4. \A a, u \in Nat : 2 * a + u \in Nat /\ 2 * a <= 2 * a + u
    OBVIOUS
  <2> QED
    BY <1>2, <1>3, <2>3, <2>4 DEF Spent
<1>8. platform' = "portal" => activations' + Coming' <= presses'
  <2> SUFFICES ASSUME platform = "portal"
               PROVE  activations' + Coming' <= presses'
    BY <1>1
  <2>1. \A a, b, p, q \in Nat : a + p <= b + q /\ b <= p => a <= q
    OBVIOUS
  <2>2. activations' + Coming' \in Nat /\ activations + Coming \in Nat
    <3>1. \A a, c \in Nat : a + c \in Nat
      OBVIOUS
    <3> QED
      BY <1>2, <1>3, <1>6, <3>1
  <2>3. (activations' + Coming') + presses <= (activations + Coming) + presses'
    BY <1>3
  <2> QED
    BY <1>2, <1>3, <2>1, <2>2, <2>3
<1>9. platform' = "x11" /\ pc' # "gone" =>
        Spent' + CallMay' + ActionMay' <= 2 * presses' + 2 * calls'
  <2> SUFFICES ASSUME platform = "x11", pc' # "gone"
               PROVE  Spent' + CallMay' + ActionMay' <= 2 * presses' + 2 * calls'
    BY <1>1
  <2>1. pc # "gone"
    BY <1>3
  <2>2. Spent + CallMay + ActionMay <= 2 * presses + 2 * calls
    BY <1>2, <2>1
  <2>3. \A s, m, a \in Nat : m + a \in Nat /\ s + m + a = s + (m + a)
    OBVIOUS
  <2>4. /\ Spent + (CallMay + ActionMay) <= 2 * presses + 2 * calls
        /\ \A s \in Nat : s + CallMay' + ActionMay' = s + (CallMay' + ActionMay')
    BY <1>5, <1>7, <2>2, <2>3
  <2>5. CASE Spent' + 2 * presses <= Spent + 2 * presses'
    <3>1. \A s, m, t, p, q, c \in Nat : s + m <= p + c /\ t + p <= s + q => t + m <= q + c
      OBVIOUS
    <3>2. \A t, m, n, q, c, d \in Nat : t + m <= q + c /\ c + n <= d + m => t + n <= q + d
      OBVIOUS
    <3>3. /\ 2 * presses \in Nat /\ 2 * presses' \in Nat
          /\ 2 * calls \in Nat /\ 2 * calls' \in Nat
      <4>1. \A n \in Nat : 2 * n \in Nat
        OBVIOUS
      <4> QED
        BY <1>2, <1>3, <1>4, <4>1
    <3>4. CallMay + ActionMay \in Nat /\ CallMay' + ActionMay' \in Nat
      BY <1>5, <2>3
    <3>5. /\ Spent + (CallMay + ActionMay) <= 2 * presses + 2 * calls
          /\ 2 * calls + (CallMay' + ActionMay') <= 2 * calls' + (CallMay + ActionMay)
      <4>1. /\ 2 * calls \in Nat
            /\ 2 * calls' + CallMay + ActionMay = 2 * calls' + (CallMay + ActionMay)
        BY <1>2, <1>4, <1>5, <2>3
      <4> QED
        BY <1>4, <2>4, <4>1
    <3>6. Spent' + (CallMay + ActionMay) <= 2 * presses' + 2 * calls
      BY <1>7, <2>5, <3>1, <3>3, <3>4, <3>5
    <3>7. Spent' + (CallMay' + ActionMay') <= 2 * presses' + 2 * calls'
      BY <1>7, <3>2, <3>3, <3>4, <3>5, <3>6
    <3> QED
      BY <1>7, <2>4, <3>7
  <2>6. CASE /\ Spent' <= Spent + 1
             /\ presses' = presses /\ registered # NoGrab /\ registered' # registered
    <3>1. calls' = calls /\ CallMay' + ActionMay' + 1 <= CallMay + ActionMay
      BY <1>2, <2>6, GrabCost
    <3>2. \A s, t, m, n, p, c \in Nat :
            s + m <= 2 * p + 2 * c /\ t <= s + 1 /\ n + 1 <= m => t + n <= 2 * p + 2 * c
      OBVIOUS
    <3>3. CallMay + ActionMay \in Nat /\ CallMay' + ActionMay' \in Nat
      BY <1>5, <2>3
    <3>4. /\ Spent + (CallMay + ActionMay) <= 2 * presses + 2 * calls
          /\ (CallMay' + ActionMay') + 1 <= (CallMay + ActionMay)
      BY <2>4, <3>1
    <3>5. Spent' + (CallMay' + ActionMay') <= 2 * presses + 2 * calls
      BY <1>2, <1>7, <2>6, <3>2, <3>3, <3>4
    <3>6. Spent' + (CallMay' + ActionMay') <= 2 * presses' + 2 * calls'
      BY <2>6, <3>1, <3>5
    <3> QED
      BY <1>7, <2>4, <3>6
  <2> QED
    BY <1>3, <2>5, <2>6
<1>10. activations' <= presses' + calls'
  <2>1. CASE activations' = activations
    <3>1. \A a, p, q, c, d \in Nat : a <= p + c /\ p <= q /\ c <= d => a <= q + d
      OBVIOUS
    <3> QED
      BY <1>2, <1>3, <1>4, <2>1, <3>1
  <2>2. CASE platform = "portal"
    <3>1. \A a, m, p, c \in Nat : a + m <= p => a <= p + c
      OBVIOUS
    <3> QED
      BY <1>1, <1>3, <1>4, <1>6, <1>8, <2>2, <3>1
  <2>3. CASE platform = "x11" /\ pc' # "gone"
    <3>1. \A a, s, m, n, p, c \in Nat : 2 * a <= s /\ s + m + n <= 2 * p + 2 * c => a <= p + c
      OBVIOUS
    <3>2. CallMay' \in Nat /\ ActionMay' \in Nat
      BY <1>5
    <3> QED
      BY <1>1, <1>3, <1>4, <1>7, <1>9, <2>3, <3>1, <3>2
  <2> QED
    BY <1>3, <2>1, <2>2, <2>3
<1> QED
  BY <1>3, <1>4, <1>8, <1>9, <1>10 DEF AccountInv

\* One press of the shortcut opens the popup once; a call may open it once more.
THEOREM PressesPay == SFairSpec => []OneActivationPerPress
<1>1. SInit => SetupInv /\ AccountInv
  BY SetupStarts, AccountStarts
<1>2. (SetupInv /\ AccountInv) /\ [SNext]_svars => (SetupInv /\ AccountInv)'
  BY SetupStep, AccountStep
<1>3. AccountInv => OneActivationPerPress
  BY DEF AccountInv, OneActivationPerPress
<1> QED
  BY <1>1, <1>2, <1>3, PTL DEF SFairSpec, SSpec
=============================================================================
