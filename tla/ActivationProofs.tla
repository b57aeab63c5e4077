-------------------------- MODULE ActivationProofs --------------------------
(***************************************************************************)
(* Theorems about Activation: its types, the self-write marker, the copies *)
(* it costs and those it keeps, and the answers of activations, for any    *)
(* number of connections, copies, windows and selections.                  *)
(***************************************************************************)
EXTENDS Activation, FiniteSetTheorems, TLAPS

Entry == [content : Copies \cup {NoContent}, by : Owners]

\* The activations of all connections.
ActEntry ==
  [pc : ActPcs, item : Items \cup {NoContent}, id : 0..lastId,
   target : Windows \cup {NoTarget},
   did : SUBSET {"write", "promote", "confirm", "paste"}, outcome : Outcomes]

Acts == [Clients -> ActEntry]

\* Serial k is one of a copy, not of a clipboard left empty.
IsCopy(k) == k \in DOMAIN owned /\ owned[k].content \in Copies

\* Only copies are read, delivered and saved.
OnlyCopies ==
  /\ \A k \in DOMAIN owned : IsCopy(k) \/ owned[k] = Gone
  /\ \A k \in unread \cup reading : IsCopy(k)
  /\ \A i \in DOMAIN channel : IsCopy(channel[i])
  /\ main # 0 => IsCopy(main) /\ Normal[owned[main].content] # NoContent

\* An activation under way has an item.
ActWorks == \A c \in Clients : act[c].pc # "idle" => act[c].item \in Items

ATypeInv == ATypeOK /\ OnlyCopies /\ ActWorks

-----------------------------------------------------------------------------
(* Type correctness *)

\* What has a row can be copied.
LEMMA ItemsAreCopies == Items \subseteq Copies /\ NoContent \notin Items
  BY NormalAssumption DEF Items

\* A selection that vanished is an entry as well.
LEMMA GoneIsEntry == Gone \in Entry
  BY DEF Gone, Entry, Owners

\* What is known of a serial survives a new selection.
LEMMA OwnedGrows ==
  ASSUME owned \in Seq(Entry), NEW e \in Entry, owned' = Append(owned, e)
  PROVE  /\ owned' \in Seq(Entry)
         /\ Len(owned') = Len(owned) + 1
         /\ \A k \in DOMAIN owned : k \in DOMAIN owned' /\ owned'[k] = owned[k]
         /\ Len(owned) + 1 \in DOMAIN owned'
         /\ owned'[Len(owned) + 1] = e
  OBVIOUS

\* The channel stays a sequence of serials when their set grows.
LEMMA ChannelGrows ==
  ASSUME NEW S, NEW T, S \subseteq T, NEW ch \in Seq(S)
  PROVE  ch \in Seq(T)
  OBVIOUS

\* The type invariant at the start ...
LEMMA ATypeInit == AInit => ATypeInv
<1> SUFFICES ASSUME AInit PROVE ATypeInv
  OBVIOUS
<1> USE DEF AInit, SelInit
<1>0. instance.copies \subseteq Copies /\ instance.windows \subseteq Windows
  BY SessionAssumption, InstanceAssumption
<1>1. owned \in Seq(Entry) /\ \A k \in DOMAIN owned : IsCopy(k)
  <2>1. CASE owned = <<>>
    BY <2>1 DEF IsCopy
  <2>2. ASSUME NEW c \in Copies, owned = <<[content |-> c, by |-> "user"]>>
        PROVE  owned \in Seq(Entry) /\ \A k \in DOMAIN owned : IsCopy(k)
    <3>1. [content |-> c, by |-> "user"] \in Entry
      BY DEF Entry, Owners
    <3>2. owned \in Seq(Entry) /\ DOMAIN owned = {1} /\ owned[1].content = c
      BY <2>2, <3>1
    <3> QED
      BY <3>2 DEF IsCopy
  <2> QED
    BY <1>0, <2>1, <2>2
<1>2. SelTypeOK
  BY <1>1 DEF SelTypeOK, Entry
<1>3. ATypeOK
  BY <1>0, <1>2, ItemsAreCopies DEF ATypeOK, IdleAct, ActPcs, Outcomes
<1>4. OnlyCopies
  BY <1>1 DEF OnlyCopies
<1>5. ActWorks
  BY DEF ActWorks, IdleAct
<1> QED
  BY <1>3, <1>4, <1>5 DEF ATypeInv

\* The clipboard's part of the invariant survives a new selection, of which
\* the watcher is notified if it is a copy.
LEMMA AppendKeeps ==
  ASSUME ATypeInv, NEW e \in Entry, owned' = Append(owned, e),
         e = Gone \/ e.content \in Copies,
         unread' = unread \/ /\ e.content \in Copies
                             /\ unread' = unread \cup {Len(owned) + 1},
         UNCHANGED <<instance, reading, channel, missed, main>>
  PROVE  /\ SelTypeOK' /\ OnlyCopies'
         /\ main' \in {0} \cup DOMAIN owned'
         /\ \A S \in SUBSET DOMAIN owned : S \subseteq DOMAIN owned'
<1> USE DEF ATypeInv, ATypeOK, SelTypeOK
<1>1. owned \in Seq(Entry)
  BY DEF Entry
<1> HIDE DEF SelTypeOK
<1>2. /\ owned' \in Seq(Entry)
      /\ \A k \in DOMAIN owned : k \in DOMAIN owned' /\ owned'[k] = owned[k]
      /\ Len(owned) + 1 \in DOMAIN owned' /\ owned'[Len(owned) + 1] = e
  BY <1>1, OwnedGrows
<1>3. channel' \in Seq(DOMAIN owned')
  BY <1>2, ChannelGrows DEF SelTypeOK
<1>4. SelTypeOK'
  BY <1>2, <1>3 DEF SelTypeOK, Entry
<1>5. \A k \in DOMAIN owned' : k \in DOMAIN owned \/ k = Len(owned) + 1
  BY <1>1, OwnedGrows
<1>6. OnlyCopies'
  BY <1>2, <1>5 DEF OnlyCopies, IsCopy
<1> QED
  BY <1>2, <1>4, <1>6

\* So does the watcher's part.
LEMMA WatchKeeps ==
  ASSUME ATypeInv, Watch, main' = main
  PROVE  SelTypeOK' /\ OnlyCopies' /\ owned' = owned
<1> USE DEF ATypeInv, ATypeOK, SelTypeOK
<1>1. ASSUME NEW k \in unread, ReadCurrent(k) PROVE SelTypeOK' /\ OnlyCopies' /\ owned' = owned
  <2>1. Current \in DOMAIN owned
    BY <1>1 DEF Current
  <2>2. IsCopy(Current)
    BY <1>1, <2>1 DEF ReadCurrent, OnlyCopies
  <2>3. channel' \in Seq(DOMAIN owned') /\ \A i \in DOMAIN channel' : IsCopy(channel'[i])
    BY <1>1, <2>1, <2>2 DEF ReadCurrent, OnlyCopies
  <2> QED
    BY <1>1, <2>3 DEF ReadCurrent, OnlyCopies, IsCopy
<1>2. ASSUME NEW k \in unread, ReadFails(k) PROVE SelTypeOK' /\ OnlyCopies' /\ owned' = owned
  BY <1>2 DEF ReadFails, OnlyCopies, IsCopy
<1>3. ASSUME NEW k \in unread, Request(k) PROVE SelTypeOK' /\ OnlyCopies' /\ owned' = owned
  BY <1>3 DEF Request, OnlyCopies, IsCopy
<1>4. ASSUME NEW k \in reading, Deliver(k) PROVE SelTypeOK' /\ OnlyCopies' /\ owned' = owned
  <2>1. channel' \in Seq(DOMAIN owned') /\ \A i \in DOMAIN channel' : IsCopy(channel'[i])
    BY <1>4 DEF Deliver, OnlyCopies
  <2> QED
    BY <1>4, <2>1 DEF Deliver, OnlyCopies, IsCopy
<1>5. ASSUME NEW k \in reading, DeliverFails(k) PROVE SelTypeOK' /\ OnlyCopies' /\ owned' = owned
  BY <1>5 DEF DeliverFails, OnlyCopies, IsCopy
<1> QED
  BY <1>1, <1>2, <1>3, <1>4, <1>5 DEF Watch

\* Save records the item of a copy.
LEMMA SaveKeeps == ATypeInv /\ Save => ATypeInv'
<1> SUFFICES ASSUME ATypeInv, Save PROVE ATypeInv'
  OBVIOUS
<1> USE DEF ATypeInv, ATypeOK, Save, selVars
<1>1. Normal[owned[main].content] \in Items
  BY DEF OnlyCopies, IsCopy, Items
<1>2. lastId' \in Nat /\ lastId <= lastId'
  OBVIOUS
<1>3. row' \in [Items -> 0..lastId']
  BY <1>1
<1>4. act' \in Acts'
  BY <1>2 DEF Acts, ActEntry
<1>5. SelTypeOK'
  BY DEF SelTypeOK
<1>6. OnlyCopies' /\ ActWorks'
  BY DEF OnlyCopies, ActWorks, IsCopy
<1> QED
  BY <1>1, <1>2, <1>3, <1>4, <1>5, <1>6 DEF SelTypeOK, OnlyCopies, IsCopy, Acts, ActEntry

\* What an answer makes of an activation, and of the others.
LEMMA AnswersKeep ==
  ASSUME ATypeInv, NEW c \in Clients, NEW o \in Outcomes,
         NEW what \in SUBSET {"write", "promote", "confirm", "paste"}, Answers(c, what, o)
  PROVE  /\ act' \in Acts
         /\ act'[c].pc = "idle" /\ act'[c].outcome = o
         /\ act'[c].did = act[c].did \cup what
         /\ \A d \in Clients \ {c} : act'[d] = act[d]
<1> DEFINE e == [IdleAct EXCEPT !.did = act[c].did \cup what, !.outcome = o]
<1>1. lastId \in Nat /\ act \in Acts /\ act' = [act EXCEPT ![c] = e]
  BY DEF ATypeInv, ATypeOK, Acts, ActEntry, Answers
<1>2. IdleAct \in ActEntry /\ IdleAct.pc = "idle"
  BY <1>1 DEF ActEntry, IdleAct, ActPcs, Outcomes
<1>3. act[c].did \cup what \in SUBSET {"write", "promote", "confirm", "paste"}
  BY <1>1 DEF Acts, ActEntry
<1>4. e \in ActEntry /\ e.did = act[c].did \cup what /\ e.outcome = o /\ e.pc = "idle"
  BY <1>2, <1>3 DEF ActEntry
<1> HIDE DEF e
<1> QED
  BY <1>1, <1>4 DEF Acts

\* A step of an activation that leaves the clipboard and the history alone.
LEMMA ActKeeps ==
  ASSUME ATypeInv, act' \in Acts, ActWorks',
         UNCHANGED <<selVars, row, lastId, main, active, dropped, saved>>,
         marker' \in Items \cup {NoContent}
  PROVE  ATypeInv'
<1> USE DEF ATypeInv, selVars
<1>1. SelTypeOK' /\ OnlyCopies'
  BY DEF ATypeOK, SelTypeOK, OnlyCopies, IsCopy
<1>2. ATypeOK'
  BY <1>1 DEF ATypeOK, Acts, ActEntry
<1> QED
  BY <1>1, <1>2

\* ... at every step of an activation ...
LEMMA ActStepKeeps == ATypeInv /\ (\E c \in Clients : ActStep(c)) => ATypeInv'
<1> SUFFICES ASSUME ATypeInv, NEW c \in Clients, ActStep(c) PROVE ATypeInv'
  OBVIOUS
<1>1. act \in Acts /\ marker \in Items \cup {NoContent}
  BY DEF ATypeInv, ATypeOK, Acts, ActEntry
<1>2. act[c].pc # "idle" => act[c].item \in Items
  BY DEF ATypeInv, ActWorks
<1>3. CASE ReadContent(c) \/ WriteFails(c) \/ PromoteFails(c) \/ Restore(c)
  <2>1. act' \in Acts
    BY <1>1, <1>3, AnswersKeep
       DEF ReadContent, WriteFails, PromoteFails, Restore, Goto, Answer, Acts, ActEntry,
           ActPcs, Outcomes
  <2>2. ActWorks'
    BY <1>1, <1>3, AnswersKeep
       DEF ReadContent, WriteFails, PromoteFails, Restore, Goto, Answer, Acts, ActEntry,
           Outcomes, ATypeInv, ActWorks
  <2> QED
    BY <1>1, <1>3, <2>1, <2>2, ActKeeps
       DEF ReadContent, WriteFails, PromoteFails, Restore, ActUnchanged, daemonVars
<1>4. CASE Promote(c)
  <2>1. act' \in Acts
    BY <1>1, <1>4, AnswersKeep DEF Promote, Did, Answer, Acts, ActEntry, ActPcs, Outcomes
  <2>2. ActWorks'
    BY <1>1, <1>4, AnswersKeep DEF Promote, Did, Answer, Acts, ActEntry, Outcomes, ATypeInv,
                                     ActWorks
  <2> QED
    BY <1>1, <1>4, <2>1, <2>2, ActKeeps DEF Promote, ActUnchanged, daemonVars
<1>5. CASE Poll(c) \/ Paste(c)
  <2>1. act' \in Acts
    BY <1>1, <1>5, AnswersKeep DEF Poll, Paste, Did, Answer, Acts, ActEntry, ActPcs, Outcomes
  <2>2. ActWorks'
    BY <1>1, <1>5, AnswersKeep DEF Poll, Paste, Did, Answer, Acts, ActEntry, Outcomes, ATypeInv,
                                     ActWorks
  <2> QED
    BY <1>1, <1>5, <2>1, <2>2, ActKeeps DEF Poll, Paste, ActUnchanged, daemonVars
<1>6. CASE Mark(c)
  <2>1. act' \in Acts /\ marker' \in Items
    BY <1>1, <1>2, <1>6 DEF Mark, Goto, Acts, ActEntry, ActPcs
  <2>2. ActWorks'
    BY <1>1, <1>6 DEF Mark, Goto, Acts, ActEntry, ATypeInv, ActWorks
  <2> QED
    BY <1>6, <2>1, <2>2, ActKeeps DEF Mark
<1>7. CASE Write(c)
  <2> DEFINE e == [content |-> act[c].item, by |-> "pookie"]
  <2>1. e \in Entry /\ e.content \in Copies
    BY <1>2, <1>7, ItemsAreCopies DEF Write, Entry, Owners
  <2>2. owned' = Append(owned, e) /\ unread' = unread \cup {Len(owned) + 1}
    BY <1>7 DEF Write, Own
  <2>3. SelTypeOK' /\ OnlyCopies' /\ main' \in {0} \cup DOMAIN owned'
        /\ \A S \in SUBSET DOMAIN owned : S \subseteq DOMAIN owned'
    BY <1>7, <2>1, <2>2, AppendKeeps DEF Write, Own, ActUnchanged, daemonVars
  <2>4. act' \in Acts
    <3>1. act' = [act EXCEPT ![c].pc = "mark", ![c].did = @ \cup {"write"}]
      BY <1>7 DEF Write, Did
    <3>2. [act[c] EXCEPT !.pc = "mark", !.did = @ \cup {"write"}] \in ActEntry
      BY <1>1 DEF Acts, ActEntry, ActPcs
    <3> QED
      BY <1>1, <3>1, <3>2 DEF Acts
  <2>5. ActWorks'
    BY <1>1, <1>7 DEF Write, Did, Acts, ActEntry, ATypeInv, ActWorks
  <2>6. ATypeOK'
    BY <1>7, <2>3, <2>4 DEF ATypeInv, ATypeOK, Acts, ActEntry, Write, ActUnchanged, daemonVars
  <2> QED
    BY <2>3, <2>5, <2>6 DEF ATypeInv
<1> QED
  BY <1>3, <1>4, <1>5, <1>6, <1>7 DEF ActStep

\* ... and at every other step.
LEMMA ATypeStep == ATypeInv /\ [ANext]_avars => ATypeInv'
<1> SUFFICES ASSUME ATypeInv, [ANext]_avars PROVE ATypeInv'
  OBVIOUS
<1>1. ASSUME NEW x \in Copies, Copy(x) PROVE ATypeInv'
  <2> DEFINE e == [content |-> x, by |-> "user"]
  <2>1. e \in Entry /\ e.content \in Copies
    BY DEF Entry, Owners
  <2>2. owned' = Append(owned, e) /\ unread' = unread \cup {Len(owned) + 1}
    BY <1>1 DEF Copy, Own
  <2>3. SelTypeOK' /\ OnlyCopies' /\ main' \in {0} \cup DOMAIN owned'
        /\ \A S \in SUBSET DOMAIN owned : S \subseteq DOMAIN owned'
    BY <1>1, <2>1, <2>2, AppendKeeps DEF Copy, Own, daemonVars
  <2> QED
    BY <1>1, <2>3 DEF ATypeInv, ATypeOK, ActWorks, Copy, daemonVars
<1>2. CASE Close
  <2>1. owned' = Append(owned, Gone) /\ unread' = unread
    BY <1>2 DEF Close, Vanish
  <2>2. SelTypeOK' /\ OnlyCopies' /\ main' \in {0} \cup DOMAIN owned'
        /\ \A S \in SUBSET DOMAIN owned : S \subseteq DOMAIN owned'
    BY <1>2, <2>1, GoneIsEntry, AppendKeeps DEF Close, Vanish, daemonVars
  <2> QED
    BY <1>2, <2>2 DEF ATypeInv, ATypeOK, ActWorks, Close, daemonVars
<1>3. CASE WatcherStep
  <2>1. SelTypeOK' /\ OnlyCopies' /\ owned' = owned
    BY <1>3, WatchKeeps DEF WatcherStep, daemonVars
  <2> QED
    BY <1>3, <2>1 DEF ATypeInv, ATypeOK, ActWorks, WatcherStep, daemonVars
<1>4. CASE Receive
  <2> DEFINE k == Head(channel)
  <2>1. k \in DOMAIN owned /\ IsCopy(k) /\ channel' \in Seq(DOMAIN owned)
        /\ \A i \in DOMAIN channel' : IsCopy(channel'[i])
    BY <1>4 DEF Receive, ATypeInv, ATypeOK, SelTypeOK, OnlyCopies
  <2>2. main' = 0 \/ (main' = k /\ Normal[owned[k].content] # NoContent)
    BY <1>4 DEF Receive
  <2>3. OnlyCopies'
    BY <1>4, <2>1, <2>2 DEF Receive, ATypeInv, OnlyCopies, IsCopy
  <2>4. ATypeOK'
    BY <1>4, <2>1, <2>2 DEF Receive, ATypeInv, ATypeOK, SelTypeOK
  <2> QED
    BY <1>4, <2>3, <2>4 DEF Receive, ATypeInv, ActWorks
<1>5. CASE Save
  BY <1>5, SaveKeeps
<1>6. ASSUME NEW x \in Items, Remove(x) PROVE ATypeInv'
  BY <1>6 DEF Remove, ATypeInv, ATypeOK, SelTypeOK, OnlyCopies, IsCopy, ActWorks, selVars
<1>7. ASSUME NEW w \in Windows, Focus(w) PROVE ATypeInv'
  BY <1>7 DEF Focus, ATypeInv, ATypeOK, SelTypeOK, OnlyCopies, IsCopy, ActWorks, selVars,
              daemonVars
<1>8. ASSUME NEW c \in Clients, NEW x \in Items, NEW w \in Windows \cup {NoTarget},
             Activate(c, x, w)
      PROVE  ATypeInv'
  <2> DEFINE e == IF row[x] # 0
                    THEN [IdleAct EXCEPT !.pc = "read", !.item = x, !.id = row[x],
                                         !.target = w]
                    ELSE [IdleAct EXCEPT !.outcome = "NotFound"]
  <2>1. row[x] \in 0..lastId /\ act \in Acts /\ 0 \in 0..lastId
    BY DEF ATypeInv, ATypeOK, Acts, ActEntry
  <2>2. /\ e \in ActEntry
        /\ e.pc # "idle" => e.item = x
    BY <2>1 DEF IdleAct, ActEntry, ActPcs, Outcomes
  <2>3. act' = [act EXCEPT ![c] = e]
    BY <1>8 DEF Activate
  <2>4. act' \in Acts /\ ActWorks'
    BY <2>1, <2>2, <2>3 DEF Acts, ATypeInv, ActWorks
  <2> QED
    BY <1>8, <2>4, ActKeeps DEF Activate, ActUnchanged, daemonVars, ATypeInv, ATypeOK
<1>9. CASE UNCHANGED avars
  BY <1>9 DEF avars, selVars, ATypeInv, ATypeOK, SelTypeOK, OnlyCopies, IsCopy, ActWorks
<1> QED
  BY <1>1, <1>2, <1>3, <1>4, <1>5, <1>6, <1>7, <1>8, <1>9, ActStepKeeps DEF ANext

-----------------------------------------------------------------------------
(* The self-write marker *)

LastWriteIs(x) ==
  \E k \in Writes : owned[k].content = x /\ \A j \in Writes : j <= k

\* The one activation between its write and its mark did the last write.
MarkerInv ==
  /\ ~Locked => marker = NoContent \/ LastWriteIs(marker)
  /\ \A c \in Clients : act[c].pc = "mark" => LastWriteIs(act[c].item)
  /\ \A c, d \in Clients : act[c].pc = "mark" /\ act[d].pc = "mark" => c = d

\* The marker is the last write, if nothing is between a write and its mark.
LEMMA MarkerImplied == ATypeInv /\ MarkerInv => MarkerIsLastWrite
<1> SUFFICES ASSUME ATypeInv, MarkerInv, ~Locked, marker # NoContent
             PROVE  Writes # {} /\ marker = owned[Last(Writes)].content
  BY DEF MarkerIsLastWrite
<1>1. PICK k \in Writes : owned[k].content = marker /\ \A j \in Writes : j <= k
  BY DEF MarkerInv, LastWriteIs
<1>2. Last(Writes) \in Writes /\ \A j \in Writes : j <= Last(Writes)
  BY <1>1 DEF Last
<1>3. Writes \subseteq Nat
  BY DEF ATypeInv, ATypeOK, SelTypeOK, Writes
<1>4. Last(Writes) <= k /\ k <= Last(Writes) /\ k \in Nat /\ Last(Writes) \in Nat
  BY <1>1, <1>2, <1>3
<1>5. Last(Writes) = k
  BY <1>4
<1> QED
  BY <1>1, <1>5

\* The invariant of the marker at the start ...
LEMMA MarkerInit == AInit => MarkerInv
  BY DEF AInit, MarkerInv, IdleAct

\* A selection that is not the daemon's leaves its last write alone.
LEMMA OthersKeepLastWrite ==
  ASSUME ATypeInv, NEW e \in Entry, e.by # "pookie", owned' = Append(owned, e)
  PROVE  \A x : LastWriteIs(x) => LastWriteIs(x)'
<1>1. Writes' = Writes /\ \A k \in Writes : owned'[k] = owned[k]
  BY DEF ATypeInv, ATypeOK, SelTypeOK, Writes, Entry
<1> QED
  BY <1>1 DEF LastWriteIs

\* A write of the daemon is its last.
LEMMA WriteIsLast ==
  ASSUME ATypeInv, NEW e \in Entry, e.by = "pookie", owned' = Append(owned, e)
  PROVE  LastWriteIs(e.content)'
<1>1. /\ Len(owned) + 1 \in DOMAIN owned' /\ owned'[Len(owned) + 1] = e
      /\ \A k \in DOMAIN owned' : k <= Len(owned) + 1
  BY DEF ATypeInv, ATypeOK, SelTypeOK, Entry
<1> QED
  BY <1>1 DEF LastWriteIs, Writes

\* A step that neither writes, marks nor frees the lock.
LEMMA MarkerKept ==
  ASSUME MarkerInv, \A x : LastWriteIs(x) => LastWriteIs(x)',
         marker' \in {marker, NoContent},
         \A c \in Clients : act'[c].pc = "mark" <=> act[c].pc = "mark",
         \A c \in Clients : act[c].pc = "mark" => act'[c].item = act[c].item
  PROVE  MarkerInv'
  BY DEF MarkerInv, Locked

\* Only a write and its mark change which activation is between the two.
LEMMA MarksKept ==
  ASSUME ATypeInv, NEW c \in Clients, ActStep(c), ~Write(c), ~Mark(c)
  PROVE  \A d \in Clients : /\ act'[d].pc = "mark" <=> act[d].pc = "mark"
                            /\ act[d].pc = "mark" => act'[d].item = act[d].item
<1>1. act \in Acts
  BY DEF ATypeInv, ATypeOK, Acts, ActEntry
<1> QED
  BY <1>1, AnswersKeep
     DEF ActStep, ReadContent, WriteFails, Promote, PromoteFails, Restore, Poll, Paste, Goto,
         Did, Answer, Acts, ActEntry, Outcomes

\* ... and at every step.
LEMMA MarkerStep == ATypeInv /\ MarkerInv /\ [ANext]_avars => MarkerInv'
<1> SUFFICES ASSUME ATypeInv, MarkerInv, [ANext]_avars PROVE MarkerInv'
  OBVIOUS
<1>1. act \in Acts
  BY DEF ATypeInv, ATypeOK, Acts, ActEntry
<1>2. ASSUME owned' = owned PROVE \A x : LastWriteIs(x) => LastWriteIs(x)'
  BY <1>2 DEF LastWriteIs, Writes
<1>3. ASSUME NEW x \in Copies, Copy(x) PROVE MarkerInv'
  <2>1. owned' = Append(owned, [content |-> x, by |-> "user"])
    BY <1>3 DEF Copy, Own
  <2>2. \A y : LastWriteIs(y) => LastWriteIs(y)'
    BY <2>1, OthersKeepLastWrite DEF Entry, Owners
  <2> QED
    BY <1>3, <2>2, MarkerKept DEF Copy, daemonVars
<1>4. CASE Close
  <2>1. \A y : LastWriteIs(y) => LastWriteIs(y)'
    BY <1>4, GoneIsEntry, OthersKeepLastWrite DEF Close, Vanish, Gone
  <2> QED
    BY <1>4, <2>1, MarkerKept DEF Close, daemonVars
<1>5. CASE WatcherStep
  <2>1. owned' = owned
    BY <1>5, WatchKeeps DEF WatcherStep, daemonVars
  <2> QED
    BY <1>2, <1>5, <2>1, MarkerKept DEF WatcherStep, daemonVars
<1>6. CASE Receive
  BY <1>2, <1>6, MarkerKept DEF Receive
<1>7. CASE Save \/ (\E x \in Items : Remove(x)) \/ (\E w \in Windows : Focus(w))
           \/ UNCHANGED avars
  <2>1. UNCHANGED <<owned, marker, act>>
    BY <1>7 DEF Save, Remove, Focus, avars, selVars, daemonVars
  <2> QED
    BY <1>2, <2>1, MarkerKept
<1>8. ASSUME NEW c \in Clients, Write(c) PROVE MarkerInv'
  <2>1. PICK x \in Items : x = act[c].item
    BY <1>8 DEF Write, ATypeInv, ActWorks
  <2>2. LastWriteIs(x)'
    <3> DEFINE e == [content |-> x, by |-> "pookie"]
    <3>1. e \in Entry /\ e.by = "pookie" /\ e.content = x
      BY ItemsAreCopies DEF Entry, Owners
    <3>2. owned' = Append(owned, e)
      BY <1>8, <2>1 DEF Write, Own
    <3> QED
      BY <3>1, <3>2, WriteIsLast
  <2>3. act' = [act EXCEPT ![c].pc = "mark", ![c].did = @ \cup {"write"}]
    BY <1>8 DEF Write, Did
  <2>4. \A d \in Clients : act'[d].pc = "mark" <=> d = c
    BY <1>1, <1>8, <2>3 DEF Write, Locked, Acts, ActEntry
  <2>5. act'[c].item = x
    BY <1>1, <2>1, <2>3 DEF Acts, ActEntry
  <2> QED
    BY <2>2, <2>4, <2>5 DEF MarkerInv, Locked
<1>9. ASSUME NEW c \in Clients, Mark(c) PROVE MarkerInv'
  <2>1. PICK x : x = act[c].item
    OBVIOUS
  <2>2. act' = [act EXCEPT ![c].pc = "promote"] /\ owned' = owned /\ marker' = x
    BY <1>9, <2>1 DEF Mark, Goto, selVars
  <2>3. LastWriteIs(x)'
    BY <1>2, <1>9, <2>1, <2>2 DEF Mark, MarkerInv
  <2>4. \A d \in Clients : act'[d].pc # "mark"
    BY <1>1, <1>9, <2>2 DEF Mark, MarkerInv, Acts, ActEntry
  <2> QED
    BY <2>2, <2>3, <2>4 DEF MarkerInv, Locked
<1>10. ASSUME NEW c \in Clients, ActStep(c), ~Write(c), ~Mark(c) PROVE MarkerInv'
  <2>1. owned' = owned /\ marker' = marker
    BY <1>10 DEF ActStep, ReadContent, WriteFails, Promote, PromoteFails, Restore, Poll,
                 Paste, ActUnchanged, daemonVars, selVars
  <2>2. \A d \in Clients : /\ act'[d].pc = "mark" <=> act[d].pc = "mark"
                           /\ act[d].pc = "mark" => act'[d].item = act[d].item
    BY <1>1, <1>10, MarksKept
  <2> QED
    BY <1>2, <2>1, <2>2, MarkerKept
<1>11. ASSUME NEW c \in Clients, NEW x \in Items, NEW w \in Windows \cup {NoTarget},
              Activate(c, x, w)
       PROVE  MarkerInv'
  <2>1. \A d \in Clients : /\ act'[d].pc = "mark" <=> act[d].pc = "mark"
                           /\ act[d].pc = "mark" => act'[d].item = act[d].item
    <3> DEFINE e == IF row[x] # 0
                      THEN [IdleAct EXCEPT !.pc = "read", !.item = x, !.id = row[x],
                                           !.target = w]
                      ELSE [IdleAct EXCEPT !.outcome = "NotFound"]
    <3>1. act' = [act EXCEPT ![c] = e] /\ act[c].pc = "idle"
      BY <1>11 DEF Activate
    <3>2. e.pc # "mark"
      BY DEF IdleAct
    <3> QED
      BY <1>1, <3>1, <3>2 DEF Acts
  <2> QED
    BY <1>2, <1>11, <2>1, MarkerKept DEF Activate, ActUnchanged, daemonVars, selVars
<1> QED
  BY <1>3, <1>4, <1>5, <1>6, <1>7, <1>8, <1>9, <1>10, <1>11 DEF ANext

-----------------------------------------------------------------------------
(* Answers *)

\* What an activation has done is known from where it is and what it answered.
Honest(e) ==
  /\ e.pc # "idle" => e.outcome = "none" /\ "paste" \notin e.did
  /\ e.pc \in {"mark", "promote", "restore", "poll", "paste"} => "write" \in e.did
  /\ e.pc \in {"restore", "poll", "paste"} => "promote" \in e.did
  /\ e.pc = "paste" => "confirm" \in e.did
  /\ e.outcome \in {"Pasted", "ClipboardUpdated", "PasteFailed"}
       => {"write", "promote"} \subseteq e.did
  /\ e.outcome = "Pasted" => "paste" \in e.did
  /\ "paste" \in e.did
       => /\ {"write", "promote", "confirm"} \subseteq e.did
          /\ e.outcome \in {"Pasted", "ClipboardUpdated", "PasteFailed"}

HonestInv == \A c \in Clients : Honest(act[c])

\* The invariant of the answers at the start ...
LEMMA HonestInit == AInit => HonestInv
  BY DEF AInit, HonestInv, Honest, IdleAct

\* ... and at every step.
LEMMA HonestStep == ATypeInv /\ HonestInv /\ [ANext]_avars => HonestInv'
<1> SUFFICES ASSUME ATypeInv, HonestInv, [ANext]_avars PROVE HonestInv'
  OBVIOUS
<1>1. act \in Acts
  BY DEF ATypeInv, ATypeOK, Acts, ActEntry
<1>2. ASSUME act' = act PROVE HonestInv'
  BY <1>2 DEF HonestInv
<1>3. ASSUME NEW c \in Clients, ActStep(c) PROVE HonestInv'
  <2>1. Honest(act[c]) /\ act[c] \in ActEntry
    BY <1>1 DEF HonestInv, Acts
  <2> USE DEF ActEntry, Acts
  <2>2. CASE ReadContent(c) \/ WriteFails(c) \/ PromoteFails(c) \/ Restore(c)
    BY <1>1, <2>1, <2>2, AnswersKeep
       DEF ReadContent, WriteFails, PromoteFails, Restore, Goto, Answer, Outcomes, HonestInv, Honest
  <2>3. CASE Write(c)
    BY <1>1, <2>1, <2>3 DEF Write, Did, HonestInv, Honest
  <2>4. CASE Mark(c)
    BY <1>1, <2>1, <2>4 DEF Mark, Goto, HonestInv, Honest
  <2>5. CASE Promote(c)
    BY <1>1, <2>1, <2>5, AnswersKeep DEF Promote, Did, Answer, Outcomes, HonestInv, Honest
  <2>6. CASE Poll(c)
    BY <1>1, <2>1, <2>6, AnswersKeep DEF Poll, Did, Answer, Outcomes, HonestInv, Honest
  <2>7. CASE Paste(c)
    BY <1>1, <2>1, <2>7, AnswersKeep DEF Paste, Answer, Outcomes, HonestInv, Honest
  <2> QED
    BY <1>3, <2>2, <2>3, <2>4, <2>5, <2>6, <2>7 DEF ActStep
<1>4. ASSUME NEW c \in Clients, NEW x \in Items, NEW w \in Windows \cup {NoTarget},
             Activate(c, x, w)
      PROVE  HonestInv'
  <2> DEFINE e == IF row[x] # 0
                    THEN [IdleAct EXCEPT !.pc = "read", !.item = x, !.id = row[x],
                                         !.target = w]
                    ELSE [IdleAct EXCEPT !.outcome = "NotFound"]
  <2>1. act' = [act EXCEPT ![c] = e]
    BY <1>4 DEF Activate
  <2>2. Honest(e)
    BY DEF IdleAct, Honest
  <2> QED
    BY <1>1, <2>1, <2>2 DEF HonestInv, Acts
<1>5. WatcherStep => act' = act
  BY DEF WatcherStep
<1> QED
  BY <1>2, <1>3, <1>4, <1>5 DEF ANext, Copy, Close, Receive, Save, Remove, Focus, avars

-----------------------------------------------------------------------------
(* The copies taken for self-writes *)

Held(x) == IF marker = x THEN 1 ELSE 0

\* A write that is to be marked; the mutex allows one.
Due(x) == IF \E c \in Clients : act[c].pc = "mark" /\ act[c].item = x THEN 1 ELSE 0

\* Of the writes of x each is to be marked, is the mark, or has cost an event.
CreditInv ==
  \A x \in Items :
    Cardinality(Of(dropped, x)) + Held(x) + Due(x) <= Cardinality(Of(Writes, x))

\* The counts are natural numbers.
LEMMA CountsAreFinite ==
  ASSUME ATypeInv, NEW x
  PROVE  /\ IsFiniteSet(Of(dropped, x)) /\ Cardinality(Of(dropped, x)) \in Nat
         /\ IsFiniteSet(Of(Writes, x)) /\ Cardinality(Of(Writes, x)) \in Nat
<1>1. /\ DOMAIN owned = 1..Len(owned) /\ Len(owned) \in Nat
      /\ Of(dropped, x) \subseteq DOMAIN owned /\ Of(Writes, x) \subseteq DOMAIN owned
  BY DEF ATypeInv, ATypeOK, SelTypeOK, Of, Writes
<1>2. IsFiniteSet(DOMAIN owned)
  BY <1>1, FS_Interval
<1> QED
  BY <1>1, <1>2, FS_Subset, FS_CardinalityType

\* A step that leaves the counts of x alone and gives no credit away.
LEMMA CreditKept ==
  ASSUME ATypeInv, CreditInv, NEW x \in Items,
         Of(dropped, x)' = Of(dropped, x), Of(Writes, x)' = Of(Writes, x),
         Held(x)' <= Held(x), Due(x)' = Due(x)
  PROVE  (Cardinality(Of(dropped, x)) + Held(x) + Due(x) <= Cardinality(Of(Writes, x)))'
<1>1. Held(x) \in Nat /\ Due(x) \in Nat /\ Held(x)' \in Nat
  BY DEF Held, Due
<1>2. Cardinality(Of(dropped, x)) + Held(x) + Due(x) <= Cardinality(Of(Writes, x))
  BY DEF CreditInv
<1>3. /\ Cardinality(Of(dropped, x))' = Cardinality(Of(dropped, x))
      /\ Cardinality(Of(Writes, x))' = Cardinality(Of(Writes, x))
  OBVIOUS
<1> QED
  BY <1>1, <1>2, <1>3, CountsAreFinite

\* A selection that is not the daemon's is no write of x.
LEMMA OthersKeepCounts ==
  ASSUME ATypeInv, NEW e \in Entry, e.by # "pookie", owned' = Append(owned, e),
         dropped' = dropped, NEW x
  PROVE  Of(dropped, x)' = Of(dropped, x) /\ Of(Writes, x)' = Of(Writes, x)
<1>1. /\ \A k \in DOMAIN owned : k \in DOMAIN owned' /\ owned'[k] = owned[k]
      /\ \A k \in DOMAIN owned' : k \in DOMAIN owned \/ owned'[k] = e
      /\ dropped \subseteq DOMAIN owned
  BY DEF ATypeInv, ATypeOK, SelTypeOK, Entry
<1>2. Writes' = Writes
  BY <1>1 DEF Writes
<1> QED
  BY <1>1, <1>2 DEF Of, Writes

\* One more element adds at most one to a count.
LEMMA OneMore ==
  ASSUME NEW S, IsFiniteSet(S), NEW e
  PROVE  Cardinality(S \cup {e}) \in Nat /\ Cardinality(S \cup {e}) <= Cardinality(S) + 1
<1>1. Cardinality(S) \in Nat
  BY FS_CardinalityType
<1>2. IsFiniteSet(S \cup {e})
        /\ Cardinality(S \cup {e}) = IF e \in S THEN Cardinality(S) ELSE Cardinality(S) + 1
  BY FS_AddElement
<1> QED
  BY <1>1, <1>2

\* The invariant of the dropped events at the start ...
LEMMA CreditInit == AInit => CreditInv
<1> SUFFICES ASSUME AInit, NEW x \in Items
             PROVE  Cardinality(Of(dropped, x)) + Held(x) + Due(x) <= Cardinality(Of(Writes, x))
  BY DEF CreditInv
<1>1. Of(dropped, x) = {} /\ Held(x) = 0 /\ Due(x) = 0
  BY ItemsAreCopies DEF AInit, Of, Held, Due, IdleAct
<1>2. ATypeInv
  BY ATypeInit
<1>3. Cardinality(Of(Writes, x)) \in Nat /\ Cardinality(Of(dropped, x)) = 0
  BY <1>1, <1>2, CountsAreFinite, FS_EmptySet
<1> QED
  BY <1>1, <1>3

\* ... and at every step: a drop uses up the mark of one write.
LEMMA CreditStep == ATypeInv /\ MarkerInv /\ CreditInv /\ [ANext]_avars => CreditInv'
<1> SUFFICES ASSUME ATypeInv, MarkerInv, CreditInv, [ANext]_avars, NEW x \in Items
             PROVE  (Cardinality(Of(dropped, x)) + Held(x) + Due(x)
                       <= Cardinality(Of(Writes, x)))'
  BY DEF CreditInv
<1>1. act \in Acts /\ dropped \subseteq DOMAIN owned /\ owned \in Seq(Entry)
  BY DEF ATypeInv, ATypeOK, SelTypeOK, Acts, ActEntry, Entry
<1>2. /\ Cardinality(Of(dropped, x)) + Held(x) + Due(x) <= Cardinality(Of(Writes, x))
      /\ Held(x) \in Nat /\ Due(x) \in Nat
  BY DEF CreditInv, Held, Due
<1>3. ASSUME UNCHANGED <<owned, dropped>>
      PROVE  Of(dropped, x)' = Of(dropped, x) /\ Of(Writes, x)' = Of(Writes, x)
  BY <1>3 DEF Of, Writes
<1>4. ASSUME UNCHANGED <<marker, act>> PROVE Held(x)' <= Held(x) /\ Due(x)' = Due(x)
  BY <1>4 DEF Held, Due
<1>5. ASSUME NEW c \in Copies, Copy(c)
      PROVE  (Cardinality(Of(dropped, x)) + Held(x) + Due(x) <= Cardinality(Of(Writes, x)))'
  <2>1. [content |-> c, by |-> "user"] \in Entry
    BY DEF Entry, Owners
  <2>2. Of(dropped, x)' = Of(dropped, x) /\ Of(Writes, x)' = Of(Writes, x)
    BY <1>5, <2>1, OthersKeepCounts DEF Copy, Own, daemonVars
  <2> QED
    BY <1>4, <1>5, <2>2, CreditKept DEF Copy, daemonVars
<1>6. CASE Close
  <2>1. Of(dropped, x)' = Of(dropped, x) /\ Of(Writes, x)' = Of(Writes, x)
    BY <1>6, GoneIsEntry, OthersKeepCounts DEF Close, Vanish, Gone, daemonVars
  <2> QED
    BY <1>4, <1>6, <2>1, CreditKept DEF Close, daemonVars
<1>7. CASE WatcherStep
  <2>1. UNCHANGED <<owned, dropped, marker, act>>
    BY <1>7, WatchKeeps DEF WatcherStep, daemonVars
  <2> QED
    BY <1>3, <1>4, <2>1, CreditKept
<1>8. CASE Receive
  <2> DEFINE k == Head(channel)
  <2>1. k \in DOMAIN owned /\ IsCopy(k) /\ UNCHANGED <<owned, act>>
    BY <1>8 DEF Receive, ATypeInv, ATypeOK, SelTypeOK, OnlyCopies
  <2>2. Due(x)' = Due(x) /\ Of(Writes, x)' = Of(Writes, x)
    BY <2>1 DEF Due, Of, Writes
  <2>3. CASE owned[k].content = marker
    <3>1. marker' = NoContent /\ dropped' = dropped \cup {k} /\ Held(x)' = 0
      BY <1>8, <2>3, ItemsAreCopies DEF Receive, Held
    <3>2. CASE marker = x
      <4>1. Of(dropped, x)' = Of(dropped, x) \cup {k}
        BY <2>1, <2>3, <3>1, <3>2 DEF Of
      <4>2. IsFiniteSet(Of(dropped, x)) /\ Cardinality(Of(dropped, x)) \in Nat
            /\ Cardinality(Of(Writes, x)) \in Nat
        BY CountsAreFinite
      <4>3. Cardinality(Of(dropped, x) \cup {k}) <= Cardinality(Of(dropped, x)) + 1
            /\ Cardinality(Of(dropped, x) \cup {k}) \in Nat
        BY <4>2, OneMore
      <4>4. Held(x) = 1
        BY <3>2 DEF Held
      <4>5. Cardinality(Of(Writes, x))' = Cardinality(Of(Writes, x))
        BY <2>2
      <4>6. Cardinality(Of(dropped, x))' = Cardinality(Of(dropped, x) \cup {k})
        BY <4>1
      <4> DEFINE n == Cardinality(Of(dropped, x) \cup {k})
      <4>7. n <= Cardinality(Of(dropped, x)) + 1 /\ n \in Nat
        BY <4>3
      <4> HIDE DEF n
      <4>8. n + 0 + Due(x) <= Cardinality(Of(Writes, x))
        BY <1>2, <4>2, <4>4, <4>7
      <4>9. Cardinality(Of(dropped, x))' = n
        BY <4>6 DEF n
      <4> QED
        BY <2>2, <3>1, <4>5, <4>8, <4>9
    <3>3. CASE marker # x
      <4>1. Of(dropped, x)' = Of(dropped, x)
        BY <2>1, <2>3, <3>1, <3>3 DEF Of
      <4>2. Held(x)' <= Held(x)
        BY <1>2, <3>1
      <4> QED
        BY <2>2, <4>1, <4>2, CreditKept
    <3> QED
      BY <3>2, <3>3
  <2>4. CASE owned[k].content # marker
    <3>1. UNCHANGED <<marker, dropped>>
      BY <1>8, <2>4 DEF Receive
    <3> QED
      BY <1>3, <1>4, <2>1, <3>1, CreditKept
  <2> QED
    BY <2>3, <2>4
<1>9. CASE Save \/ (\E y \in Items : Remove(y)) \/ (\E w \in Windows : Focus(w))
           \/ UNCHANGED avars
  <2>1. UNCHANGED <<owned, dropped, marker, act>>
    BY <1>9 DEF Save, Remove, Focus, avars, selVars, daemonVars
  <2> QED
    BY <1>3, <1>4, <2>1, CreditKept
<1>10. ASSUME NEW c \in Clients, Write(c)
       PROVE  (Cardinality(Of(dropped, x)) + Held(x) + Due(x) <= Cardinality(Of(Writes, x)))'
  <2> DEFINE e == [content |-> act[c].item, by |-> "pookie"]
             k == Len(owned) + 1
  <2>1. /\ owned' = Append(owned, e) /\ UNCHANGED <<dropped, marker>> /\ ~Locked
        /\ act' = [act EXCEPT ![c].pc = "mark", ![c].did = @ \cup {"write"}]
    BY <1>10 DEF Write, Own, Did, ActUnchanged, daemonVars
  <2>2. e \in Entry
    BY <1>1, ItemsAreCopies DEF Acts, ActEntry, Entry, Owners
  <2>3. /\ \A j \in DOMAIN owned : j \in DOMAIN owned' /\ owned'[j] = owned[j]
        /\ \A j \in DOMAIN owned' : j \in DOMAIN owned \/ j = k
        /\ k \in DOMAIN owned' /\ owned'[k] = e /\ k \notin DOMAIN owned
    BY <1>1, <2>1, <2>2
  <2> HIDE DEF k
  <2>4. Of(dropped, x)' = Of(dropped, x) /\ Held(x)' = Held(x) /\ Due(x) = 0
    BY <1>1, <2>1, <2>3 DEF Of, Held, Due, Locked
  <2>5. \A d \in Clients : act'[d].pc = "mark" => d = c /\ act'[d].item = act[c].item
    BY <1>1, <2>1 DEF Locked, Acts, ActEntry
  <2>6. Of(Writes, x)' = IF act[c].item = x THEN Of(Writes, x) \cup {k} ELSE Of(Writes, x)
    BY <2>3 DEF Of, Writes
  <2>7. Due(x)' <= IF act[c].item = x THEN 1 ELSE 0
    BY <2>5 DEF Due
  <2>8. k \notin Of(Writes, x)
    BY <2>3 DEF Of, Writes
  <2>9. Due(x)' \in Nat /\ Held(x)' \in Nat
    BY DEF Due, Held
  <2>10. CASE act[c].item = x
    <3>1. Cardinality(Of(Writes, x))' = Cardinality(Of(Writes, x)) + 1
      BY <2>6, <2>8, <2>10, CountsAreFinite, FS_AddElement
    <3>2. Cardinality(Of(dropped, x))' = Cardinality(Of(dropped, x)) /\ Due(x)' <= 1
      BY <2>4, <2>7, <2>10
    <3> QED
      BY <1>2, <2>4, <2>9, <3>1, <3>2, CountsAreFinite
  <2>11. CASE act[c].item # x
    <3>1. Due(x)' = 0 /\ Of(Writes, x)' = Of(Writes, x)
      BY <2>6, <2>7, <2>9, <2>11
    <3> QED
      BY <1>2, <2>4, <3>1, CreditKept
  <2> QED
    BY <2>10, <2>11
<1>11. ASSUME NEW c \in Clients, Mark(c)
       PROVE  (Cardinality(Of(dropped, x)) + Held(x) + Due(x) <= Cardinality(Of(Writes, x)))'
  <2>1. /\ act' = [act EXCEPT ![c].pc = "promote"] /\ UNCHANGED <<owned, dropped>>
        /\ marker' = act[c].item /\ act[c].pc = "mark"
    BY <1>11 DEF Mark, Goto, selVars
  <2>2. \A d \in Clients : act'[d].pc # "mark"
    BY <1>1, <2>1 DEF MarkerInv, Acts, ActEntry
  <2>3. Due(x)' = 0
    BY <2>2 DEF Due
  <2>4. Held(x)' <= Due(x)
    BY <2>1 DEF Held, Due
  <2>5. /\ Cardinality(Of(dropped, x))' = Cardinality(Of(dropped, x))
        /\ Cardinality(Of(Writes, x))' = Cardinality(Of(Writes, x))
        /\ Held(x)' \in Nat
    BY <1>3, <2>1 DEF Held
  <2> QED
    BY <1>2, <2>3, <2>4, <2>5, CountsAreFinite
<1>12. ASSUME NEW c \in Clients, ActStep(c), ~Write(c), ~Mark(c)
       PROVE  (Cardinality(Of(dropped, x)) + Held(x) + Due(x) <= Cardinality(Of(Writes, x)))'
  <2>1. UNCHANGED <<owned, dropped, marker>>
    BY <1>12 DEF ActStep, ReadContent, WriteFails, Promote, PromoteFails, Restore, Poll,
                 Paste, ActUnchanged, daemonVars, selVars
  <2>2. \A d \in Clients : /\ act'[d].pc = "mark" <=> act[d].pc = "mark"
                           /\ act[d].pc = "mark" => act'[d].item = act[d].item
    BY <1>1, <1>12, MarksKept
  <2>3. Due(x)' = Due(x) /\ Held(x)' = Held(x)
    BY <2>1, <2>2 DEF Due, Held
  <2> QED
    BY <1>2, <1>3, <2>1, <2>3, CreditKept
<1>13. ASSUME NEW c \in Clients, NEW y \in Items, NEW w \in Windows \cup {NoTarget},
              Activate(c, y, w)
       PROVE  (Cardinality(Of(dropped, x)) + Held(x) + Due(x) <= Cardinality(Of(Writes, x)))'
  <2> DEFINE e == IF row[y] # 0
                    THEN [IdleAct EXCEPT !.pc = "read", !.item = y, !.id = row[y],
                                         !.target = w]
                    ELSE [IdleAct EXCEPT !.outcome = "NotFound"]
  <2>1. act' = [act EXCEPT ![c] = e] /\ act[c].pc = "idle"
        /\ UNCHANGED <<owned, dropped, marker>>
    BY <1>13 DEF Activate, ActUnchanged, daemonVars, selVars
  <2>2. e.pc # "mark"
    BY DEF IdleAct
  <2>3. \A d \in Clients : /\ act'[d].pc = "mark" <=> act[d].pc = "mark"
                           /\ act[d].pc = "mark" => act'[d].item = act[d].item
    BY <1>1, <2>1, <2>2 DEF Acts
  <2>4. Due(x)' = Due(x) /\ Held(x)' = Held(x)
    BY <2>1, <2>3 DEF Due, Held
  <2> QED
    BY <1>2, <1>3, <2>1, <2>4, CreditKept
<1> QED
  BY <1>5, <1>6, <1>7, <1>8, <1>9, <1>10, <1>11, <1>12, <1>13 DEF ANext

-----------------------------------------------------------------------------
(* The last copy *)

\* The user's last copy is somewhere between the clipboard and the history, or
\* its own read has failed.
OnItsWay ==
  Current # 0 /\ owned[Current].by = "user" =>
    \/ Current \in unread \cup reading
    \/ \E i \in DOMAIN channel : channel[i] = Current
    \/ main = Current
    \/ Current \in saved \cup dropped \cup missed
    \/ Normal[owned[Current].content] = NoContent

\* The invariant of the last copy at the start ...
LEMMA OnItsWayInit == AInit => OnItsWay
<1> SUFFICES ASSUME AInit, Current # 0 PROVE OnItsWay
  BY DEF OnItsWay
<1>1. ATypeInv
  BY ATypeInit
<1>2. Current \in DOMAIN owned
  BY <1>1 DEF ATypeInv, ATypeOK, SelTypeOK, Current
<1> QED
  BY <1>2 DEF AInit, SelInit, OnItsWay

\* A step that does not touch the way of a copy.
LEMMA OnItsWayKept ==
  ASSUME OnItsWay, UNCHANGED <<owned, unread, reading, channel, missed, main, saved, dropped>>
  PROVE  OnItsWay'
  BY DEF OnItsWay, Current

\* ... and at every step of the watcher and of the main task.
LEMMA OnItsWayStep == ATypeInv /\ OnItsWay /\ [ANext]_avars => OnItsWay'
<1> SUFFICES ASSUME ATypeInv, OnItsWay, [ANext]_avars PROVE OnItsWay'
  OBVIOUS
<1>1. owned \in Seq(Entry) /\ channel \in Seq(DOMAIN owned)
  BY DEF ATypeInv, ATypeOK, SelTypeOK, Entry
<1>2. ASSUME NEW e \in Entry, owned' = Append(owned, e),
             e.by # "user" \/ unread' = unread \cup {Len(owned) + 1}
      PROVE  OnItsWay'
  <2>1. Current' = Len(owned) + 1 /\ owned'[Current'] = e
    BY <1>1, <1>2 DEF Current
  <2> QED
    BY <1>2, <2>1 DEF OnItsWay
<1>3. ASSUME NEW c \in Copies, Copy(c) PROVE OnItsWay'
  <2>1. [content |-> c, by |-> "user"] \in Entry
    BY DEF Entry, Owners
  <2> QED
    BY <1>2, <1>3, <2>1 DEF Copy, Own
<1>4. CASE Close
  BY <1>2, <1>4, GoneIsEntry DEF Close, Vanish, Gone
<1>5. ASSUME NEW c \in Clients, Write(c) PROVE OnItsWay'
  <2>1. [content |-> act[c].item, by |-> "pookie"] \in Entry
    BY ItemsAreCopies DEF ATypeInv, ATypeOK, Entry, Owners
  <2> QED
    BY <1>2, <1>5, <2>1 DEF Write, Own
<1>6. CASE WatcherStep
  <2> SUFFICES ASSUME Current # 0, owned[Current].by = "user",
                      ~(main = Current \/ Current \in saved \cup dropped
                        \/ Normal[owned[Current].content] = NoContent)
               PROVE  \/ Current \in unread' \cup reading' \cup missed'
                      \/ \E i \in DOMAIN channel' : channel'[i] = Current
    BY <1>6, WatchKeeps DEF WatcherStep, daemonVars, OnItsWay, Current
  <2>1. \A x \in DOMAIN owned :
          /\ DOMAIN channel \subseteq DOMAIN Append(channel, x)
          /\ \A i \in DOMAIN channel : Append(channel, x)[i] = channel[i]
          /\ \E i \in DOMAIN Append(channel, x) : Append(channel, x)[i] = x
    <3> SUFFICES ASSUME NEW x \in DOMAIN owned
                 PROVE  /\ DOMAIN channel \subseteq DOMAIN Append(channel, x)
                        /\ \A i \in DOMAIN channel : Append(channel, x)[i] = channel[i]
                        /\ \E i \in DOMAIN Append(channel, x) : Append(channel, x)[i] = x
      OBVIOUS
    <3>1. Len(channel) + 1 \in DOMAIN Append(channel, x)
          /\ Append(channel, x)[Len(channel) + 1] = x
      BY <1>1
    <3> QED
      BY <1>1, <3>1
  <2>2. Current \in DOMAIN owned /\ unread \subseteq DOMAIN owned /\ reading \subseteq DOMAIN owned
    BY <1>1 DEF Current, ATypeInv, ATypeOK, SelTypeOK
  <2>3. \/ Current \in unread \cup reading \cup missed
        \/ \E i \in DOMAIN channel : channel[i] = Current
    BY DEF OnItsWay
  <2>4. ASSUME NEW k \in unread, ReadCurrent(k)
        PROVE  \E i \in DOMAIN channel' : channel'[i] = Current
    BY <2>1, <2>2, <2>4 DEF ReadCurrent
  <2>5. ASSUME NEW k \in unread, ReadFails(k) \/ Request(k)
        PROVE  \/ Current \in unread' \cup reading' \cup missed'
               \/ \E i \in DOMAIN channel' : channel'[i] = Current
    BY <2>3, <2>5 DEF ReadFails, Request
  <2>6. ASSUME NEW k \in reading, Deliver(k)
        PROVE  \/ Current \in unread' \cup reading' \cup missed'
               \/ \E i \in DOMAIN channel' : channel'[i] = Current
    <3>1. k \in DOMAIN owned /\ channel' = Append(channel, k)
          /\ reading' = reading \ {k} /\ UNCHANGED <<unread, missed>>
      BY <2>2, <2>6 DEF Deliver
    <3>2. CASE k = Current
      BY <2>1, <3>1, <3>2
    <3>3. CASE k # Current
      BY <2>1, <2>3, <3>1, <3>3
    <3> QED
      BY <3>2, <3>3
  <2>7. ASSUME NEW k \in reading, DeliverFails(k)
        PROVE  \/ Current \in unread' \cup reading' \cup missed'
               \/ \E i \in DOMAIN channel' : channel'[i] = Current
    BY <2>3, <2>7 DEF DeliverFails
  <2> QED
    BY <1>6, <2>4, <2>5, <2>6, <2>7 DEF WatcherStep, Watch
<1>7. CASE Receive
  <2> DEFINE k == Head(channel)
  <2>1. /\ channel # <<>> /\ channel' = Tail(channel) /\ main = 0
        /\ UNCHANGED <<owned, unread, reading, missed, saved>>
        /\ IF owned[k].content = marker THEN dropped' = dropped \cup {k}
           ELSE /\ dropped' = dropped
                /\ main' = k \/ Normal[owned[k].content] = NoContent
    BY <1>7 DEF Receive
  <2>2. \A i \in DOMAIN channel : channel[i] = k \/ \E j \in DOMAIN channel' : channel'[j] = channel[i]
    <3>1. k = channel[1] /\ DOMAIN channel = 1..Len(channel) /\ Len(channel) \in Nat \ {0}
          /\ DOMAIN channel' = 1..(Len(channel) - 1)
          /\ \A j \in DOMAIN channel' : channel'[j] = channel[j + 1]
      BY <1>1, <2>1
    <3>2. ASSUME NEW i \in DOMAIN channel, i # 1
          PROVE  i - 1 \in DOMAIN channel' /\ channel'[i - 1] = channel[i]
      BY <3>1, <3>2
    <3> QED
      BY <3>1, <3>2
  <2>3. Current' = Current /\ owned'[Current'] = owned[Current]
    BY <2>1 DEF Current
  <2>4. Current # 0 => main # Current
    BY <2>1
  <2> HIDE DEF k
  <2> QED
    BY <2>1, <2>2, <2>3, <2>4 DEF OnItsWay
<1>8. CASE Save
  <2>1. UNCHANGED <<owned, unread, reading, channel, missed, dropped>>
        /\ saved' = saved \cup {main}
    BY <1>8 DEF Save, selVars
  <2> QED
    BY <2>1 DEF OnItsWay, Current
<1>9. CASE (\E y \in Items : Remove(y)) \/ (\E w \in Windows : Focus(w)) \/ UNCHANGED avars
  BY <1>9, OnItsWayKept DEF Remove, Focus, avars, selVars, daemonVars
<1>10. ASSUME NEW c \in Clients, ActStep(c), ~Write(c) PROVE OnItsWay'
  BY <1>10, OnItsWayKept
     DEF ActStep, ReadContent, WriteFails, Mark, Promote, PromoteFails, Restore, Poll,
         Paste, ActUnchanged, daemonVars, selVars
<1>11. ASSUME NEW c \in Clients, NEW x \in Items, NEW w \in Windows \cup {NoTarget},
              Activate(c, x, w)
       PROVE  OnItsWay'
  BY <1>11, OnItsWayKept DEF Activate, ActUnchanged, daemonVars, selVars
<1> QED
  BY <1>3, <1>4, <1>5, <1>6, <1>7, <1>8, <1>9, <1>10, <1>11 DEF ANext

-----------------------------------------------------------------------------
(* The theorems *)

\* Every reachable state is well typed, on both platforms and whatever users,
\* watchers and connections do.
THEOREM ATypeCorrect == ASpec => []ATypeOK
<1>1. ATypeInv => ATypeOK
  BY DEF ATypeInv
<1> QED
  BY ATypeInit, ATypeStep, <1>1, PTL DEF ASpec

\* The marker of clipboard_state.rs never describes anything but the daemon's
\* last write, thanks to the mutex that holds a write and its mark together.
THEOREM MarkerSound == ASpec => []MarkerIsLastWrite
<1> QED
  BY ATypeInit, ATypeStep, MarkerInit, MarkerStep, MarkerImplied, PTL DEF ASpec

\* No activation claims what it has not done: keys are sent, by it or by a
\* worker it gave up, only after the item was written and promoted and the
\* target seen active, and after that only three answers are given.
THEOREM AnswersHonest == ASpec => []OutcomeHonest
<1>1. HonestInv => OutcomeHonest
  BY DEF HonestInv, Honest, OutcomeHonest
<1> QED
  BY ATypeInit, ATypeStep, HonestInit, HonestStep, <1>1, PTL DEF ASpec

\* A write of the daemon costs the history at most one event of its content
\* (is_self_write consumes the marker), with any number of activations.
THEOREM OneEventPerWrite == ASpec => []OneDropPerWrite
<1>1. ATypeInv /\ CreditInv => OneDropPerWrite
  <2> SUFFICES ASSUME ATypeInv, CreditInv, NEW x \in Items
               PROVE  Cardinality(Of(dropped, x)) <= Cardinality(Of(Writes, x))
    BY DEF OneDropPerWrite
  <2>1. Cardinality(Of(dropped, x)) + Held(x) + Due(x) <= Cardinality(Of(Writes, x))
        /\ Held(x) \in Nat /\ Due(x) \in Nat
    BY DEF CreditInv, Held, Due
  <2> QED
    BY <2>1, CountsAreFinite
<1> QED
  BY ATypeInit, ATypeStep, MarkerInit, MarkerStep, CreditInit, CreditStep, <1>1, PTL DEF ASpec

\* The user's last copy is recorded once the watcher and the main task are
\* done, unless its own read failed or it was taken for a self-write: no other
\* read costs it.
THEOREM LastCopyIsKept == ASpec => []LastCopyKept
<1>1. OnItsWay => LastCopyKept
  BY DEF OnItsWay, LastCopyKept, Watched
<1> QED
  BY ATypeInit, ATypeStep, OnItsWayInit, OnItsWayStep, <1>1, PTL DEF ASpec
=============================================================================
