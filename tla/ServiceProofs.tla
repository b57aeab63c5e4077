---------------------------- MODULE ServiceProofs ----------------------------
(***************************************************************************)
(* Theorems about Service: what Delivery promises and that one daemon runs,  *)
(* for any instances, windows and number of processes.                      *)
(***************************************************************************)
EXTENDS Service, DeliveryProofs

(* The life of the daemons *)

\* Up to the removal of the path in Drop, a daemon that listens is at the path.
Holds(d) == phase[d] \in {"up", "teardown", "drop"}

\* While no two daemons were starting at once, one starts alone, whoever has
\* listened is at the path, and who has found the path free or refused finds
\* nobody there until it listens itself.
LifecycleInv ==
  ~overlap =>
    /\ \A d, e \in Daemons : Starting(d) /\ Starting(e) => d = e
    /\ \A d \in Daemons : Holds(d) => path = d
    /\ \A d \in Daemons : phase[d] \in {"remove", "bind", "listen"} =>
         \A e \in Daemons : ~Holds(e)
    /\ \A d \in Daemons : phase[d] = "bind" => path = NoSocket
    /\ \A d \in Daemons : phase[d] = "listen" => path = d

\* Whichever daemons were started at login, none serves yet.
LEMMA LifecycleStarts ==
  ASSUME NEW S \in SUBSET Daemons, LifecycleInit(S)
  PROVE  LifecycleTypeOK /\ LifecycleInv
BY DEF LifecycleInit, LifecycleTypeOK, LifecycleInv, Starting, Holds

\* Every step of the lifecycle keeps the socket with the daemon that holds the
\* lock.
LEMMA LifecycleStep ==
  ASSUME LifecycleTypeOK, LifecycleInv, LifecycleNext
  PROVE  LifecycleTypeOK' /\ LifecycleInv'
<1> USE LifecycleAssumption
    DEF LifecycleTypeOK, LifecycleInv, Starting, Holds, Moves
<1>1. ASSUME NEW d \in Daemons, Start(d) PROVE LifecycleTypeOK' /\ LifecycleInv'
  BY <1>1 DEF Start
<1>2. ASSUME NEW d \in Daemons, Probe(d) PROVE LifecycleTypeOK' /\ LifecycleInv'
  BY <1>2 DEF Probe
<1>3. ASSUME NEW d \in Daemons, Connect(d) PROVE LifecycleTypeOK' /\ LifecycleInv'
  BY <1>3 DEF Connect, Listening, Serving
<1>4. ASSUME NEW d \in Daemons, Remove(d) PROVE LifecycleTypeOK' /\ LifecycleInv'
  BY <1>4 DEF Remove
<1>5. ASSUME NEW d \in Daemons, Bind(d) PROVE LifecycleTypeOK' /\ LifecycleInv'
  BY <1>5 DEF Bind
<1>6. ASSUME NEW d \in Daemons, Listen(d) PROVE LifecycleTypeOK' /\ LifecycleInv'
  BY <1>6 DEF Listen
<1>7. ASSUME NEW d \in Daemons, ShutdownSignal(d)
      PROVE  LifecycleTypeOK' /\ LifecycleInv'
  BY <1>7 DEF ShutdownSignal
<1>8. ASSUME NEW d \in Daemons, Leave(d) PROVE LifecycleTypeOK' /\ LifecycleInv'
  BY <1>8 DEF Leave, Serving
<1>9. ASSUME NEW d \in Daemons, DropServer(d)
      PROVE  LifecycleTypeOK' /\ LifecycleInv'
  BY <1>9 DEF DropServer
<1>10. ASSUME NEW d \in Daemons, CloseListener(d)
       PROVE  LifecycleTypeOK' /\ LifecycleInv'
  BY <1>10 DEF CloseListener
<1>11. ASSUME NEW d \in Daemons, End(d) \/ Crash(d)
       PROVE  LifecycleTypeOK' /\ LifecycleInv'
  BY <1>11 DEF End, Crash
<1> QED
  BY <1>1, <1>2, <1>3, <1>4, <1>5, <1>6, <1>7, <1>8, <1>9, <1>10, <1>11
     DEF LifecycleNext

-----------------------------------------------------------------------------
(* The service *)

\* Service starts with the lifecycle as it should be.
LEMMA ServiceStarts == SInit => LifecycleTypeOK /\ LifecycleInv
BY LifecycleStarts, ServiceAssumption DEF SInit, DInit, DesktopInit

\* What Service does to the paste and the popup is what Delivery does.
LEMMA ServiceDelivers == SInit /\ [][SNext]_svars => DSpec
<1>1. [SNext]_svars => [DNext]_dvars
  BY DEF SNext, svars
<1> QED
  BY <1>1, PTL DEF SInit, DSpec

\* Every step of Service is a step of the lifecycle or leaves it alone.
LEMMA LifecycleMoves ==
  LifecycleTypeOK /\ LifecycleInv /\ [SNext]_svars => (LifecycleTypeOK /\ LifecycleInv)'
<1>1. ASSUME LifecycleTypeOK, LifecycleInv, UNCHANGED lifeVars
      PROVE  LifecycleTypeOK' /\ LifecycleInv'
  BY <1>1 DEF lifeVars, LifecycleTypeOK, LifecycleInv, Holds, Starting
<1> QED
  BY <1>1, LifecycleStep DEF SNext, svars

\* However daemons start, crash and are replaced, unless two were starting at
\* once at most one serves, the socket leads to it, and any other that has the
\* database open is past the removal of its own.
THEOREM OneDaemonServes == SFairSpec => []OneDaemon
<1>1. LifecycleTypeOK /\ LifecycleInv => OneDaemon
  BY LifecycleAssumption DEF LifecycleTypeOK, LifecycleInv, OneDaemon, Holds, Serving,
         HasDatabase, Listening
<1> QED
  BY <1>1, ServiceStarts, LifecycleMoves, PTL DEF SFairSpec

\* All variables of the service stay typed.
THEOREM ServiceIsTyped == SFairSpec => []ServiceTypeOK
<1>1. DeliveryInv => DTypeOK
  BY DEF DeliveryInv, DTypeOK, ActInv
<1> QED
  BY <1>1, ServiceStarts, LifecycleMoves, ServiceDelivers, DeliveryCorrect, PTL
     DEF SFairSpec, ServiceTypeOK

\* A paste command that the portal worker types belongs to the session it is
\* typed in.
THEOREM PasteStaysInSession == SFairSpec => []TypedInItsSession
<1>1. DeliveryInv => TypedInItsSession
  BY DEF DeliveryInv, PortalInv, Fresh, TypedInItsSession
<1> QED
  BY <1>1, ServiceDelivers, DeliveryCorrect, PTL DEF SFairSpec

\* When the worker does not type, no key is left down by the portal.
THEOREM KeysAreReleased == SFairSpec => []NoKeyLeftDown
<1>1. DeliveryInv => NoKeyLeftDown
  BY DEF DeliveryInv, PortalInv, KeysUp, NoKeyLeftDown
<1> QED
  BY <1>1, ServiceDelivers, DeliveryCorrect, PTL DEF SFairSpec

\* Health says Ready only of a session whose keyboard can type, once the events
\* are read.
THEOREM HealthIsHonest == SFairSpec => []ReadyIsReady
<1>1. DeliveryInv => ReadyIsReady
  BY DEF DeliveryInv, PortalInv, Believed, InSession, ReadyIsReady
<1> QED
  BY <1>1, ServiceDelivers, DeliveryCorrect, PTL DEF SFairSpec

\* The V of an activation that waits for it goes into the window that the daemon
\* confirmed, and while no call was given up that is one the popup was opened
\* over.
THEOREM TypesRightWindow == SFairSpec => RightWindow
BY ServiceDelivers, DeliveryTypesRight, PTL DEF SFairSpec
=============================================================================
