------------------------------ MODULE Service -------------------------------
(***************************************************************************)
(* The delivery of items and the life of the daemon processes, side by side: *)
(* the two share no state.  An instance says which daemons start and whether *)
(* the user opens popups, which then find a daemon.                         *)
(***************************************************************************)
EXTENDS Delivery, Lifecycle

ASSUME ServiceAssumption == \A i \in Instances : i.daemons \subseteq Daemons

svars == <<dvars, lifeVars>>

SInit == DInit /\ LifecycleInit(instance.daemons)

SNext ==
  \/ DNext /\ UNCHANGED lifeVars
  \/ LifecycleNext /\ UNCHANGED dvars

SFairSpec == SInit /\ [][SNext]_svars /\ DFairness

ServiceTypeOK == DTypeOK /\ LifecycleTypeOK
=============================================================================
