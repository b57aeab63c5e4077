----------------------------- MODULE Lifecycle ------------------------------
(***************************************************************************)
(* That one daemon runs: the socket as a lock (ipc/src/server.rs, bind and  *)
(* Drop; daemon/src/ipc_server.rs, bind) through the start, the end and the  *)
(* crash of daemon processes (daemon/src/main.rs, shutdown.rs).              *)
(*                                                                         *)
(* bind is its system calls: whether the path is there, a connection to it,  *)
(* the removal of a socket that refused it, and the bind and listen of the   *)
(* new one.  Drop removes the path while the listener, a field, is open; and *)
(* what main declared before the server outlives both: the database, the     *)
(* clipboard watcher and the grabs, up to the end of the runtime and of the  *)
(* connection tasks that it spawned.                                         *)
(*                                                                         *)
(* Data.  A process starts once; which ones start is a constant's choice.    *)
(* The path is the daemon whose socket it names.                            *)
(***************************************************************************)
EXTENDS Naturals, FiniteSets

CONSTANTS
  Daemons,
  NoSocket

ASSUME LifecycleAssumption == NoSocket \notin Daemons

VARIABLES
  toStart,  \* processes still to be started
  phase,    \* where each is in main
  path,     \* the socket at the path
  overlap   \* two of them were starting at once (ghost)

lifeVars == <<toStart, phase, path, overlap>>

\* Within IpcServer::bind
Starting(d) == phase[d] \in {"probe", "connect", "remove", "bind", "listen"}

\* The select loop, and the teardown after it
Serving(d) == phase[d] \in {"up", "teardown"}

\* As Listening, if the listener were closed before the path is removed.
ListeningUntilDrop(d) == Serving(d)

\* connect finds a listener.
Listening(d) == Serving(d) \/ phase[d] \in {"drop", "close"}

\* From bind on main opens the database, the watcher and the grabs; the end of
\* the process closes them.
HasDatabase(d) == Listening(d) \/ phase[d] = "end"

Moves(d, p) == phase' = [phase EXCEPT ![d] = p]

LifecycleInit(started) ==
  /\ toStart = started
  /\ phase = [d \in Daemons |-> "off"]
  /\ path = NoSocket
  /\ overlap = FALSE

-----------------------------------------------------------------------------
(* The start *)

Start(d) ==
  /\ d \in toStart
  /\ toStart' = toStart \ {d}
  /\ Moves(d, "probe")
  /\ overlap' = (overlap \/ \E other \in Daemons : Starting(other))
  /\ UNCHANGED path

\* remove_stale_socket: path.exists
Probe(d) ==
  /\ phase[d] = "probe"
  /\ Moves(d, IF path = NoSocket THEN "bind" ELSE "connect")
  /\ UNCHANGED <<toStart, path, overlap>>

\* Its metadata, which may be gone meanwhile, and the connection: a daemon that
\* answers is running, one that refuses is dead or does not listen yet.
Connect(d) ==
  /\ phase[d] = "connect"
  /\ \/ path = NoSocket /\ \E p \in {"off", "bind"} : Moves(d, p)
     \/ path # NoSocket /\ Listening(path) /\ Moves(d, "off")
     \/ path # NoSocket /\ ~Listening(path) /\ Moves(d, "remove")
  /\ UNCHANGED <<toStart, path, overlap>>

\* remove_file: whatever is there by now; it is an error if nothing is.
Remove(d) ==
  /\ phase[d] = "remove"
  /\ Moves(d, IF path = NoSocket THEN "off" ELSE "bind")
  /\ path' = NoSocket
  /\ UNCHANGED <<toStart, overlap>>

\* bind of the socket: the path must be free.
Bind(d) ==
  /\ phase[d] = "bind"
  /\ \/ path = NoSocket /\ path' = d /\ Moves(d, "listen")
     \/ path # NoSocket /\ UNCHANGED path /\ Moves(d, "off")
  /\ UNCHANGED <<toStart, overlap>>

Listen(d) ==
  /\ phase[d] = "listen"
  /\ Moves(d, "up")
  /\ UNCHANGED <<toStart, path, overlap>>

-----------------------------------------------------------------------------
(* The end *)

\* A signal received by the select loop
ShutdownSignal(d) ==
  /\ phase[d] = "up"
  /\ Moves(d, "teardown")
  /\ UNCHANGED <<toStart, path, overlap>>

\* The teardown is done; or main returned an error, of its startup after bind
\* or of the IPC future, without one.
Leave(d) ==
  /\ Serving(d)
  /\ Moves(d, "drop")
  /\ UNCHANGED <<toStart, path, overlap>>

\* Drop for IpcServer: if the path is there it is removed.
DropServer(d) ==
  /\ phase[d] = "drop"
  /\ Moves(d, "close")
  /\ path' = NoSocket
  /\ UNCHANGED <<toStart, overlap>>

CloseListener(d) ==
  /\ phase[d] = "close"
  /\ Moves(d, "end")
  /\ UNCHANGED <<toStart, path, overlap>>

\* The other variables of main, and the runtime with the connection tasks
End(d) ==
  /\ phase[d] = "end"
  /\ Moves(d, "off")
  /\ UNCHANGED <<toStart, path, overlap>>

\* The process is killed, or a signal comes before its handler is there; its
\* socket stays.
Crash(d) ==
  /\ phase[d] # "off"
  /\ Moves(d, "off")
  /\ UNCHANGED <<toStart, path, overlap>>

LifecycleNext ==
  \E d \in Daemons :
    \/ Start(d) \/ Probe(d) \/ Connect(d) \/ Remove(d) \/ Bind(d) \/ Listen(d)
    \/ ShutdownSignal(d) \/ Leave(d) \/ DropServer(d) \/ CloseListener(d)
    \/ End(d) \/ Crash(d)

LifecycleTypeOK ==
  /\ toStart \subseteq Daemons
  /\ phase \in [Daemons -> {"off", "probe", "connect", "remove", "bind", "listen",
                            "up", "teardown", "drop", "close", "end"}]
  /\ path \in Daemons \cup {NoSocket}
  /\ overlap \in BOOLEAN

-----------------------------------------------------------------------------
(* Properties *)

\* As long as no two daemons were starting at once, at most one serves, the
\* socket leads to it, and another that still has the database open has removed
\* its socket and is on its way out: crashes, stale sockets and a start during
\* another's teardown never leave two that serve, or one that nobody reaches.
\* (ipc/src/server.rs:40 and 165.)
OneDaemon ==
  ~overlap =>
    \A d \in Daemons : Serving(d) =>
      /\ path = d
      /\ \A other \in Daemons \ {d} :
           HasDatabase(other) => phase[other] \in {"close", "end"}

\* "This single-instance check ensures only one process accesses the SQLite
\* database, binds global shortcut listeners, or handles clipboard events"
\* (docs/ipc/overview.md:311), of daemons that did not start at once.  Not so:
\* the path is gone before the database is closed.
OneDatabase ==
  ~overlap => \A d, e \in Daemons : HasDatabase(d) /\ HasDatabase(e) => d = e

\* The same sentence of two daemons that serve, however they started.  Not so:
\* each may find the socket dead, and one removes what the other has bound.
OneServes == \A d, e \in Daemons : Serving(d) /\ Serving(e) => d = e
=============================================================================
