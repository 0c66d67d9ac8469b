----------------------------- MODULE EngineLifecycle -----------------------------
(***************************************************************************)
(* engine/DiscoveryEngine.hpp: the life of engine objects.  An engine holds *)
(* a reference to a backend it does not own, so several engines may be     *)
(* built on one backend, and the move constructor makes a second engine on *)
(* the backend of the first.  An application constructs, moves, starts,    *)
(* stops, polls and destroys engines in any order.                         *)
(*                                                                         *)
(* DiscoveryEngine has the whole of one engine; here an engine is its      *)
(* status and whether its registry holds anything.  NonCopyable is not in  *)
(* the repository; it is taken to permit the defaulted move.               *)
(***************************************************************************)
EXTENDS Integers

CONSTANT Engine      \* storage for engine objects

VARIABLES
  status,            \* status[e]: status_, or "none" while there is no object in e
  knows,             \* knows[e]: registry_ is not empty
  backend_running    \* backend_.is_running(), of the one backend all of them refer to

vars == <<status, knows, backend_running>>

Alive == {e \in Engine : status[e] # "none"}

TypeOK ==
  /\ status \in [Engine -> {"none", "Stopped", "Running", "Failed"}]
  /\ knows \in [Engine -> BOOLEAN]
  /\ backend_running \in BOOLEAN

Init ==
  /\ status = [e \in Engine |-> "none"]
  /\ knows = [e \in Engine |-> FALSE]
  /\ backend_running = FALSE

Construct(e) ==
  /\ e \notin Alive
  /\ status' = [status EXCEPT ![e] = "Stopped"]
  /\ knows' = [knows EXCEPT ![e] = FALSE]
  /\ UNCHANGED backend_running

(* The defaulted move copies the status and the reference, and empties the *)
(* registry it moves; the engine moved from keeps its status.              *)
Move(from, to) ==
  /\ from \in Alive
  /\ to \notin Alive
  /\ status' = [status EXCEPT ![to] = status[from]]
  /\ knows' = [knows EXCEPT ![to] = knows[from], ![from] = FALSE]
  /\ UNCHANGED backend_running

(* Only the status says whether there is anything to do. *)
StartRunning(e) ==
  /\ status[e] = "Running"
  /\ UNCHANGED <<status, backend_running>>

(* The context is not valid, or the backend does not start. *)
StartFails(e) ==
  /\ status[e] # "Running"
  /\ status' = [status EXCEPT ![e] = "Failed"]
  /\ UNCHANGED backend_running

StartSucceeds(e) ==
  /\ status[e] # "Running"
  /\ status' = [status EXCEPT ![e] = "Running"]
  /\ backend_running' = TRUE

Start(e) ==
  /\ e \in Alive
  /\ StartRunning(e) \/ StartFails(e) \/ StartSucceeds(e)
  /\ UNCHANGED knows

(* Faulty: the registry is not cleared. *)
StopAs_KeepsPeers(e, s) ==
  /\ status' = [status EXCEPT ![e] = s]
  /\ backend_running' = (backend_running /\ status[e] = "Stopped")
  /\ UNCHANGED knows

(* stop() returns at once when the engine is stopped already; s is what    *)
(* becomes of the object.                                                  *)
StopAs(e, s) ==
  /\ status' = [status EXCEPT ![e] = s]
  /\ knows' = [knows EXCEPT ![e] = knows[e] /\ status[e] = "Stopped"]
  /\ backend_running' = (backend_running /\ status[e] = "Stopped")

Stop(e) == e \in Alive /\ StopAs(e, "Stopped")

(* Faulty: the destructor does nothing. *)
Destroy_Only(e) ==
  /\ e \in Alive
  /\ status' = [status EXCEPT ![e] = "none"]
  /\ knows' = [knows EXCEPT ![e] = FALSE]
  /\ UNCHANGED backend_running

Destroy(e) == e \in Alive /\ StopAs(e, "none")

(* A message is received, through whichever engine is polled. *)
Poll(e) ==
  /\ status[e] = "Running"
  /\ backend_running
  /\ knows' = [knows EXCEPT ![e] = TRUE]
  /\ UNCHANGED <<status, backend_running>>

Next ==
  \/ \E e \in Engine : Construct(e) \/ Start(e) \/ Stop(e) \/ Destroy(e) \/ Poll(e)
  \/ \E from, to \in Engine : Move(from, to)

Spec == Init /\ [][Next]_vars

-----------------------------------------------------------------------------
(* Properties *)

(* A backend that runs can always be stopped through an engine: however    *)
(* engines were moved, shared and destroyed, one of those left is Running  *)
(* (the destructor, stop).                                                 *)
NoOrphanBackend == backend_running => \E e \in Alive : status[e] = "Running"

(* Only an engine that is Running knows peers: a failed start, a move or a *)
(* stop through a second engine leaves none behind (stop, the move).       *)
PeersNeedRun == \A e \in Engine : knows[e] => status[e] = "Running"
=============================================================================
