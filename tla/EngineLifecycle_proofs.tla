-------------------------- MODULE EngineLifecycle_proofs --------------------------
(***************************************************************************)
(* The invariants of EngineLifecycle, for any number of engine objects.    *)
(* Together they are inductive: an engine that stops takes the backend     *)
(* down whatever the other engines think, so only the engines that stay    *)
(* Running can leave it up.                                                *)
(***************************************************************************)
EXTENDS EngineLifecycle, TLAPS

IInv == TypeOK /\ NoOrphanBackend /\ PeersNeedRun

LEMMA InitInv == Init => IInv
BY DEF Init, IInv, TypeOK, NoOrphanBackend, PeersNeedRun

LEMMA ConstructInv == ASSUME IInv, NEW e \in Engine, Construct(e) PROVE IInv'
<1>1. TypeOK'
  BY DEF IInv, TypeOK, Construct
<1>2. NoOrphanBackend'
  BY DEF IInv, TypeOK, NoOrphanBackend, Construct, Alive
<1>3. PeersNeedRun'
  BY DEF IInv, TypeOK, PeersNeedRun, Construct, Alive
<1> QED
  BY <1>1, <1>2, <1>3 DEF IInv

LEMMA MoveInv == ASSUME IInv, NEW from \in Engine, NEW to \in Engine, Move(from, to) PROVE IInv'
<1>1. TypeOK'
  BY DEF IInv, TypeOK, Move, Alive
<1>2. NoOrphanBackend'
  BY DEF IInv, TypeOK, NoOrphanBackend, Move, Alive
<1>3. PeersNeedRun'
  BY DEF IInv, TypeOK, PeersNeedRun, Move, Alive
<1> QED
  BY <1>1, <1>2, <1>3 DEF IInv

LEMMA StartInv == ASSUME IInv, NEW e \in Engine, Start(e) PROVE IInv'
<1> USE DEF Start, StartRunning, StartFails, StartSucceeds
<1>1. TypeOK'
  BY DEF IInv, TypeOK
<1>2. NoOrphanBackend'
  BY DEF IInv, TypeOK, NoOrphanBackend, Alive
<1>3. PeersNeedRun'
  BY DEF IInv, TypeOK, PeersNeedRun
<1> QED
  BY <1>1, <1>2, <1>3 DEF IInv

(* stop() and the destructor. *)
LEMMA StopInv ==
  ASSUME IInv, NEW e \in Engine, NEW s \in {"none", "Stopped"}, StopAs(e, s)
  PROVE  IInv'
<1>1. TypeOK'
  BY DEF IInv, TypeOK, StopAs
<1>2. NoOrphanBackend'
  BY DEF IInv, TypeOK, NoOrphanBackend, StopAs, Alive
<1>3. PeersNeedRun'
  BY DEF IInv, TypeOK, PeersNeedRun, StopAs
<1> QED
  BY <1>1, <1>2, <1>3 DEF IInv

LEMMA PollInv == ASSUME IInv, NEW e \in Engine, Poll(e) PROVE IInv'
BY DEF IInv, TypeOK, NoOrphanBackend, PeersNeedRun, Poll, Alive

LEMMA InductiveInvariant == Spec => []IInv
<1>1. IInv /\ [Next]_vars => IInv'
  <2> SUFFICES ASSUME IInv, [Next]_vars PROVE IInv'
    OBVIOUS
  <2>1. CASE \E e \in Engine : Construct(e) \/ Start(e) \/ Stop(e) \/ Destroy(e) \/ Poll(e)
    BY <2>1, ConstructInv, StartInv, StopInv, PollInv DEF Stop, Destroy
  <2>2. CASE \E from, to \in Engine : Move(from, to)
    BY <2>2, MoveInv
  <2>3. CASE UNCHANGED vars
    BY <2>3 DEF vars, IInv, TypeOK, NoOrphanBackend, PeersNeedRun, Alive
  <2> QED
    BY <2>1, <2>2, <2>3 DEF Next
<1> QED
  BY InitInv, <1>1, PTL DEF Spec

(* However engines on one backend are constructed, moved, stopped and      *)
(* destroyed, a backend that runs has an engine that can stop it.          *)
THEOREM NeverOrphan == Spec => []NoOrphanBackend
<1>1. IInv => NoOrphanBackend
  BY DEF IInv
<1> QED
  BY <1>1, InductiveInvariant, PTL

(* No engine that is stopped, failed or gone holds peers.                  *)
THEOREM PeersAlwaysNeedRun == Spec => []PeersNeedRun
<1>1. IInv => PeersNeedRun
  BY DEF IInv
<1> QED
  BY <1>1, InductiveInvariant, PTL
=============================================================================
