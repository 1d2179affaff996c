-------------------------- MODULE AppLifecycleProofs --------------------------
(***************************************************************************)
(* Proofs about AppLifecycle, for any number of music directories.         *)
(*                                                                         *)
(* The main thread and the application thread share _instance and the App  *)
(* without a lock.  The invariant says, for each place of either thread,   *)
(* what the other may have seen: before Publish there is no App, and a     *)
(* stop that began after the scan had (not early) finds it published.      *)
(***************************************************************************)
EXTENDS AppLifecycle, TLAPS

Constructing == app \in {"none", "options", "tables", "listen", "webthread"}

\* The App is not there before Publish, the web thread not before StartWeb.
Unpublished ==
    /\ main = "create" => app = "none"
    /\ Constructing => web = "none"
    /\ Constructing \/ app = "publish" => object = "none" /\ ~instance

\* Only App::stop takes the App apart, and JoinWeb ends that.
DestroyedByStop ==
    /\ main \in {"create", "unblocked", "sigwait", "delete"}
          => object \in {"none", "built"}
    /\ object = "destroyed" => web = "returned"

\* The application thread that got as far as starting the server, and has not
\* failed, has published the App by the time it scans.
PublishedByScan ==
    /\ main \in {"create", "unblocked", "sigwait", "delete"}
          /\ app \in {"rescan", "scan", "done"} /\ web # "none"
          => instance /\ object = "built"
    /\ main = "joinweb" => object = "destroying"

\* A stop that is not early finds the scan begun or over.
LateStop ==
    /\ main \in {"delete", "joinweb", "clear", "joinapp", "exited"} /\ ~early
          => app \in {"scan", "done"}
    /\ main \in {"clear", "joinapp", "exited"} /\ ~early /\ web # "none"
          => object = "destroyed"
    /\ process = "exited" => main = "exited"

IInv ==
    /\ TypeOK
    /\ Unpublished
    /\ DestroyedByStop
    /\ PublishedByScan
    /\ LateStop
------------------------------------------------------------------------------

LEMMA InitIInv == Init => IInv
<1>1. Init => TypeOK
  <2>1. Init => left \in 0..MusicDirs
    BY MusicDirsNat DEF Init
  <2> QED BY <2>1, Zenon DEF Init, TypeOK
<1>2. Init => Unpublished /\ DestroyedByStop /\ PublishedByScan /\ LateStop
  BY DEF Init, Unpublished, Constructing, DestroyedByStop, PublishedByScan, LateStop
<1> QED BY <1>1, <1>2 DEF IInv

\* The steps of the main thread.
LEMMA MainKeeps == IInv /\ Main => IInv'
<1> SUFFICES ASSUME IInv, Main PROVE IInv'
  OBVIOUS
<1> USE DEF IInv, Unpublished, Constructing, DestroyedByStop, PublishedByScan, LateStop,
            MainAt, MainOnly
<1>1. CASE CreateThread
  BY <1>1 DEF CreateThread, TypeOK
<1>2. CASE Killed
  BY <1>2 DEF Killed, TypeOK
<1>3. CASE BlockSignals
  BY <1>3 DEF BlockSignals, TypeOK
<1>4. CASE SigWait
  BY <1>4 DEF SigWait, TypeOK
<1>5. CASE DeleteNothing
  BY <1>5 DEF DeleteNothing, TypeOK
<1>6. CASE Destroy
  BY <1>6 DEF Destroy, TypeOK
<1>7. CASE JoinWeb
  BY <1>7 DEF JoinWeb, TypeOK
<1>8. CASE Clear
  BY <1>8 DEF Clear, TypeOK
<1>9. CASE JoinApp
  BY <1>9 DEF JoinApp, TypeOK
<1> QED BY <1>1, <1>2, <1>3, <1>4, <1>5, <1>6, <1>7, <1>8, <1>9 DEF Main

\* The steps of the application thread.
LEMMA AppKeeps == IInv /\ App => IInv'
<1> SUFFICES ASSUME IInv, App PROVE IInv'
  OBVIOUS
<1> USE DEF IInv, Unpublished, Constructing, DestroyedByStop, PublishedByScan, LateStop,
            AppAt, AppOnly
<1>1. CASE BuildStep
  BY <1>1 DEF BuildStep, TypeOK
<1>2. CASE BuildFails
  BY <1>2 DEF BuildFails, TypeOK
<1>3. CASE StartWeb
  BY <1>3 DEF StartWeb, TypeOK
<1>4. CASE Publish
  BY <1>4 DEF Publish, TypeOK
<1>5. CASE Rescan
  BY <1>5 DEF Rescan, TypeOK
<1>6. CASE RescanCrashes
  BY <1>6 DEF RescanCrashes, TypeOK
<1>7. CASE ScanDir
  <2>1. left' \in 0..MusicDirs
    BY <1>7, MusicDirsNat DEF ScanDir, TypeOK
  <2> QED BY <1>7, <2>1 DEF ScanDir, TypeOK
<1>8. CASE ScanReturns
  BY <1>8 DEF ScanReturns, TypeOK
<1> QED BY <1>1, <1>2, <1>3, <1>4, <1>5, <1>6, <1>7, <1>8 DEF App

\* The rest: a signal is sent, the web thread ends or throws, nothing happens.
LEMMA OthersKeep == IInv /\ (Signal \/ WebReturns \/ WebThrows \/ UNCHANGED vars) => IInv'
<1> SUFFICES ASSUME IInv, Signal \/ WebReturns \/ WebThrows \/ UNCHANGED vars PROVE IInv'
  OBVIOUS
<1> USE DEF IInv, Unpublished, Constructing, DestroyedByStop, PublishedByScan, LateStop
<1>1. CASE Signal
  BY <1>1 DEF Signal, TypeOK
<1>2. CASE WebReturns
  BY <1>2 DEF WebReturns, TypeOK
<1>3. CASE WebThrows
  BY <1>3 DEF WebThrows, TypeOK
<1>4. CASE UNCHANGED vars
  BY <1>4 DEF vars, TypeOK
<1> QED BY <1>1, <1>2, <1>3, <1>4

THEOREM Invariance == Spec => []IInv
<1>1. IInv /\ [Next]_vars => IInv'
  BY MainKeeps, AppKeeps, OthersKeep DEF Next
<1> QED BY InitIInv, <1>1, PTL DEF Spec

------------------------------------------------------------------------------

\* The variables of the three threads keep their types, whatever the order in
\* which the threads take their steps.
THEOREM TypeCorrect == Spec => []TypeOK
<1>1. IInv => TypeOK
  BY DEF IInv
<1> QED BY Invariance, <1>1, PTL

\* ~App joins the web thread before what it uses is destroyed (app.cpp).
THEOREM NoThreadWithoutServer == Spec => []ServerOutlivesItsThread
<1>1. IInv => ServerOutlivesItsThread
  BY DEF IInv, DestroyedByStop, ServerOutlivesItsThread
<1> QED BY Invariance, <1>1, PTL

\* A signal that comes once the scan has begun finds the App published: main
\* returns after the web thread has, and with the App destroyed.
THEOREM StopsInOrder == Spec => []OrderlyOnceScanning
<1>1. IInv => OrderlyOnceScanning
  BY DEF IInv, DestroyedByStop, LateStop, OrderlyOnceScanning
<1> QED BY Invariance, <1>1, PTL
==============================================================================
