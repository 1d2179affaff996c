----------------------------- MODULE AppLifecycle -----------------------------
(***************************************************************************)
(* AppLifecycle: the three threads of the process from start to end.  The  *)
(* main thread starts the application thread and waits for a signal; the   *)
(* application thread builds the App, which starts the web thread, and     *)
(* scans; App::stop, on the main thread, destroys the App.  The pointer    *)
(* _instance is shared without a lock.                                     *)
(***************************************************************************)
EXTENDS Integers

CONSTANT MusicDirs    \* number of configured music directories

ASSUME MusicDirsNat == MusicDirs \in Nat

VARIABLES
    process,    \* "running"; "exited", "killed" by a signal, or "crashed"
    signalled,  \* SIGINT, SIGQUIT or SIGTERM was sent
    main, app,  \* where the threads are
    web,        \* the web thread: "none", "runs", "returned"
    posted,     \* handle_stop was posted to the server
    instance,   \* the pointer _instance is not null
    object,     \* the App: "none", "built", "destroying", "destroyed"
    left,       \* music directories still to scan
    early       \* history: App::stop began before the scan had

vars == <<process, signalled, main, app, web, posted, instance, object, left, early>>

MainAt(from, to) == process = "running" /\ main = from /\ main' = to
AppAt(from, to) == process = "running" /\ app = from /\ app' = to

\* What one thread leaves alone.
MainOnly == UNCHANGED <<signalled, app, web, left>>
AppOnly == UNCHANGED <<signalled, main, posted, early>>

Init ==
    /\ process = "running" /\ signalled = FALSE
    /\ main = "create" /\ app = "none" /\ web = "none"
    /\ posted = FALSE /\ instance = FALSE /\ object = "none"
    /\ left = MusicDirs
    /\ early = FALSE

Signal ==
    /\ process = "running" /\ ~signalled
    /\ signalled' = TRUE
    /\ UNCHANGED <<process, main, app, web, posted, instance, object, left, early>>

------------------------------------------------------------------------------
(* The main thread.                                                        *)

\* All signals are blocked, for the new thread inherits the mask; then the old
\* mask is restored.
CreateThread ==
    /\ MainAt("create", "unblocked") /\ app' = "options"
    /\ UNCHANGED <<process, signalled, web, posted, instance, object, left, early>>

\* A signal that comes before main has blocked it, or blocked it again, ends the
\* process.
Killed ==
    /\ process = "running" /\ main \in {"create", "unblocked"} /\ signalled
    /\ process' = "killed"
    /\ UNCHANGED <<signalled, main, app, web, posted, instance, object, left, early>>

BlockSignals ==
    /\ MainAt("unblocked", "sigwait") /\ ~signalled
    /\ MainOnly /\ UNCHANGED <<process, posted, instance, object, early>>

SigWait ==
    /\ MainAt("sigwait", "delete") /\ signalled
    /\ early' = (app \notin {"scan", "done"})
    /\ MainOnly /\ UNCHANGED <<process, posted, instance, object>>

\* Mistaken variant: _instance is cleared before it is deleted.
DeleteNothingEver ==
    /\ MainAt("delete", "clear")
    /\ MainOnly /\ UNCHANGED <<process, posted, instance, object, early>>

\* App::stop: delete of a null pointer is nothing.
DeleteNothing ==
    /\ MainAt("delete", "clear") /\ ~instance
    /\ MainOnly /\ UNCHANGED <<process, posted, instance, object, early>>

\* Mistaken variant: ~App does not stop the server.
DestroyUnstopped ==
    /\ MainAt("delete", "joinweb") /\ instance
    /\ object' = "destroying"
    /\ MainOnly /\ UNCHANGED <<process, posted, instance, early>>

\* ~App: www->stop() posts handle_stop.
Destroy ==
    /\ MainAt("delete", "joinweb") /\ instance
    /\ object' = "destroying" /\ posted' = TRUE
    /\ MainOnly /\ UNCHANGED <<process, instance, early>>

\* Mistaken variant: the web thread is not joined.
JoinWebNot ==
    /\ MainAt("joinweb", "clear")
    /\ object' = "destroyed"
    /\ MainOnly /\ UNCHANGED <<process, posted, instance, early>>

\* The web thread is joined; www and the members of App are destroyed.
JoinWeb ==
    /\ MainAt("joinweb", "clear") /\ web = "returned"
    /\ object' = "destroyed"
    /\ MainOnly /\ UNCHANGED <<process, posted, instance, early>>

\* _instance=0
Clear ==
    /\ MainAt("clear", "joinapp")
    /\ instance' = FALSE
    /\ MainOnly /\ UNCHANGED <<process, posted, object, early>>

JoinApp ==
    /\ MainAt("joinapp", "exited") /\ app = "done"
    /\ process' = "exited"
    /\ MainOnly /\ UNCHANGED <<posted, instance, object, early>>

------------------------------------------------------------------------------
(* The application thread.                                                 *)

\* The App's constructor: options, then the database and its tables, then the
\* server's socket.
BuildStep ==
    /\ \/ AppAt("options", "tables") \/ AppAt("tables", "listen")
       \/ AppAt("listen", "webthread")
    /\ AppOnly /\ UNCHANGED <<process, web, instance, object, left>>

\* Any of these throws: CmdLineEx is caught in run, what else there is by
\* boost::thread.  The process goes on without an App.
BuildFails ==
    /\ \/ AppAt("options", "done") \/ AppAt("tables", "done") \/ AppAt("listen", "done")
       \/ AppAt("webthread", "done")
    /\ AppOnly /\ UNCHANGED <<process, web, instance, object, left>>

StartWeb ==
    /\ AppAt("webthread", "publish")
    /\ web' = "runs"
    /\ AppOnly /\ UNCHANGED <<process, instance, object, left>>

\* _instance=new App
Publish ==
    /\ AppAt("publish", "rescan")
    /\ instance' = TRUE /\ object' = "built"
    /\ AppOnly /\ UNCHANGED <<process, web, left>>

\* _instance->rescan() copies the list of music directories from the App.  With a
\* pointer that was cleared, or an App that was destroyed, meanwhile it may still
\* do so, from the pointer in a register or the memory as it was.
Rescan ==
    /\ AppAt("rescan", "scan")
    /\ AppOnly /\ UNCHANGED <<process, web, instance, object, left>>

\* Or the process crashes.
RescanCrashes ==
    /\ process = "running" /\ app = "rescan"
    /\ ~instance \/ object = "destroyed"
    /\ process' = "crashed"
    /\ UNCHANGED <<signalled, main, app, web, posted, instance, object, left, early>>

\* Mistaken variant: one directory too many.
ScanDirPastEnd ==
    /\ AppAt("scan", "scan") /\ left >= 0
    /\ left' = left - 1
    /\ AppOnly /\ UNCHANGED <<process, web, instance, object>>

\* One directory after the other, on the application thread's own connection.
ScanDir ==
    /\ AppAt("scan", "scan") /\ left > 0
    /\ left' = left - 1
    /\ AppOnly /\ UNCHANGED <<process, web, instance, object>>

\* All are scanned, or one threw.
ScanReturns ==
    /\ AppAt("scan", "done")
    /\ AppOnly /\ UNCHANGED <<process, web, instance, object, left>>

------------------------------------------------------------------------------
(* The web thread.                                                         *)

\* run returns when there is no work: the server was stopped and its connections
\* are over, or an accept failed when there were none.
WebReturns ==
    /\ process = "running" /\ web = "runs"
    /\ web' = "returned"
    /\ UNCHANGED <<process, signalled, main, app, posted, instance, object, left, early>>

\* An exception leaves a handler.
WebThrows ==
    /\ process = "running" /\ web = "runs"
    /\ process' = "crashed"
    /\ UNCHANGED <<signalled, main, app, web, posted, instance, object, left, early>>

Main ==
    \/ CreateThread \/ Killed \/ BlockSignals \/ SigWait
    \/ DeleteNothing \/ Destroy \/ JoinWeb \/ Clear \/ JoinApp
App ==
    \/ BuildStep \/ BuildFails \/ StartWeb \/ Publish
    \/ Rescan \/ RescanCrashes \/ ScanDir \/ ScanReturns

Next == Signal \/ Main \/ App \/ WebReturns \/ WebThrows

\* The threads are scheduled, a pending signal is delivered, and a server that was
\* stopped is not kept for ever by its peers (StopIsReached in Ews).
Fairness == WF_vars(Main) /\ WF_vars(App) /\ WF_vars(posted /\ WebReturns)

Spec == Init /\ [][Next]_vars
FairSpec == Spec /\ Fairness

------------------------------------------------------------------------------
(* Properties.                                                             *)

\* Where the threads are, and the App they see.
TypeOK ==
    /\ process \in {"running", "exited", "killed", "crashed"}
    /\ main \in {"create", "unblocked", "sigwait", "delete", "joinweb", "clear",
                 "joinapp", "exited"}
    /\ app \in {"none", "options", "tables", "listen", "webthread", "publish",
                "rescan", "scan", "done"}
    /\ web \in {"none", "runs", "returned"}
    /\ object \in {"none", "built", "destroying", "destroyed"}
    /\ signalled \in BOOLEAN /\ posted \in BOOLEAN
    /\ instance \in BOOLEAN /\ early \in BOOLEAN
    /\ left \in 0..MusicDirs

\* The web thread never runs with a server that is gone.
ServerOutlivesItsThread == object = "destroyed" => web = "returned"

\* Once the scan has begun a signal ends the process in order: the web thread
\* has returned and the App is destroyed when main returns.  (Before that, the
\* signal may find no App: it is then left running, or lost to the scan.)
OrderlyOnceScanning ==
    process = "exited" /\ ~early /\ web # "none" =>
        web = "returned" /\ object = "destroyed"

\* The process does not outlive a signal for ever, whatever the threads are
\* doing when it comes: neither of the joins waits in vain.
SignalEnds == signalled ~> process # "running"
==============================================================================
