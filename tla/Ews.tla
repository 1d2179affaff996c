--------------------------------- MODULE Ews ---------------------------------
(***************************************************************************)
(* The embedded web server: server, connection_manager and connection,     *)
(* run by one thread inside asio's io_service.  Handlers run one at a      *)
(* time, in the order in which their completions entered the queue; the    *)
(* reactor adds completions, the application's thread adds handle_stop.    *)
(*                                                                         *)
(* A connection object lives while the manager, a pending operation, a     *)
(* queued completion or the server (new_connection_) refers to it; after   *)
(* that its identity may be used again for a new object.                   *)
(***************************************************************************)
EXTENDS Naturals, Sequences

CONSTANTS
    Conns,      \* connection objects; their number bounds how many are alive
    None        \* no connection

ASSUME NoneNotConn == None \notin Conns

VARIABLES
    run,        \* io_service::run(): "running", "returned", or "terminated"
                \* when an exception left the web thread
    listening,  \* the acceptor is open
    acceptOp,   \* an accept is waiting in the reactor
    newConn,    \* server::new_connection_
    managed,    \* connection_manager::connections_
    sock,       \* state of each connection's socket
    op,         \* operation of each connection waiting in the reactor
    queue,      \* completions whose handlers have not run yet
    stop        \* App's stop(): "no", "posted" or "handled"

vars == <<run, listening, acceptOp, newConn, managed, sock, op, queue, stop>>

serverVars == <<run, listening, acceptOp, newConn, stop>>

Results == {"ok", "aborted", "error"}

Completion == [h : {"accept", "read", "write"}, c : Conns, r : Results]
                 \cup [h : {"stop"}, c : {None}, r : {"ok"}]

Done(h, c, r) == [h |-> h, c |-> c, r |-> r]

Queued(c) == \E i \in DOMAIN queue : queue[i].c = c

\* Some handler bound to c is still to run.
Pending(c) == op[c] # "none" \/ Queued(c)

Unreferenced(c) == c \notin managed /\ c # newConn /\ ~Pending(c)

------------------------------------------------------------------------------
\* The constructor opens the acceptor and issues the first async_accept.
Init ==
    /\ run = "running"
    /\ listening = TRUE
    /\ acceptOp = TRUE
    /\ newConn \in Conns
    /\ managed = {}
    /\ sock = [c \in Conns |-> "closed"]
    /\ op = [c \in Conns |-> "none"]
    /\ queue = <<>>
    /\ stop = "no"

------------------------------------------------------------------------------
(* The reactor: operations that finish.                                    *)

\* A peer connects.  The accept is bounded: an object has to be left for the
\* next new_connection_.
AcceptSucceeds ==
    /\ run = "running" /\ acceptOp /\ listening
    /\ \E c \in Conns : Unreferenced(c)
    /\ acceptOp' = FALSE
    /\ sock' = [sock EXCEPT ![newConn] = "open"]
    /\ queue' = Append(queue, Done("accept", newConn, "ok"))
    /\ UNCHANGED <<run, listening, newConn, managed, op, stop>>

\* accept(2) fails (out of descriptors), or the acceptor was closed.
AcceptFails ==
    /\ run = "running" /\ acceptOp
    /\ acceptOp' = FALSE
    /\ queue' = Append(queue, Done("accept", newConn,
                                   IF listening THEN "error" ELSE "aborted"))
    /\ UNCHANGED <<run, listening, newConn, managed, sock, op, stop>>

\* A read or a write finishes: well, or because the peer is gone, or because
\* the socket was closed under it, which is the only outcome then.
OpCompletes(c) ==
    /\ run = "running" /\ op[c] # "none"
    /\ \E r \in Results :
          /\ r = "aborted" <=> sock[c] = "closed"
          /\ queue' = Append(queue, Done(op[c], c, r))
    /\ op' = [op EXCEPT ![c] = "none"]
    /\ UNCHANGED <<run, listening, acceptOp, newConn, managed, sock, stop>>

------------------------------------------------------------------------------
(* The handlers.  Each takes the first completion of the queue.            *)

Handles(h) == run = "running" /\ queue # <<>> /\ Head(queue).h = h

\* async_read_some / async_write of c: an open socket hands the operation to
\* the reactor, a closed one posts a bad_descriptor completion at once.
StartOp(c, kind) ==
    IF sock[c] = "open"
    THEN op' = [op EXCEPT ![c] = kind] /\ queue' = Tail(queue)
    ELSE queue' = Append(Tail(queue), Done(kind, c, "error")) /\ UNCHANGED op

\* connection_manager::stop
StopConnection(c) ==
    /\ managed' = managed \ {c}
    /\ sock' = [sock EXCEPT ![c] = "closed"]

\* Mistaken variant: new_connection_ is reset, but no new object is made.
HandleAcceptNoNew ==
    /\ Handles("accept") /\ Head(queue).r = "ok"
    /\ managed' = managed \cup {newConn}
    /\ op' = [op EXCEPT ![newConn] = "read"]
    /\ newConn' = None
    /\ acceptOp' = listening
    /\ queue' = Tail(queue)
    /\ UNCHANGED <<run, listening, stop, sock>>

\* Mistaken variant: the next accept is issued on the same object.
HandleAcceptSame ==
    /\ Handles("accept") /\ Head(queue).r = "ok"
    /\ managed' = managed \cup {newConn}
    /\ op' = [op EXCEPT ![newConn] = "read"]
    /\ acceptOp' = listening
    /\ queue' = Tail(queue)
    /\ UNCHANGED <<run, listening, stop, sock, newConn>>

\* server::handle_accept without an error: the connection is started, and the
\* next accept is issued on a new one; a closed acceptor refuses that.
HandleAccept ==
    /\ Handles("accept") /\ Head(queue).r = "ok"
    /\ managed' = managed \cup {newConn}
    /\ op' = [op EXCEPT ![newConn] = "read"]
    /\ \E c \in Conns :
          /\ Unreferenced(c)
          /\ newConn' = c
          /\ sock' = [sock EXCEPT ![c] = "closed"]
          /\ acceptOp' = listening
          /\ queue' = IF listening
                      THEN Tail(queue)
                      ELSE Append(Tail(queue), Done("accept", c, "error"))
    /\ UNCHANGED <<run, listening, stop>>

\* Mistaken variant: a failed accept is always tried again.
HandleAcceptErrorRetries ==
    /\ Handles("accept") /\ Head(queue).r # "ok"
    /\ acceptOp' = listening
    /\ queue' = IF listening THEN Tail(queue)
                ELSE Append(Tail(queue), Done("accept", newConn, "error"))
    /\ UNCHANGED <<run, listening, newConn, stop, managed, sock, op>>

\* server::handle_accept with an error does nothing.
HandleAcceptError ==
    /\ Handles("accept") /\ Head(queue).r # "ok"
    /\ queue' = Tail(queue)
    /\ UNCHANGED <<serverVars, managed, sock, op>>

\* connection::handle_read, more input needed.
HandleReadMore ==
    /\ Handles("read") /\ Head(queue).r = "ok"
    /\ StartOp(Head(queue).c, "read")
    /\ UNCHANGED <<serverVars, managed, sock>>

\* connection::handle_read, the request is complete or malformed: reply.
HandleReadReply ==
    /\ Handles("read") /\ Head(queue).r = "ok"
    /\ StartOp(Head(queue).c, "write")
    /\ UNCHANGED <<serverVars, managed, sock>>

\* connection::handle_read, an exception leaves the parser or the request
\* handler; nothing on the web thread catches it.
HandleReadThrows ==
    /\ Handles("read") /\ Head(queue).r = "ok"
    /\ run' = "terminated"
    /\ queue' = Tail(queue)
    /\ UNCHANGED <<listening, acceptOp, newConn, stop, managed, sock, op>>

\* Mistaken variant: the peer's hanging up is ignored.
HandleReadErrorIgnored ==
    /\ Handles("read") /\ Head(queue).r = "error"
    /\ queue' = Tail(queue)
    /\ UNCHANGED <<serverVars, managed, sock, op>>

\* connection::handle_read with an error other than operation_aborted.
HandleReadError ==
    /\ Handles("read") /\ Head(queue).r = "error"
    /\ StopConnection(Head(queue).c)
    /\ queue' = Tail(queue)
    /\ UNCHANGED <<serverVars, op>>

\* Mistaken variant: the connection is stopped only if the write succeeded.
HandleWriteOnlyOk ==
    /\ Handles("write") /\ Head(queue).r # "aborted"
    /\ IF Head(queue).r = "ok" THEN StopConnection(Head(queue).c)
                               ELSE UNCHANGED <<managed, sock>>
    /\ queue' = Tail(queue)
    /\ UNCHANGED <<serverVars, op>>

\* Mistaken variant: the next request is read after the reply.
HandleWriteKeepsAlive ==
    /\ Handles("write") /\ Head(queue).r # "aborted"
    /\ StartOp(Head(queue).c, "read")
    /\ UNCHANGED <<serverVars, managed, sock>>

\* connection::handle_write, unless the write was aborted.
HandleWrite ==
    /\ Handles("write") /\ Head(queue).r # "aborted"
    /\ StopConnection(Head(queue).c)
    /\ queue' = Tail(queue)
    /\ UNCHANGED <<serverVars, op>>

\* handle_read and handle_write of an aborted operation.
HandleAborted ==
    /\ Handles("read") \/ Handles("write")
    /\ Head(queue).r = "aborted"
    /\ queue' = Tail(queue)
    /\ UNCHANGED <<serverVars, managed, sock, op>>

\* Mistaken variant: connections_ is cleared before its sockets are closed.
HandleStopClearsFirst ==
    /\ Handles("stop")
    /\ listening' = FALSE
    /\ managed' = {}
    /\ queue' = Tail(queue)
    /\ stop' = "handled"
    /\ UNCHANGED <<run, acceptOp, newConn, sock, op>>

\* Mistaken variant: the acceptor stays open.
HandleStopAccepts ==
    /\ Handles("stop")
    /\ managed' = {}
    /\ sock' = [c \in Conns |-> IF c \in managed THEN "closed" ELSE sock[c]]
    /\ queue' = Tail(queue)
    /\ stop' = "handled"
    /\ UNCHANGED <<run, listening, acceptOp, newConn, op>>

\* server::handle_stop: close the acceptor, stop every managed connection.
HandleStop ==
    /\ Handles("stop")
    /\ listening' = FALSE
    /\ managed' = {}
    /\ sock' = [c \in Conns |-> IF c \in managed THEN "closed" ELSE sock[c]]
    /\ queue' = Tail(queue)
    /\ stop' = "handled"
    /\ UNCHANGED <<run, acceptOp, newConn, op>>

------------------------------------------------------------------------------
\* server::stop, called from the application's thread: post handle_stop.
Stop ==
    /\ stop = "no"
    /\ stop' = "posted"
    /\ queue' = IF run = "running" THEN Append(queue, Done("stop", None, "ok"))
                                   ELSE queue
    /\ UNCHANGED <<run, listening, acceptOp, newConn, managed, sock, op>>

Work == acceptOp \/ queue # <<>> \/ \E c \in Conns : op[c] # "none"

\* io_service::run returns when there is no work left.
RunReturns ==
    /\ run = "running" /\ ~Work
    /\ run' = "returned"
    /\ UNCHANGED <<listening, acceptOp, newConn, managed, sock, op, queue, stop>>

\* The web thread has ended and the server was told to stop: all is over.
Over ==
    /\ run # "running" /\ stop # "no"
    /\ UNCHANGED vars

Handle ==
    \/ HandleAccept \/ HandleAcceptError
    \/ HandleReadMore \/ HandleReadReply \/ HandleReadThrows \/ HandleReadError
    \/ HandleWrite \/ HandleAborted \/ HandleStop

Next ==
    \/ AcceptSucceeds \/ AcceptFails
    \/ \E c \in Conns : OpCompletes(c)
    \/ Handle
    \/ Stop \/ RunReturns \/ Over

Spec == Init /\ [][Next]_vars

------------------------------------------------------------------------------
(* Fairness.  The web thread runs handlers as long as there are any, and the *)
(* reactor delivers the abortion of an operation whose socket was closed.    *)
(* Nothing in the code bounds how long a peer may stay silent.               *)

AbortCompletes(c) == sock[c] = "closed" /\ OpCompletes(c)
AbortAccept == ~listening /\ AcceptFails

ServerFairness ==
    /\ WF_vars(Handle)
    /\ WF_vars(RunReturns)
    /\ WF_vars(AbortAccept)
    /\ \A c \in Conns : WF_vars(AbortCompletes(c))

FairSpec == Spec /\ ServerFairness

\* Peers that go on sending until their request is complete, or hang up.
PeerFairness ==
    \A c \in Conns :
        /\ WF_vars(OpCompletes(c))
        /\ SF_vars(HandleReadReply /\ Head(queue).c = c)

------------------------------------------------------------------------------
(* Properties.                                                             *)

TypeOK ==
    /\ run \in {"running", "returned", "terminated"}
    /\ listening \in BOOLEAN
    /\ acceptOp \in BOOLEAN
    /\ newConn \in Conns
    /\ managed \in SUBSET Conns
    /\ sock \in [Conns -> {"open", "closed"}]
    /\ op \in [Conns -> {"none", "read", "write"}]
    /\ queue \in Seq(Completion)
    /\ stop \in {"no", "posted", "handled"}

\* A connection object never has two operations, or an operation and a handler
\* waiting: its buffer_, request_ and reply_ are used by one of them at a time.
\* The same for the accept chain: one accept, for new_connection_, at most.
OneOperation ==
    /\ \A i, j \in DOMAIN queue : queue[i].c = queue[j].c => i = j
    /\ \A c \in Conns : op[c] # "none" => ~Queued(c)
    /\ op[newConn] = "none"
    /\ acceptOp => ~Queued(newConn)
    /\ \A i \in DOMAIN queue : queue[i].h = "accept" <=> queue[i].c = newConn

\* connection_manager keeps no connection that nothing will ever remove: a
\* managed connection is open and some handler of it is still to run.
ManagedIsServed ==
    run # "terminated" =>
        \A c \in managed : c # newConn /\ sock[c] = "open" /\ Pending(c)

\* No socket is leaked: an open one is managed, or accepted and about to be.
OpenIsManaged ==
    \A c \in Conns : sock[c] = "open" =>
        \/ c \in managed
        \/ c = newConn /\ [h |-> "accept", c |-> c, r |-> "ok"] \in
                              {queue[i] : i \in DOMAIN queue}

\* An operation of this kind is outstanding at c, or its handler is still to run.
Busy(c, kind) ==
    op[c] = kind \/ \E i \in DOMAIN queue : queue[i].c = c /\ queue[i].h = kind

Phase(c) == IF Busy(c, "write") THEN "replying"
            ELSE IF Busy(c, "read") THEN "reading" ELSE "idle"

\* connection.cpp against what a connection promises: one reply per accept.
RequestPhase == [c \in Conns |-> Phase(c)]

Service == INSTANCE HttpService WITH phase <- RequestPhase
OneReply == Service!Spec

\* server.cpp, handle_stop(): "The server is stopped by cancelling all
\* outstanding asynchronous operations": none is left that was not cancelled.
StopCancelsAll ==
    stop = "handled" => \A c \in Conns : op[c] # "none" => sock[c] = "closed"

\* With nothing managed and no accepted connection on its way, handle_stop makes
\* run() return, however silent the peers are; without that ~App waits forever.
StopReturns ==
    (stop = "handled" /\ managed = {} /\ sock[newConn] = "closed")
        ~> run # "running"

\* Every connection is closed and forgotten if its peer goes on.
PeerIsServed ==
    PeerFairness => \A c \in Conns :
        c \in managed ~> (c \notin managed \/ run = "terminated")

\* With such peers a stop always ends the web thread, whatever it raced with.
StopIsReached ==
    PeerFairness => (stop = "posted" ~> run # "running")
==============================================================================
