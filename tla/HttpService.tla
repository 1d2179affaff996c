----------------------------- MODULE HttpService -----------------------------
(***************************************************************************)
(* What the embedded web server promises about one connection, leaving out *)
(* sockets, the completion queue and the connection set: a connection is   *)
(* begun once, gets at most one reply, and after the reply it is over.     *)
(* There is no keep-alive: a second request is never read from it.         *)
(***************************************************************************)
CONSTANT Conns                 \* connection objects

VARIABLE phase                 \* phase[c]: what connection c is busy with

Phases == {"idle", "reading", "replying"}

Init == phase = [c \in Conns |-> "idle"]

\* The server starts to read the request of a connection it accepted.
Begin(c) ==
    /\ phase[c] = "idle"
    /\ phase' = [phase EXCEPT ![c] = "reading"]

\* The request is complete, or malformed: its one reply is being sent.
Reply(c) ==
    /\ phase[c] = "reading"
    /\ phase' = [phase EXCEPT ![c] = "replying"]

\* The peer went away, or the server is stopping, before a reply was due.
Drop(c) ==
    /\ phase[c] = "reading"
    /\ phase' = [phase EXCEPT ![c] = "idle"]

\* The reply was sent, or could not be sent.
Finish(c) ==
    /\ phase[c] = "replying"
    /\ phase' = [phase EXCEPT ![c] = "idle"]

Next == \E c \in Conns : Begin(c) \/ Reply(c) \/ Drop(c) \/ Finish(c)

Spec == Init /\ [][Next]_phase
==============================================================================
