------------------------------ MODULE EwsProofs ------------------------------
(***************************************************************************)
(* The safety invariants of Ews, and that it implements HttpService,       *)
(* proved for any number of connections.                                   *)
(*                                                                         *)
(* OneOperation, ManagedIsServed and OpenIsManaged are not inductive one   *)
(* by one: that no socket leaks needs that no handler of a managed         *)
(* connection sees an abortion, which needs that aborted completions       *)
(* belong to closed sockets, which needs that an object with a pending     *)
(* handler is never taken for the next accept.  IInv is their conjunction  *)
(* with what is missing.                                                   *)
(***************************************************************************)
EXTENDS Ews, TLAPS

\* handle_stop is posted once.
StopIsPosted == \A i \in DOMAIN queue : queue[i].h = "stop" => stop = "posted"

\* Only operations on sockets that were closed are aborted.
AbortedIsClosed ==
    \A i \in DOMAIN queue :
        queue[i].h \in {"read", "write"} /\ queue[i].r = "aborted"
            => sock[queue[i].c] = "closed"

\* Between the accept and handle_accept the new socket is open.
AcceptedIsOpen ==
    \A i \in DOMAIN queue :
        queue[i].h = "accept" /\ queue[i].r = "ok" => sock[queue[i].c] = "open"

IInv ==
    /\ TypeOK
    /\ OneOperation
    /\ ManagedIsServed
    /\ OpenIsManaged
    /\ StopIsPosted
    /\ AbortedIsClosed
    /\ AcceptedIsOpen

------------------------------------------------------------------------------
\* The queue after its first completion was taken: what is left was there.
LEMMA TailElements ==
    ASSUME NEW S, NEW q \in Seq(S), q # <<>>
    PROVE  /\ Head(q) = q[1] /\ Head(q) \in S /\ 1 \in DOMAIN q
           /\ Tail(q) \in Seq(S)
           /\ \A i \in DOMAIN Tail(q) :
                 i # 0 /\ i + 1 \in DOMAIN q /\ i + 1 # 1 /\ Tail(q)[i] = q[i + 1]
           /\ \A i \in DOMAIN q : i # 1 => i - 1 \in DOMAIN Tail(q)
                                         /\ Tail(q)[i - 1] = q[i]
    OBVIOUS

\* The queue after a completion was added: it is the last, the others stay.
LEMMA AppendElements ==
    ASSUME NEW S, NEW q \in Seq(S), NEW e \in S
    PROVE  /\ Append(q, e) \in Seq(S)
           /\ \A i \in DOMAIN q : i \in DOMAIN Append(q, e) /\ Append(q, e)[i] = q[i]
           /\ Len(q) + 1 \in DOMAIN Append(q, e) /\ Append(q, e)[Len(q) + 1] = e
           /\ \A i \in DOMAIN Append(q, e) :
                 \/ i \in DOMAIN q /\ i # Len(q) + 1
                 \/ i = Len(q) + 1
    OBVIOUS

\* The variables keep their types: every handler that runs finds its connection
\* in the completion it takes.
LEMMA TypeStep == TypeOK /\ [Next]_vars => TypeOK'
<1> SUFFICES ASSUME TypeOK, [Next]_vars PROVE TypeOK'
    OBVIOUS
<1> USE DEF TypeOK
<1>1. CASE AcceptSucceeds
    <2>1. Done("accept", newConn, "ok") \in Completion
        BY DEF Done, Completion, Results
    <2> QED BY <1>1, <2>1, AppendElements DEF AcceptSucceeds
<1>2. CASE AcceptFails
    <2>1. \A r \in Results : Done("accept", newConn, r) \in Completion
        BY DEF Done, Completion
    <2> QED BY <1>2, <2>1, AppendElements DEF AcceptFails, Results
<1>3. ASSUME NEW c \in Conns, OpCompletes(c) PROVE TypeOK'
    <2>1. \A r \in Results : Done(op[c], c, r) \in Completion
        BY <1>3 DEF OpCompletes, Done, Completion
    <2> QED BY <1>3, <2>1, AppendElements DEF OpCompletes
<1>4. CASE Handle
    <2>1. queue # <<>> /\ Tail(queue) \in Seq(Completion) /\ Head(queue) \in Completion
        BY <1>4, TailElements DEF Handle, Handles, HandleAccept, HandleAcceptError,
           HandleReadMore, HandleReadReply, HandleReadThrows, HandleReadError,
           HandleWrite, HandleAborted, HandleStop
    <2>2. CASE HandleAccept
        <3>1. \A c \in Conns : Done("accept", c, "error") \in Completion
            BY DEF Done, Completion, Results
        <3>2. queue' \in Seq(Completion)
            BY <2>1, <2>2, <3>1, AppendElements DEF HandleAccept
        <3> QED BY <2>2, <3>2 DEF HandleAccept
    <2>3. CASE HandleAcceptError
        BY <2>1, <2>3 DEF HandleAcceptError, serverVars
    <2>4. ASSUME NEW kind \in {"read", "write"}, Handles("read"),
                 StartOp(Head(queue).c, kind), UNCHANGED <<serverVars, managed, sock>>
          PROVE  TypeOK'
        <3>1. Head(queue).c \in Conns
            BY <2>1, <2>4 DEF Completion, Handles
        <3>2. Done(kind, Head(queue).c, "error") \in Completion
            BY <3>1 DEF Done, Completion, Results
        <3>3. queue' \in Seq(Completion)
            <4>1. PICK q \in Seq(Completion) : q = Tail(queue)
                BY <2>1
            <4>2. Append(q, Done(kind, Head(queue).c, "error")) \in Seq(Completion)
                BY <3>2, AppendElements
            <4> QED BY <2>4, <4>1, <4>2 DEF StartOp
        <3>4. op' \in [Conns -> {"none", "read", "write"}]
            BY <2>4, <3>1 DEF StartOp
        <3> QED BY <2>4, <3>3, <3>4 DEF serverVars
    <2>5. CASE HandleReadMore
        BY <2>4, <2>5 DEF HandleReadMore
    <2>6. CASE HandleReadReply
        BY <2>4, <2>6 DEF HandleReadReply
    <2>7. CASE HandleReadThrows
        BY <2>1, <2>7 DEF HandleReadThrows
    <2>8. CASE HandleReadError
        BY <2>1, <2>8 DEF HandleReadError, StopConnection, serverVars
    <2>9. CASE HandleWrite
        BY <2>1, <2>9 DEF HandleWrite, StopConnection, serverVars
    <2>10. CASE HandleAborted
        BY <2>1, <2>10 DEF HandleAborted, serverVars
    <2>11. CASE HandleStop
        BY <2>1, <2>11 DEF HandleStop
    <2> QED BY <1>4, <2>2, <2>3, <2>5, <2>6, <2>7, <2>8, <2>9, <2>10, <2>11 DEF Handle
<1>5. CASE Stop
    <2>1. Done("stop", None, "ok") \in Completion
        BY DEF Done, Completion
    <2> QED BY <1>5, <2>1, AppendElements DEF Stop
<1>6. CASE RunReturns
    BY <1>6 DEF RunReturns
<1>7. CASE Over \/ UNCHANGED vars
    BY <1>7 DEF Over, vars
<1> QED BY <1>1, <1>2, <1>3, <1>4, <1>5, <1>6, <1>7 DEF Next

\* The web server's variables have their types in every reachable state.
THEOREM TypeCorrect == Spec => []TypeOK
<1>1. Init => TypeOK
    BY DEF Init, TypeOK
<1> QED BY <1>1, TypeStep, PTL DEF Spec

------------------------------------------------------------------------------
\* The reactor and Stop add a completion to the queue.
LEMMA AddingSteps ==
    ASSUME IInv, TypeOK',
           \/ AcceptSucceeds \/ AcceptFails \/ Stop
           \/ \E c \in Conns : OpCompletes(c)
    PROVE  IInv'
<1> USE AppendElements DEF Done, Queued, Pending
<1>1. CASE AcceptSucceeds
    <2>1. OneOperation'
        BY <1>1, NoneNotConn DEF IInv, TypeOK, OneOperation, AcceptSucceeds, Completion
    <2>2. ManagedIsServed'
        BY <1>1 DEF IInv, TypeOK, ManagedIsServed, AcceptSucceeds
    <2>3. OpenIsManaged'
        BY <1>1 DEF IInv, TypeOK, OpenIsManaged, AcceptSucceeds
    <2>4. StopIsPosted'
        BY <1>1 DEF IInv, TypeOK, StopIsPosted, AcceptSucceeds
    <2>5. AbortedIsClosed'
        BY <1>1 DEF IInv, TypeOK, OneOperation, AbortedIsClosed, AcceptSucceeds, Completion
    <2>6. AcceptedIsOpen'
        BY <1>1 DEF IInv, TypeOK, AcceptedIsOpen, AcceptSucceeds, Completion
    <2> QED BY <2>1, <2>2, <2>3, <2>4, <2>5, <2>6 DEF IInv
<1>2. CASE AcceptFails
    <2>1. OneOperation'
        BY <1>2, NoneNotConn DEF IInv, TypeOK, OneOperation, AcceptFails, Completion
    <2>2. ManagedIsServed'
        BY <1>2 DEF IInv, TypeOK, ManagedIsServed, AcceptFails
    <2>3. OpenIsManaged'
        BY <1>2 DEF IInv, TypeOK, OpenIsManaged, AcceptFails
    <2>4. StopIsPosted' /\ AbortedIsClosed' /\ AcceptedIsOpen'
        BY <1>2 DEF IInv, TypeOK, StopIsPosted, AbortedIsClosed, AcceptedIsOpen, AcceptFails
    <2> QED BY <2>1, <2>2, <2>3, <2>4 DEF IInv
<1>3. ASSUME NEW c \in Conns, OpCompletes(c) PROVE IInv'
    <2>1. OneOperation'
        BY <1>3, NoneNotConn DEF IInv, TypeOK, OneOperation, OpCompletes, Completion
    <2>2. ManagedIsServed'
        BY <1>3 DEF IInv, TypeOK, ManagedIsServed, OpCompletes
    <2>3. OpenIsManaged'
        BY <1>3 DEF IInv, TypeOK, OpenIsManaged, OpCompletes
    <2>4. StopIsPosted' /\ AbortedIsClosed' /\ AcceptedIsOpen'
        BY <1>3 DEF IInv, TypeOK, StopIsPosted, AbortedIsClosed, AcceptedIsOpen, OpCompletes
    <2> QED BY <2>1, <2>2, <2>3, <2>4 DEF IInv
<1>4. CASE Stop
    <2>1. OneOperation'
        <3>1. CASE queue' = queue
            BY <1>4, <3>1 DEF IInv, OneOperation, Queued, Stop
        <3>2. CASE queue' # queue
            <4> DEFINE e == Done("stop", None, "ok")
            <4>1. queue \in Seq(Completion) /\ newConn \in Conns /\ e \in Completion
                BY DEF IInv, TypeOK, Completion, Done
            <4>2. /\ stop = "no" /\ queue' = Append(queue, e)
                  /\ UNCHANGED <<acceptOp, newConn, op>>
                BY <1>4, <3>2 DEF Stop
            <4>3. e.c = None /\ e.h = "stop" /\ \A c \in Conns : c # None
                BY NoneNotConn DEF Done
            <4>4. \A i \in DOMAIN queue : queue[i].c # None
                <5>1. \A i \in DOMAIN queue : queue[i] \in Completion /\ queue[i].h # "stop"
                    BY <4>1, <4>2 DEF IInv, StopIsPosted
                <5> QED BY <5>1, NoneNotConn DEF Completion
            <4> HIDE DEF e
            <4>5. /\ \A i \in DOMAIN queue : i \in DOMAIN queue' /\ queue'[i] = queue[i]
                  /\ Len(queue) + 1 \in DOMAIN queue' /\ queue'[Len(queue) + 1] = e
                  /\ \A i \in DOMAIN queue' :
                        \/ i \in DOMAIN queue /\ i # Len(queue) + 1
                        \/ i = Len(queue) + 1
                BY <4>1, <4>2, AppendElements
            <4>6. \A c \in Conns : Queued(c)' <=> Queued(c)
                BY <4>2, <4>3, <4>5 DEF Queued
            <4>7. \A i, j \in DOMAIN queue' : queue'[i].c = queue'[j].c => i = j
                BY <4>3, <4>4, <4>5 DEF IInv, OneOperation
            <4>8. \A i \in DOMAIN queue' : queue'[i].h = "accept" <=> queue'[i].c = newConn'
                BY <4>1, <4>2, <4>3, <4>5 DEF IInv, OneOperation
            <4> QED BY <4>1, <4>2, <4>6, <4>7, <4>8 DEF IInv, OneOperation
        <3> QED BY <3>1, <3>2
    <2>2. ManagedIsServed'
        BY <1>4 DEF IInv, TypeOK, ManagedIsServed, Stop
    <2>3. OpenIsManaged'
        BY <1>4 DEF IInv, TypeOK, OpenIsManaged, Stop
    <2>4. StopIsPosted' /\ AbortedIsClosed' /\ AcceptedIsOpen'
        BY <1>4 DEF IInv, TypeOK, StopIsPosted, AbortedIsClosed, AcceptedIsOpen, Stop
    <2> QED BY <2>1, <2>2, <2>3, <2>4 DEF IInv
<1> QED BY <1>1, <1>2, <1>3, <1>4

\* When a completion is taken, its connection has nothing left to run, unless its
\* handler starts an operation; nothing changes for the others.
LEMMA TakingQueue ==
    ASSUME TypeOK, OneOperation, queue # <<>>, queue' = Tail(queue)
    PROVE  /\ \A d : d = Head(queue).c => ~Queued(d)'
           /\ \A d \in Conns : d # Head(queue).c => (Queued(d)' <=> Queued(d))
<1>1. /\ queue \in Seq(Completion) /\ Head(queue) = queue[1] /\ 1 \in DOMAIN queue
      /\ \A i \in DOMAIN queue' :
            i + 1 \in DOMAIN queue /\ i + 1 # 1 /\ queue'[i] = queue[i + 1]
      /\ \A i \in DOMAIN queue : i # 1 => i - 1 \in DOMAIN queue'
                                         /\ queue'[i - 1] = queue[i]
    BY TailElements DEF TypeOK
<1>2. ASSUME NEW d, d = Head(queue).c PROVE ~Queued(d)'
    BY <1>1, <1>2 DEF OneOperation, Queued
<1>3. ASSUME NEW d \in Conns, d # Head(queue).c, Queued(d) PROVE Queued(d)'
    BY <1>1, <1>3, SMTT(30) DEF Queued
<1>4. ASSUME NEW d \in Conns, d # Head(queue).c, Queued(d)' PROVE Queued(d)
    BY SMTT(30), <1>1, <1>4 DEF Queued
<1> QED BY <1>2, <1>3, <1>4

\* A handler that only takes its completion, or closes its connection as well.
LEMMA ClosingSteps ==
    ASSUME IInv, TypeOK',
           \/ HandleAcceptError \/ HandleReadThrows \/ HandleReadError
           \/ HandleWrite \/ HandleAborted \/ HandleStop
    PROVE  IInv'
<1>1. /\ queue # <<>> /\ queue' = Tail(queue) /\ run = "running"
      /\ queue \in Seq(Completion)
    BY DEF HandleAcceptError, HandleReadThrows, HandleReadError, HandleWrite,
       HandleAborted, HandleStop, Handles, IInv, TypeOK
<1>2. /\ Head(queue) = queue[1] /\ Head(queue) \in Completion /\ 1 \in DOMAIN queue
      /\ Tail(queue) \in Seq(Completion)
      /\ \A i \in DOMAIN Tail(queue) :
            i # 0 /\ i + 1 \in DOMAIN queue /\ i + 1 # 1 /\ Tail(queue)[i] = queue[i + 1]
      /\ \A i \in DOMAIN queue : i # 1 => i - 1 \in DOMAIN Tail(queue)
                                         /\ Tail(queue)[i - 1] = queue[i]
    BY <1>1, TailElements
<1>3. /\ \A d : d = Head(queue).c => ~Queued(d)'
      /\ \A d \in Conns : d # Head(queue).c => (Queued(d)' <=> Queued(d))
    BY <1>1, TakingQueue DEF IInv
<1>4. UNCHANGED <<acceptOp, newConn, op>>
    BY DEF HandleAcceptError, HandleReadThrows, HandleReadError, HandleWrite,
       HandleAborted, HandleStop, serverVars
<1>5. OneOperation'
    BY <1>1, <1>2, <1>4 DEF IInv, TypeOK, OneOperation, Queued
<1>6. /\ run' = "running" \/ run' = "terminated"
      /\ \A c \in Conns : sock'[c] = "open" => sock[c] = "open"
      /\ managed' \subseteq managed
      /\ run' = "running" => \A c \in managed' : sock'[c] = sock[c] /\ c # Head(queue).c
    BY <1>1, <1>2 DEF HandleAcceptError, HandleReadThrows, HandleReadError, HandleWrite,
       HandleAborted, HandleStop, StopConnection, Handles, serverVars, IInv, TypeOK,
       OneOperation, ManagedIsServed, AbortedIsClosed, Completion
<1>7. ManagedIsServed'
    BY <1>1, <1>3, <1>4, <1>6 DEF IInv, TypeOK, ManagedIsServed, Pending
<1>8. OpenIsManaged'
    <2>1. ASSUME NEW c \in Conns, sock'[c] = "open", c \in managed
          PROVE  c \in managed'
        BY <2>1, <1>1 DEF HandleAcceptError, HandleReadThrows, HandleReadError,
           HandleWrite, HandleAborted, HandleStop, StopConnection, serverVars, IInv, TypeOK
    <2>2. ASSUME NEW i \in DOMAIN queue, sock'[queue[i].c] = "open",
                 queue[i].h = "accept", queue[i].r = "ok"
          PROVE  i # 1
        BY <2>2, <1>1, <1>2 DEF HandleAcceptError, HandleReadThrows, HandleReadError,
           HandleWrite, HandleAborted, HandleStop, Handles
    <2>3. ASSUME NEW i \in DOMAIN queue, i # 1
          PROVE  queue[i] \in {queue'[j] : j \in DOMAIN queue'}
        BY <2>3, <1>1, <1>2
    <2>4. ASSUME NEW c \in Conns, sock'[c] = "open", c \notin managed
          PROVE  c = newConn /\ [h |-> "accept", c |-> c, r |-> "ok"] \in
                                    {queue'[j] : j \in DOMAIN queue'}
        <3>1. sock[c] = "open"
            BY <2>4, <1>6
        <3>2. c = newConn /\ [h |-> "accept", c |-> c, r |-> "ok"] \in
                                 {queue[j] : j \in DOMAIN queue}
            BY <2>4, <3>1 DEF IInv, OpenIsManaged
        <3>3. PICK i \in DOMAIN queue : queue[i] = [h |-> "accept", c |-> c, r |-> "ok"]
            BY <3>2
        <3> QED BY <2>2, <2>3, <2>4, <3>2, <3>3
    <2> QED BY <1>4, <2>1, <2>4 DEF OpenIsManaged
<1>9. StopIsPosted'
    <2>1. ASSUME HandleStop PROVE Head(queue).h = "stop" /\ Head(queue).c = None
        BY <2>1, <1>2 DEF HandleStop, Handles, Completion
    <2>2. ~HandleStop => stop' = stop
        BY DEF HandleAcceptError, HandleReadThrows, HandleReadError, HandleWrite,
           HandleAborted, serverVars
    <2>3. \A i \in DOMAIN queue : queue[i].h = "stop" => queue[i].c = None
        BY <1>1 DEF Completion
    <2> QED BY <1>1, <1>2, <2>1, <2>2, <2>3 DEF IInv, StopIsPosted, OneOperation
<1>10. AbortedIsClosed'
    <2>1. \A i \in DOMAIN queue : queue[i].h \in {"read", "write"} => queue[i].c \in Conns
        BY <1>1 DEF Completion
    <2>2. \A c \in Conns : sock[c] = "closed" => sock'[c] = "closed"
        BY <1>6 DEF IInv, TypeOK
    <2> QED BY <1>1, <1>2, <2>1, <2>2 DEF IInv, AbortedIsClosed
<1>11. AcceptedIsOpen'
    <2>1. ASSUME NEW i \in DOMAIN queue', queue'[i].h = "accept", queue'[i].r = "ok"
          PROVE  sock'[queue'[i].c] = "open"
        <3>1. /\ i + 1 \in DOMAIN queue /\ queue'[i] = queue[i + 1] /\ i + 1 # 1
              /\ queue[i + 1].c = newConn /\ sock[newConn] = "open"
              /\ queue[i + 1].c # queue[1].c
            BY <2>1, <1>1, <1>2 DEF IInv, AcceptedIsOpen, OneOperation
        <3>2. newConn \notin managed /\ newConn # Head(queue).c /\ newConn \in Conns
            BY <3>1, <1>1, <1>2 DEF IInv, ManagedIsServed, TypeOK
        <3>3. sock'[newConn] = sock[newConn]
            BY <3>2, <1>1 DEF HandleAcceptError, HandleReadThrows, HandleReadError,
               HandleWrite, HandleAborted, HandleStop, StopConnection, serverVars, IInv, TypeOK
        <3> QED BY <3>1, <3>3
    <2> QED BY <2>1 DEF AcceptedIsOpen
<1> QED BY <1>5, <1>7, <1>8, <1>9, <1>10, <1>11 DEF IInv

\* No socket is leaked by a step that closes none and keeps what was accepted.
LEMMA KeepsOpen ==
    ASSUME OpenIsManaged, UNCHANGED <<newConn, managed, sock>>,
           \A i \in DOMAIN queue : queue[i].h = "accept" =>
               \E j \in DOMAIN queue' : queue'[j] = queue[i]
    PROVE  OpenIsManaged'
<1> SUFFICES ASSUME NEW c \in Conns, sock[c] = "open", c \notin managed
             PROVE  c = newConn /\ [h |-> "accept", c |-> c, r |-> "ok"] \in
                                       {queue'[j] : j \in DOMAIN queue'}
    BY DEF OpenIsManaged
<1>1. PICK i \in DOMAIN queue : queue[i] = [h |-> "accept", c |-> c, r |-> "ok"]
    BY DEF OpenIsManaged
<1>2. c = newConn
    BY DEF OpenIsManaged
<1>3. \E j \in DOMAIN queue' : queue'[j] = queue[i]
    BY <1>1
<1> QED BY <1>1, <1>2, <1>3

\* handle_read goes on reading, or starts to write the reply.
LEMMA StartingSteps ==
    ASSUME IInv, TypeOK', NEW c, NEW kind \in {"read", "write"},
           Handles("read"), Head(queue).r = "ok", c = Head(queue).c,
           StartOp(c, kind), UNCHANGED <<serverVars, managed, sock>>
    PROVE  IInv'
<1> DEFINE q == Tail(queue)
<1>1. /\ queue # <<>> /\ queue \in Seq(Completion)
      /\ Head(queue) = queue[1] /\ Head(queue) \in Completion /\ 1 \in DOMAIN queue
      /\ q \in Seq(Completion)
      /\ \A i \in DOMAIN q : i + 1 \in DOMAIN queue /\ i + 1 # 1 /\ q[i] = queue[i + 1]
      /\ \A i \in DOMAIN queue : i # 1 => i - 1 \in DOMAIN q /\ q[i - 1] = queue[i]
    BY TailElements DEF Handles, IInv, TypeOK
<1>2. c \in Conns /\ c # newConn /\ Head(queue).h = "read"
    BY <1>1 DEF Handles, Completion, IInv, OneOperation
<1>3. UNCHANGED <<run, listening, acceptOp, newConn, managed, sock, stop>>
    BY DEF serverVars
<1>4. op[c] = "none"
    BY <1>1, <1>2 DEF IInv, OneOperation, Queued, TypeOK
<1>5. CASE sock[c] = "open"
    <2>1. op' = [op EXCEPT ![c] = kind] /\ queue' = q
        BY <1>5 DEF StartOp
    <2>2. OneOperation'
        BY <1>1, <1>2, <1>3, <1>4, <2>1 DEF IInv, TypeOK, OneOperation, Queued
    <2>3. ManagedIsServed'
        <3>1. ASSUME NEW d \in Conns, d # c, Pending(d) PROVE Pending(d)'
            <4>1. Queued(d) => Queued(d)'
                BY <1>1, <2>1, <3>1, TakingQueue DEF IInv
            <4>2. op'[d] = op[d]
                BY <2>1, <3>1 DEF IInv, TypeOK
            <4> QED BY <3>1, <4>1, <4>2 DEF Pending
        <3>2. Pending(c)'
            BY <1>1, <1>2, <2>1 DEF Pending, IInv, TypeOK
        <3> QED BY <1>2, <1>3, <3>1, <3>2 DEF IInv, TypeOK, ManagedIsServed
    <2>4. OpenIsManaged'
        <3>1. \A i \in DOMAIN queue : queue[i].h = "accept" =>
                  \E j \in DOMAIN queue' : queue'[j] = queue[i]
            BY <1>1, <1>2, <2>1
        <3> QED BY <1>3, <3>1, KeepsOpen DEF IInv
    <2>5. StopIsPosted' /\ AbortedIsClosed' /\ AcceptedIsOpen'
        BY <1>1, <1>3, <2>1 DEF IInv, TypeOK, StopIsPosted, AbortedIsClosed, AcceptedIsOpen
    <2> QED BY <2>2, <2>3, <2>4, <2>5 DEF IInv
<1>6. CASE sock[c] # "open"
    <2>1. Done(kind, c, "error") \in Completion
        BY <1>2 DEF Done, Completion, Results
    <2>2. op' = op /\ queue' = Append(q, Done(kind, c, "error"))
        BY <1>6 DEF StartOp
    <2>3. /\ \A i \in DOMAIN queue' :
                \/ i + 1 \in DOMAIN queue /\ i + 1 # 1 /\ queue'[i] = queue[i + 1]
                \/ i = Len(queue) /\ queue'[i] = Done(kind, c, "error")
          /\ \A i \in DOMAIN queue : i # 1 => i - 1 \in DOMAIN queue'
                                            /\ queue'[i - 1] = queue[i]
          /\ Len(queue) \in DOMAIN queue'
          /\ queue'[Len(queue)] = Done(kind, c, "error")
        <3>1. Len(q) + 1 = Len(queue)
            BY <1>1
        <3>2. /\ \A i \in DOMAIN q : i \in DOMAIN queue' /\ queue'[i] = q[i]
              /\ Len(q) + 1 \in DOMAIN queue' /\ queue'[Len(q) + 1] = Done(kind, c, "error")
              /\ \A i \in DOMAIN queue' : i \in DOMAIN q \/ i = Len(q) + 1
            BY <1>1, <2>1, <2>2, AppendElements
        <3> QED BY <1>1, <3>1, <3>2
    <2> USE DEF Done
    <2>4. OneOperation'
        BY SMTT(30), <1>1, <1>2, <1>3, <1>4, <2>2, <2>3
           DEF IInv, TypeOK, OneOperation, Queued
    <2>5. ManagedIsServed'
        <3>1. \A d \in Conns : d # c /\ Pending(d) => Pending(d)'
            BY <1>1, <2>2, <2>3 DEF Pending, Queued, IInv, TypeOK
        <3>2. run # "terminated" => c \notin managed
            BY <1>2, <1>6 DEF IInv, ManagedIsServed
        <3> QED BY <1>2, <1>3, <3>1, <3>2 DEF IInv, TypeOK, ManagedIsServed
    <2>6. OpenIsManaged'
        <3>1. \A i \in DOMAIN queue : queue[i].h = "accept" =>
                  \E j \in DOMAIN queue' : queue'[j] = queue[i]
            BY <1>1, <1>2, <2>3
        <3> QED BY <1>3, <3>1, KeepsOpen DEF IInv
    <2>7. StopIsPosted'
        BY <1>3, <2>3 DEF IInv, StopIsPosted
    <2>8. AbortedIsClosed'
        BY <1>3, <2>3 DEF IInv, AbortedIsClosed
    <2>9. AcceptedIsOpen'
        BY <1>3, <2>3 DEF IInv, AcceptedIsOpen
    <2> QED BY <2>4, <2>5, <2>6, <2>7, <2>8, <2>9 DEF IInv
<1> QED BY <1>5, <1>6

\* handle_accept starts the connection and accepts on an unreferenced object.
LEMMA AcceptingStep == IInv /\ TypeOK' /\ HandleAccept => IInv'
<1> SUFFICES ASSUME IInv, TypeOK', HandleAccept PROVE IInv'
    OBVIOUS
<1> DEFINE q == Tail(queue)
<1>1. /\ queue # <<>> /\ queue \in Seq(Completion)
      /\ Head(queue) = queue[1] /\ Head(queue) \in Completion /\ 1 \in DOMAIN queue
      /\ q \in Seq(Completion)
      /\ \A i \in DOMAIN q : i + 1 \in DOMAIN queue /\ i + 1 # 1 /\ q[i] = queue[i + 1]
      /\ \A i \in DOMAIN queue : i # 1 => i - 1 \in DOMAIN q /\ q[i - 1] = queue[i]
    BY TailElements DEF HandleAccept, Handles, IInv, TypeOK
<1>2. PICK c \in Conns :
          /\ Unreferenced(c)
          /\ newConn' = c
          /\ sock' = [sock EXCEPT ![c] = "closed"]
          /\ acceptOp' = listening
          /\ queue' = IF listening THEN q ELSE Append(q, Done("accept", c, "error"))
    BY DEF HandleAccept
<1>3. PICK old \in Conns : old = newConn
    BY DEF IInv, TypeOK
<1>4. /\ queue[1].h = "accept" /\ queue[1].r = "ok" /\ queue[1].c = old
      /\ sock[old] = "open" /\ op[old] = "none" /\ run = "running"
      /\ managed' = managed \cup {old}
      /\ op' = [op EXCEPT ![old] = "read"]
      /\ UNCHANGED <<run, listening, stop>>
    BY <1>1, <1>3 DEF HandleAccept, Handles, IInv, OneOperation, AcceptedIsOpen
<1>5. /\ c \notin managed /\ c # old /\ op[c] = "none"
      /\ \A i \in DOMAIN queue : queue[i].c # c
    BY <1>2, <1>3 DEF Unreferenced, Pending, Queued, IInv, TypeOK
\* What is left in the queue is not an accept and not of c or old.
<1>6. /\ \A i \in DOMAIN queue' :
            \/ /\ i + 1 \in DOMAIN queue /\ i + 1 # 1 /\ queue'[i] = queue[i + 1]
               /\ queue[i + 1].c # old /\ queue[i + 1].c # c
               /\ queue[i + 1].h # "accept"
            \/ ~listening /\ i = Len(queue) /\ queue'[i] = Done("accept", c, "error")
      /\ \A i \in DOMAIN queue : i # 1 => i - 1 \in DOMAIN queue'
                                        /\ queue'[i - 1] = queue[i]
    <2>1. \A i \in DOMAIN q :
              /\ i + 1 \in DOMAIN queue /\ i + 1 # 1 /\ q[i] = queue[i + 1]
              /\ queue[i + 1].c # old /\ queue[i + 1].c # c
              /\ queue[i + 1].h # "accept"
        BY <1>1, <1>3, <1>4, <1>5 DEF IInv, OneOperation
    <2>2. CASE listening
        BY <1>1, <1>2, <2>1, <2>2
    <2>3. CASE ~listening
        <3>1. Done("accept", c, "error") \in Completion
            BY DEF Done, Completion, Results
        <3>2. Len(q) + 1 = Len(queue) /\ queue' = Append(q, Done("accept", c, "error"))
            BY <1>1, <1>2, <2>3
        <3>3. /\ \A i \in DOMAIN q : i \in DOMAIN queue' /\ queue'[i] = q[i]
              /\ queue'[Len(q) + 1] = Done("accept", c, "error")
              /\ \A i \in DOMAIN queue' : i \in DOMAIN q \/ i = Len(q) + 1
            BY <1>1, <3>1, <3>2, AppendElements
        <3> QED BY <1>1, <2>1, <2>3, <3>2, <3>3
    <2> QED BY <2>2, <2>3
<1>7. OneOperation'
    <2>1. ASSUME NEW i \in DOMAIN queue', NEW j \in DOMAIN queue', queue'[i].c = queue'[j].c
          PROVE  i = j
        <3>1. i \in Nat /\ j \in Nat
            BY DEF TypeOK
        <3>2. i + 1 \in DOMAIN queue /\ j + 1 \in DOMAIN queue
                  /\ queue[i + 1].c = queue[j + 1].c => i + 1 = j + 1
            BY DEF IInv, OneOperation
        <3> QED BY <1>6, <2>1, <3>1, <3>2 DEF Done
    <2>2. ASSUME NEW d \in Conns, op'[d] # "none" PROVE ~Queued(d)'
        <3>1. d = old \/ op[d] # "none"
            BY <1>4, <2>2 DEF IInv, TypeOK
        <3>2. d # c
            BY <1>5, <3>1
        <3> QED BY <1>6, <3>1, <3>2 DEF Done, IInv, OneOperation, Queued
    <2>3. op'[newConn'] = "none"
        BY <1>2, <1>4, <1>5 DEF IInv, TypeOK
    <2>4. acceptOp' => \A i \in DOMAIN queue' : queue'[i].c # c
        BY <1>2, <1>6
    <2>5. \A i \in DOMAIN queue' : queue'[i].h = "accept" <=> queue'[i].c = newConn'
        BY <1>2, <1>6 DEF Done
    <2> QED BY <1>2, <2>1, <2>2, <2>3, <2>4, <2>5 DEF OneOperation, Queued
<1>8. ManagedIsServed'
    <2>1. ASSUME NEW d \in managed PROVE d # c /\ sock'[d] = "open" /\ Pending(d)'
        <3>1. d \in Conns /\ d # old /\ sock[d] = "open" /\ Pending(d)
            BY <1>3, <1>4, <2>1 DEF IInv, TypeOK, ManagedIsServed
        <3>2. Queued(d) => Queued(d)'
            BY <1>4, <1>6, <3>1 DEF Queued
        <3> QED BY <1>2, <1>4, <1>5, <3>1, <3>2 DEF Pending, IInv, TypeOK
    <2>2. sock'[old] = "open" /\ Pending(old)'
        BY <1>2, <1>4, <1>5 DEF Pending, IInv, TypeOK
    <2> QED BY <1>2, <1>4, <1>5, <2>1, <2>2 DEF ManagedIsServed
<1>9. OpenIsManaged'
    BY <1>2, <1>3, <1>4 DEF IInv, TypeOK, OpenIsManaged
<1>10. StopIsPosted'
    BY <1>4, <1>6 DEF Done, IInv, StopIsPosted
<1>11. AbortedIsClosed'
    <2>1. \A i \in DOMAIN queue : queue[i].h \in {"read", "write"} => queue[i].c \in Conns
        BY <1>1 DEF Completion
    <2> QED BY <1>2, <1>6, <2>1 DEF Done, IInv, TypeOK, AbortedIsClosed
<1>12. AcceptedIsOpen'
    BY <1>6 DEF Done, AcceptedIsOpen
<1> QED BY <1>7, <1>8, <1>9, <1>10, <1>11, <1>12 DEF IInv

------------------------------------------------------------------------------
\* IInv holds when the server is constructed and no step breaks it.
LEMMA InductiveInvariant == Spec => []IInv
<1>1. Init => IInv
    BY DEF Init, IInv, TypeOK, OneOperation, ManagedIsServed, OpenIsManaged, Queued,
       StopIsPosted, AbortedIsClosed, AcceptedIsOpen
<1>2. IInv /\ [Next]_vars => IInv'
    <2> SUFFICES ASSUME IInv, [Next]_vars PROVE IInv'
        OBVIOUS
    <2>1. TypeOK'
        BY TypeStep DEF IInv
    <2>2. CASE \/ AcceptSucceeds \/ AcceptFails \/ Stop
               \/ \E c \in Conns : OpCompletes(c)
        BY <2>1, <2>2, AddingSteps
    <2>3. CASE HandleAccept
        BY <2>1, <2>3, AcceptingStep
    <2>4. CASE HandleReadMore
        BY <2>1, <2>4, StartingSteps DEF HandleReadMore
    <2>5. CASE HandleReadReply
        BY <2>1, <2>5, StartingSteps DEF HandleReadReply
    <2>6. CASE \/ HandleAcceptError \/ HandleReadThrows \/ HandleReadError
               \/ HandleWrite \/ HandleAborted \/ HandleStop
        BY <2>1, <2>6, ClosingSteps
    <2>7. CASE RunReturns
        BY <2>7 DEF RunReturns, IInv, TypeOK, OneOperation, ManagedIsServed,
           OpenIsManaged, Queued, Pending, StopIsPosted, AbortedIsClosed, AcceptedIsOpen
    <2>8. CASE Over \/ UNCHANGED vars
        BY <2>8 DEF Over, vars, IInv, TypeOK, OneOperation, ManagedIsServed,
           OpenIsManaged, Queued, Pending, StopIsPosted, AbortedIsClosed, AcceptedIsOpen
    <2> QED BY <2>2, <2>3, <2>4, <2>5, <2>6, <2>7, <2>8 DEF Next, Handle
<1> QED BY <1>1, <1>2, PTL DEF Spec

\* No connection object has two operations or handlers outstanding, however many
\* peers connect, go silent or hang up and whenever the server is stopped.
THEOREM OneOperationAtATime == Spec => []OneOperation
BY InductiveInvariant, PTL DEF IInv

\* The connection manager keeps no connection that no handler will ever stop.
THEOREM NoConnectionForgotten == Spec => []ManagedIsServed
BY InductiveInvariant, PTL DEF IInv

\* No socket stays open without the connection manager knowing of it.
THEOREM NoSocketLeaked == Spec => []OpenIsManaged
BY InductiveInvariant, PTL DEF IInv

------------------------------------------------------------------------------
(* The server implements HttpService.  A phase is read off the operation or  *)
(* handler that is outstanding, of which OneOperation says there is one.     *)

Kinds == {"read", "write"}

\* A step that leaves alone what is outstanding is a stutter of HttpService.
LEMMA PhaseStutters ==
    ASSUME \A c \in Conns : \A kind \in Kinds : Busy(c, kind)' <=> Busy(c, kind)
    PROVE  UNCHANGED RequestPhase
<1>1. \A c \in Conns : Phase(c)' = Phase(c)
    BY DEF Phase, Kinds
<1> QED BY <1>1 DEF RequestPhase

\* A step that changes it at one connection changes the phase of that one.
LEMMA PhaseChanges ==
    ASSUME NEW c \in Conns, NEW old, NEW new, Phase(c) = old, Phase(c)' = new,
           \A d \in Conns \ {c} : \A kind \in Kinds : Busy(d, kind)' <=> Busy(d, kind)
    PROVE  RequestPhase[c] = old /\ RequestPhase' = [RequestPhase EXCEPT ![c] = new]
<1>1. \A d \in Conns \ {c} : Phase(d)' = Phase(d)
    BY DEF Phase, Kinds
<1> QED BY <1>1 DEF RequestPhase

\* Handlers that only take their completion leave nothing at its connection.
LEMMA TakenBusy ==
    ASSUME IInv, queue # <<>>, queue' = Tail(queue), op' = op
    PROVE  \A c \in Conns : \A kind \in Kinds :
               Busy(c, kind)' <=> Busy(c, kind) /\ ~(Head(queue).c = c /\ Head(queue).h = kind)
<1>1. /\ Head(queue) = queue[1] /\ 1 \in DOMAIN queue
      /\ \A i \in DOMAIN queue' : i + 1 \in DOMAIN queue /\ i + 1 # 1 /\ queue'[i] = queue[i + 1]
      /\ \A i \in DOMAIN queue : i # 1 => i - 1 \in DOMAIN queue' /\ queue'[i - 1] = queue[i]
    BY TailElements DEF IInv, TypeOK
<1>2. \A c \in Conns : Head(queue).c = c => op[c] = "none" /\ \A i \in DOMAIN queue : i # 1 => queue[i].c # c
    BY <1>1 DEF IInv, OneOperation, Queued
<1>3. ASSUME NEW c \in Conns, NEW kind \in Kinds
      PROVE  Busy(c, kind)' <=> Busy(c, kind) /\ ~(Head(queue).c = c /\ Head(queue).h = kind)
    <2>1. ASSUME Busy(c, kind)'
          PROVE  Busy(c, kind) /\ ~(Head(queue).c = c /\ Head(queue).h = kind)
        BY <1>1, <1>2, <2>1 DEF Busy, Kinds
    <2>2. ASSUME Busy(c, kind), ~(Head(queue).c = c /\ Head(queue).h = kind)
          PROVE  Busy(c, kind)'
        <3>1. CASE op[c] = kind
            BY <3>1 DEF Busy
        <3>2. CASE \E i \in DOMAIN queue : queue[i].c = c /\ queue[i].h = kind
            <4>1. PICK i \in DOMAIN queue : queue[i].c = c /\ queue[i].h = kind
                BY <3>2
            <4>2. i - 1 \in DOMAIN queue' /\ queue'[i - 1] = queue[i]
                BY <1>1, <2>2, <4>1
            <4> QED BY <4>1, <4>2 DEF Busy
        <3> QED BY <2>2, <3>1, <3>2 DEF Busy
    <2> QED BY <2>1, <2>2
<1> QED BY <1>3

\* A completion that enters the queue is outstanding at its connection.
LEMMA AddedBusy ==
    ASSUME IInv, NEW e \in Completion, queue' = Append(queue, e), op' = op
    PROVE  \A c \in Conns : \A kind \in Kinds :
               Busy(c, kind)' <=> Busy(c, kind) \/ (e.c = c /\ e.h = kind)
<1>1. /\ \A i \in DOMAIN queue : i \in DOMAIN queue' /\ queue'[i] = queue[i]
      /\ Len(queue) + 1 \in DOMAIN queue' /\ queue'[Len(queue) + 1] = e
      /\ \A i \in DOMAIN queue' : i \in DOMAIN queue \/ i = Len(queue) + 1
    BY AppendElements DEF IInv, TypeOK
<1> QED BY <1>1 DEF Busy
\* A handler that starts the next operation is busy with that one only.
LEMMA StartedBusy ==
    ASSUME IInv, Handles("read"), NEW kind \in Kinds, StartOp(Head(queue).c, kind)
    PROVE  /\ Head(queue).c \in Conns
           /\ \A c \in Conns : \A k \in Kinds :
                 Busy(c, k)' <=> IF c = Head(queue).c THEN k = kind ELSE Busy(c, k)
<1> DEFINE me == Head(queue).c
           q == Tail(queue)
<1>1. /\ Head(queue) = queue[1] /\ Head(queue) \in Completion /\ 1 \in DOMAIN queue
      /\ q \in Seq(Completion)
      /\ \A i \in DOMAIN q : i + 1 \in DOMAIN queue /\ i + 1 # 1 /\ q[i] = queue[i + 1]
      /\ \A i \in DOMAIN queue : i # 1 => i - 1 \in DOMAIN q /\ q[i - 1] = queue[i]
    BY TailElements DEF Handles, IInv, TypeOK
<1>2. me \in Conns
    BY <1>1 DEF Handles, Completion
<1>3. op[me] = "none" /\ \A i \in DOMAIN q : q[i].c # me
    BY <1>1, <1>2 DEF IInv, OneOperation, Queued
<1>4. \A c \in Conns \ {me} : \A k \in Kinds :
          Busy(c, k) <=> op[c] = k \/ \E i \in DOMAIN q : q[i].c = c /\ q[i].h = k
    <2> SUFFICES ASSUME NEW c \in Conns \ {me}, NEW k \in Kinds
                 PROVE  (\E i \in DOMAIN queue : queue[i].c = c /\ queue[i].h = k)
                            <=> \E i \in DOMAIN q : q[i].c = c /\ q[i].h = k
        BY DEF Busy
    <2>1. ASSUME NEW i \in DOMAIN queue, queue[i].c = c, queue[i].h = k
          PROVE  \E j \in DOMAIN q : q[j].c = c /\ q[j].h = k
        <3>1. i - 1 \in DOMAIN q /\ q[i - 1] = queue[i]
            BY <1>1, <2>1
        <3> QED BY <2>1, <3>1
    <2>2. ASSUME NEW i \in DOMAIN q, q[i].c = c, q[i].h = k
          PROVE  \E j \in DOMAIN queue : queue[j].c = c /\ queue[j].h = k
        BY <1>1, <2>2
    <2> QED BY <2>1, <2>2
<1>5. CASE sock[me] = "open"
    <2>1. op' = [op EXCEPT ![me] = kind] /\ queue' = q
        BY <1>5 DEF StartOp
    <2> QED BY SMTT(30), <1>2, <1>3, <1>4, <2>1 DEF Busy, Kinds, IInv, TypeOK
<1>6. CASE sock[me] # "open"
    <2>1. op' = op /\ queue' = Append(q, Done(kind, me, "error"))
        BY <1>6 DEF StartOp
    <2>2. Done(kind, me, "error") \in Completion
        BY <1>2 DEF Done, Completion, Results, Kinds
    <2>3. /\ \A i \in DOMAIN q : i \in DOMAIN queue' /\ queue'[i] = q[i]
          /\ Len(q) + 1 \in DOMAIN queue' /\ queue'[Len(q) + 1] = Done(kind, me, "error")
          /\ \A i \in DOMAIN queue' : i \in DOMAIN q \/ i = Len(q) + 1
        BY <1>1, <2>1, <2>2, AppendElements
    <2>4. ASSUME NEW c \in Conns, NEW k \in Kinds, c = me PROVE Busy(c, k)' <=> k = kind
        BY <1>3, <2>1, <2>3, <2>4 DEF Busy, Done, Kinds
    <2>5. ASSUME NEW c \in Conns, NEW k \in Kinds, c # me PROVE Busy(c, k)' <=> Busy(c, k)
        <3>1. Busy(c, k) <=> op[c] = k \/ \E i \in DOMAIN q : q[i].c = c /\ q[i].h = k
            BY <1>4, <2>5
        <3>2. (\E i \in DOMAIN queue' : queue'[i].c = c /\ queue'[i].h = k)
                  <=> \E i \in DOMAIN q : q[i].c = c /\ q[i].h = k
            BY <2>3, <2>5 DEF Done
        <3> QED BY <2>1, <3>1, <3>2 DEF Busy
    <2> QED BY <1>2, <2>4, <2>5
<1> QED BY <1>5, <1>6
\* handle_accept adds and removes no handler of a read or a write.
LEMMA AcceptedQueue ==
    ASSUME IInv, HandleAccept, NEW d \in Conns, NEW kind \in Kinds
    PROVE  (\E i \in DOMAIN queue' : queue'[i].c = d /\ queue'[i].h = kind)
               <=> \E i \in DOMAIN queue : queue[i].c = d /\ queue[i].h = kind
<1> DEFINE q == Tail(queue)
<1>1. /\ Head(queue) = queue[1] /\ Head(queue).h = "accept" /\ q \in Seq(Completion)
      /\ \A i \in DOMAIN q : i + 1 \in DOMAIN queue /\ q[i] = queue[i + 1]
      /\ \A i \in DOMAIN queue : i # 1 => i - 1 \in DOMAIN q /\ q[i - 1] = queue[i]
    BY TailElements DEF HandleAccept, Handles, IInv, TypeOK
<1>2. (\E i \in DOMAIN q : q[i].c = d /\ q[i].h = kind)
          <=> \E i \in DOMAIN queue : queue[i].c = d /\ queue[i].h = kind
    <2>1. ASSUME NEW i \in DOMAIN queue, queue[i].c = d, queue[i].h = kind
          PROVE  \E j \in DOMAIN q : q[j].c = d /\ q[j].h = kind
        <3>1. i - 1 \in DOMAIN q /\ q[i - 1] = queue[i]
            BY <1>1, <2>1 DEF Kinds
        <3> QED BY <2>1, <3>1
    <2>2. ASSUME NEW i \in DOMAIN q, q[i].c = d, q[i].h = kind
          PROVE  \E j \in DOMAIN queue : queue[j].c = d /\ queue[j].h = kind
        BY <1>1, <2>2
    <2> QED BY <2>1, <2>2
<1>3. PICK c \in Conns :
          queue' = IF listening THEN q ELSE Append(q, Done("accept", c, "error"))
    BY DEF HandleAccept
<1>4. CASE listening
    BY <1>2, <1>3, <1>4
<1>5. CASE ~listening
    <2>1. Done("accept", c, "error") \in Completion
        BY DEF Done, Completion, Results
    <2>2. /\ \A i \in DOMAIN q : i \in DOMAIN queue' /\ queue'[i] = q[i]
          /\ queue'[Len(q) + 1] = Done("accept", c, "error")
          /\ \A i \in DOMAIN queue' : i \in DOMAIN q \/ i = Len(q) + 1
        BY <1>1, <1>3, <1>5, <2>1, AppendElements
    <2>3. (\E i \in DOMAIN queue' : queue'[i].c = d /\ queue'[i].h = kind)
              <=> \E i \in DOMAIN q : q[i].c = d /\ q[i].h = kind
        BY <2>2 DEF Done, Kinds
    <2> QED BY <1>2, <2>3
<1> QED BY <1>4, <1>5

\* Every step is a step of HttpService at one connection, or a stutter of it.
LEMMA ServiceStep == IInv /\ [Next]_vars => [Service!Next]_RequestPhase
<1> SUFFICES ASSUME IInv, [Next]_vars PROVE [Service!Next]_RequestPhase
    OBVIOUS
<1> USE DEF Kinds
<1>1. ASSUME queue # <<>>
      PROVE  /\ Head(queue) = queue[1] /\ Head(queue) \in Completion /\ 1 \in DOMAIN queue
             /\ \A i \in DOMAIN queue : queue[i].c = Head(queue).c => i = 1
             /\ Head(queue).c \in Conns => op[Head(queue).c] = "none"
    BY <1>1, TailElements DEF IInv, TypeOK, OneOperation, Queued
\* The phase of the connection whose handler runs.
<1>2. ASSUME queue # <<>>, Head(queue).h \in Kinds
      PROVE  LET c == Head(queue).c IN
             /\ c \in Conns
             /\ Busy(c, Head(queue).h)
             /\ Phase(c) = IF Head(queue).h = "write" THEN "replying" ELSE "reading"
    BY <1>1, <1>2 DEF Phase, Busy, Completion
\* A handler of a read or write that starts nothing ends what its connection did.
<1>3. ASSUME queue # <<>>, Head(queue).h \in Kinds, queue' = Tail(queue), op' = op
      PROVE  Service!Next
    <2>0. PICK c \in Conns : c = Head(queue).c
        BY <1>2, <1>3
    <2>1. \A d \in Conns : \A kind \in Kinds :
              Busy(d, kind)' <=> Busy(d, kind) /\ ~(c = d /\ Head(queue).h = kind)
        BY <1>3, <2>0, TakenBusy
    <2>2. c \in Conns /\ \A kind \in Kinds : kind # Head(queue).h => ~Busy(c, kind)
        BY <1>1, <1>3, <2>0 DEF Busy
    <2>3. Phase(c)' = "idle"
        BY <2>1, <2>2 DEF Phase
    <2>4. RequestPhase' = [RequestPhase EXCEPT ![c] = "idle"]
        BY <2>1, <2>3, PhaseChanges
    <2>5. RequestPhase[c] \in {"reading", "replying"}
        BY <1>2, <1>3, <2>0 DEF RequestPhase
    <2>6. Service!Drop(c) \/ Service!Finish(c)
        BY <2>4, <2>5 DEF Service!Drop, Service!Finish
    <2> QED BY <2>6 DEF Service!Next
<1>4. CASE AcceptSucceeds \/ AcceptFails \/ Stop
    <2>1. op' = op /\ (\/ queue' = queue
                      \/ \E e \in Completion : e.h \notin Kinds /\ queue' = Append(queue, e))
        BY <1>4 DEF AcceptSucceeds, AcceptFails, Stop, Done, Completion, Results, IInv, TypeOK
    <2>2. CASE queue' = queue
        BY <2>1, <2>2, PhaseStutters DEF Busy
    <2>3. ASSUME NEW e \in Completion, e.h \notin Kinds, queue' = Append(queue, e)
          PROVE  UNCHANGED RequestPhase
        BY <2>1, <2>3, AddedBusy, PhaseStutters
    <2> QED BY <2>1, <2>2, <2>3
<1>5. ASSUME NEW c \in Conns, OpCompletes(c) PROVE UNCHANGED RequestPhase
    <2>1. PICK r \in Results : queue' = Append(queue, Done(op[c], c, r))
        BY <1>5 DEF OpCompletes
    <2>2. /\ op[c] \in Kinds /\ op' = [op EXCEPT ![c] = "none"]
          /\ Done(op[c], c, r) \in Completion
        BY <1>5 DEF OpCompletes, Done, Completion, IInv, TypeOK
    <2>3. \A i \in DOMAIN queue : queue[i].c # c
        BY <2>2 DEF IInv, OneOperation, Queued
    <2>4. /\ \A i \in DOMAIN queue : i \in DOMAIN queue' /\ queue'[i] = queue[i]
          /\ Len(queue) + 1 \in DOMAIN queue' /\ queue'[Len(queue) + 1] = Done(op[c], c, r)
          /\ \A i \in DOMAIN queue' : i \in DOMAIN queue \/ i = Len(queue) + 1
        BY <2>1, <2>2, AppendElements DEF IInv, TypeOK
    <2>5. ASSUME NEW kind \in Kinds PROVE Busy(c, kind)' <=> Busy(c, kind)
        BY <2>2, <2>3, <2>4 DEF Busy, Done, IInv, TypeOK
    <2>6. ASSUME NEW d \in Conns, d # c, NEW kind \in Kinds PROVE Busy(d, kind)' <=> Busy(d, kind)
        <3>1. op'[d] = op[d]
            BY <2>2, <2>6 DEF IInv, TypeOK
        <3>2. (\E i \in DOMAIN queue' : queue'[i].c = d /\ queue'[i].h = kind)
                  <=> \E i \in DOMAIN queue : queue[i].c = d /\ queue[i].h = kind
            BY <2>4, <2>6 DEF Done
        <3> QED BY <3>1, <3>2 DEF Busy
    <2> QED BY <2>5, <2>6, PhaseStutters
\* The accepted connection had nothing outstanding but the accept.
<1>6. CASE HandleAccept
    <2>1. PICK old \in Conns : old = newConn
        BY DEF IInv, TypeOK
    <2>2. queue # <<>> /\ Head(queue).h = "accept" /\ op' = [op EXCEPT ![old] = "read"]
        BY <1>6, <2>1 DEF HandleAccept, Handles
    <2>3. /\ op[old] = "none" /\ Head(queue).c = old
          /\ \A i \in DOMAIN queue : queue[i].c = old => queue[i].h = "accept"
        BY <1>1, <2>1, <2>2 DEF IInv, OneOperation
    <2>4. Phase(old) = "idle"
        BY <2>3 DEF Phase, Busy
    <2>5. ASSUME NEW d \in Conns, NEW kind \in Kinds
          PROVE  (\E i \in DOMAIN queue' : queue'[i].c = d /\ queue'[i].h = kind)
                     <=> \E i \in DOMAIN queue : queue[i].c = d /\ queue[i].h = kind
        BY AcceptedQueue, <1>6, <2>2
    <2>6. Phase(old)' = "reading"
        BY <2>2, <2>3, <2>5 DEF Phase, Busy, IInv, TypeOK
    <2>7. \A d \in Conns \ {old} : \A kind \in Kinds : Busy(d, kind)' <=> Busy(d, kind)
        BY <2>2, <2>5 DEF Busy, IInv, TypeOK
    <2>8. Service!Begin(old)
        BY <2>4, <2>6, <2>7, PhaseChanges DEF Service!Begin
    <2> QED BY <2>8 DEF Service!Next
<1>7. CASE HandleAcceptError \/ HandleStop
    <2>1. queue # <<>> /\ Head(queue).h \notin Kinds /\ queue' = Tail(queue) /\ op' = op
        BY <1>7 DEF HandleAcceptError, HandleStop, Handles
    <2> QED BY <2>1, TakenBusy, PhaseStutters
<1>8. CASE HandleReadMore \/ HandleReadReply
    <2>1. PICK kind \in Kinds : /\ StartOp(Head(queue).c, kind)
                               /\ kind = IF HandleReadMore THEN "read" ELSE "write"
        BY <1>8 DEF HandleReadMore, HandleReadReply
    <2>2. Handles("read") /\ queue # <<>> /\ Head(queue).h = "read"
        BY <1>8 DEF HandleReadMore, HandleReadReply, Handles
    <2>3. PICK c \in Conns : c = Head(queue).c
        BY <1>2, <2>2
    <2>4. \A d \in Conns : \A k \in Kinds :
              Busy(d, k)' <=> IF d = c THEN k = kind ELSE Busy(d, k)
        BY <2>1, <2>2, <2>3, StartedBusy
    <2>5. Phase(c) = "reading"
        BY <1>2, <2>2, <2>3
    <2>6. Phase(c)' = IF kind = "write" THEN "replying" ELSE "reading"
        BY <2>4 DEF Phase
    <2>7. RequestPhase[c] = "reading" /\
          RequestPhase' = [RequestPhase EXCEPT ![c] = IF kind = "write" THEN "replying" ELSE "reading"]
        BY <2>4, <2>5, <2>6, PhaseChanges
    <2>8. CASE kind = "write"
        BY <2>7, <2>8 DEF Service!Reply, Service!Next
    <2>9. CASE kind = "read"
        BY <2>7, <2>9 DEF RequestPhase
    <2> QED BY <2>8, <2>9
<1>9. CASE HandleReadThrows \/ HandleReadError \/ HandleWrite \/ HandleAborted
    <2>1. queue # <<>> /\ Head(queue).h \in Kinds /\ queue' = Tail(queue) /\ op' = op
        BY <1>9 DEF HandleReadThrows, HandleReadError, HandleWrite, HandleAborted,
           Handles, serverVars
    <2> QED BY <1>3, <2>1
<1>10. CASE RunReturns \/ Over \/ UNCHANGED vars
    <2>1. queue' = queue /\ op' = op
        BY <1>10 DEF RunReturns, Over, vars
    <2> QED BY <2>1, PhaseStutters DEF Busy
<1> QED BY <1>4, <1>5, <1>6, <1>7, <1>8, <1>9, <1>10 DEF Next, Handle

\* The server implements HttpService for any number of connections: handle_read
\* and handle_write never answer a connection twice, nor before a request was
\* read, nor read from it after the reply.
THEOREM ServerImplementsService == Spec => OneReply
<1>1. Init => Service!Init
    BY DEF Init, Service!Init, RequestPhase, Phase, Busy
<1> QED BY <1>1, InductiveInvariant, ServiceStep, PTL DEF Spec, OneReply, Service!Spec
==============================================================================
