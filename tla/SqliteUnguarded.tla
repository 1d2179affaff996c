--------------------------- MODULE SqliteUnguarded ---------------------------
(***************************************************************************)
(* SqliteUnguarded: the protocol of SqliteLocks as the build has it.  No   *)
(* CMakeLists.txt defines THREADSAFE, so sqlite3OsEnterMutex only counts,  *)
(* and a thread may stop in unixLock between its look at the lock table,   *)
(* which all threads share, and its entry there.                           *)
(***************************************************************************)
EXTENDS SqliteLocks

VARIABLE decided    \* what unixLock found for each connection, or "nothing"

UInit == Init /\ decided = [c \in Conns |-> "nothing"]

\* unixLock as far as the table of locks forbids what is asked for.
Decide(c) ==
    /\ at[c] \in {"shared", "claims", "reserves", "commits"} /\ decided[c] = "nothing"
    /\ decided' = [decided EXCEPT ![c] = Answer(c)]
    /\ UNCHANGED vars

\* The rest of it, whatever other threads have done since.
Act(c) ==
    /\ decided[c] # "nothing"
    /\ Locks(c, decided[c])
    /\ decided' = [decided EXCEPT ![c] = "nothing"]

UNext ==
    \/ \E c \in Conns :
          \/ Decide(c) \/ Act(c)
          \/ /\ Open(c) \/ Close(c) \/ (\E k \in Kinds : Start(c, k)) \/ Goes(c)
             /\ UNCHANGED decided
    \/ Crash /\ decided' = [c \in Conns |-> "nothing"]

USpec == UInit /\ [][UNext]_<<vars, decided>>
==============================================================================
