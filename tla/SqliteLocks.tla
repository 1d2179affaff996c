----------------------------- MODULE SqliteLocks -----------------------------
(***************************************************************************)
(* SqliteLocks: the database file between the threads of the process.      *)
(* Every thread has a connection of its own (sqlite::db()); what keeps     *)
(* them apart is the pager's protocol of five lock levels, the rollback    *)
(* journal and the table of locks in os_unix.c, for the locks of the       *)
(* operating system are the process's and do not tell its threads apart.   *)
(*                                                                         *)
(* The sections of os_unix.c between EnterMutex and LeaveMutex are single  *)
(* steps here; SqliteUnguarded is the build without the mutex.             *)
(***************************************************************************)
EXTENDS Naturals, FiniteSets

CONSTANTS
    Conns,        \* the connections, one for each thread
    Builder,      \* that of the application thread
    Pages,        \* pages of the file, all changed by every commit
    Patience,     \* times busy_handler waits before it gives up (4)
    MaxCommits,   \* bound: commits
    MaxCrashes    \* bound: crashes

ASSUME ConnsFinite == IsFiniteSet(Conns)
ASSUME BuilderIsAConn == Builder \in Conns
ASSUME PagesExist == Pages # {}
ASSUME BoundsNat == {Patience, MaxCommits, MaxCrashes} \subseteq Nat

NO_LOCK == 0
SHARED_LOCK == 1
RESERVED_LOCK == 2
PENDING_LOCK == 3
EXCLUSIVE_LOCK == 4
Levels == NO_LOCK..EXCLUSIVE_LOCK

\* A select, one exec, or execs of a connection while it steps through a select.
Kinds == {"read", "write", "list"}

VARIABLES
    at,         \* where each connection is in its statement
    kind,       \* what statement that is
    tries,      \* times busy_handler waited for it
    seen,       \* history: the commits whose pages it read
    new,        \* the commit its changed pages make, 0 if it changed none
    lock,       \* unixFile.locktype of each connection
    cnt, type,  \* lockInfo: connections with a lock, and the highest lock
    os,         \* what the process has locked of the file
    deferred,   \* connections whose descriptor waits to be closed
    file,       \* commit each page of the file is of
    journal,    \* the journal's old pages, or NoJournal
    commits,    \* history: commits that were made
    ready,      \* check_and_create_tables is done: the web thread may start
    crashes

statement == <<at, kind, tries, seen, new>>
locks == <<lock, cnt, type, os, deferred>>
disk == <<file, journal, commits>>
vars == <<statement, locks, disk, ready, crashes>>

\* pages are of commit 0 when the tables are new
NoJournal == [p \in Pages |-> MaxCommits + 1]

Init ==
    /\ at = [c \in Conns |-> "closed"] /\ kind = [c \in Conns |-> "read"]
    /\ tries = [c \in Conns |-> 0] /\ seen = [c \in Conns |-> {}]
    /\ new = [c \in Conns |-> 0]
    /\ lock = [c \in Conns |-> NO_LOCK]
    /\ cnt = 0 /\ type = NO_LOCK /\ os = {} /\ deferred = {}
    /\ file = [p \in Pages |-> 0] /\ journal = NoJournal /\ commits = 0
    /\ ready = FALSE /\ crashes = 0

Goto(c, from, to) == at[c] = from /\ at' = [at EXCEPT ![c] = to]

------------------------------------------------------------------------------
(* os_unix.c.                                                              *)

\* Mistaken variant: the file is changed while others read it.
OutcomeAmongReaders(c, t) ==
    IF lock[c] # type /\ (type >= PENDING_LOCK \/ t > SHARED_LOCK) THEN "busy" ELSE "ok"

\* What unixLock answers: OK, BUSY, or BUSY with the PENDING lock kept.  No
\* other process has the file, so the operating system refuses nothing.
Outcome(c, t) ==
    IF lock[c] # type /\ (type >= PENDING_LOCK \/ t > SHARED_LOCK) THEN "busy"
    ELSE IF t = EXCLUSIVE_LOCK /\ cnt > 1 THEN "pending"
    ELSE "ok"

\* What the pager asks for, and what it is answered.
Wanted(c) ==
    IF at[c] = "shared" THEN SHARED_LOCK
    ELSE IF at[c] = "reserves" THEN RESERVED_LOCK ELSE EXCLUSIVE_LOCK

Answer(c) == Outcome(c, Wanted(c))

\* A SHARED lock beside others is only counted.
Joins(t) == t = SHARED_LOCK /\ type \in {SHARED_LOCK, RESERVED_LOCK}

unixLock(c, t, outcome) ==
    /\ lock' = [lock EXCEPT ![c] = IF outcome = "ok" THEN t ELSE PENDING_LOCK]
    /\ cnt' = IF t = SHARED_LOCK THEN cnt + 1 ELSE cnt
    /\ type' = IF outcome = "pending" THEN PENDING_LOCK ELSE IF Joins(t) THEN type ELSE t
    /\ os' = IF Joins(t) THEN os
             ELSE IF t = SHARED_LOCK THEN os \cup {"read"}
             ELSE IF t = RESERVED_LOCK THEN os \cup {"reserved"}
             ELSE IF outcome = "pending" THEN os \cup {"pending"}
             ELSE (os \ {"read"}) \cup {"pending", "write"}
    /\ UNCHANGED deferred

\* Mistaken variant: a claim that was refused leaves PENDING in the table.
unixUnlockKeepsPending(c, t) ==
    LET last == t = NO_LOCK /\ cnt = 1
        above == lock[c] \in {RESERVED_LOCK, EXCLUSIVE_LOCK}
    IN  /\ lock' = [lock EXCEPT ![c] = t]
        /\ cnt' = IF t = NO_LOCK THEN cnt - 1 ELSE cnt
        /\ type' = IF last THEN NO_LOCK ELSE IF above THEN SHARED_LOCK ELSE type
        /\ os' = IF last THEN {} ELSE os
        /\ deferred' = IF last THEN {} ELSE deferred

\* unixUnlock: a connection above SHARED was the only one, so the rest are at
\* SHARED; with the last lock the descriptors are closed that waited for it.
unixUnlock(c, t) ==
    LET above == lock[c] > SHARED_LOCK
        last == t = NO_LOCK /\ cnt = 1
        range == IF above /\ t = SHARED_LOCK THEN (os \ {"write"}) \cup {"read"} ELSE os
    IN  /\ lock' = [lock EXCEPT ![c] = t]
        /\ cnt' = IF t = NO_LOCK THEN cnt - 1 ELSE cnt
        /\ type' = IF last THEN NO_LOCK ELSE IF above THEN SHARED_LOCK ELSE type
        /\ os' = IF last THEN {} ELSE IF above THEN range \ {"pending", "reserved"} ELSE os
        /\ deferred' = IF last THEN {} ELSE deferred

\* Mistaken variant: the descriptor is closed at once, and with it the process
\* loses its locks on the file.
unixCloseAtOnce(c) == os' = {} /\ UNCHANGED <<lock, cnt, type, deferred>>

unixClose(c) ==
    /\ IF cnt > 0 THEN deferred' = deferred \cup {c} /\ UNCHANGED os
       ELSE os' = {} /\ UNCHANGED deferred
    /\ UNCHANGED <<lock, cnt, type>>

------------------------------------------------------------------------------
(* A statement: the SHARED lock, and a journal left by a crash.            *)

AfterShared(c) == IF kind[c] = "write" THEN "reserves" ELSE "reads"

\* The process dies for one connection only with all of them.
Idle(c) ==
    /\ at' = [at EXCEPT ![c] = "idle"]
    /\ kind' = [kind EXCEPT ![c] = "read"] /\ tries' = [tries EXCEPT ![c] = 0]
    /\ seen' = [seen EXCEPT ![c] = {}] /\ new' = [new EXCEPT ![c] = 0]

\* Mistaken variant: busy_handler never gives up.
WaitsOn(c) == tries' = [tries EXCEPT ![c] = @ + 1]

\* busy_handler: to wait once more, or to end the statement with database_error.
Waits(c) == tries[c] < Patience /\ tries' = [tries EXCEPT ![c] = @ + 1]
GivesUp(c) == tries[c] >= Patience /\ Idle(c)

\* Mistaken variant: any thread uses the database at any time.
OpenAtAnyTime(c) ==
    /\ Goto(c, "closed", "idle")
    /\ UNCHANGED <<kind, tries, seen, new, locks, disk, ready, crashes>>

\* sqlite::db() in a thread that has no connection yet.
Open(c) ==
    /\ Goto(c, "closed", "idle")
    /\ c = Builder \/ ready
    /\ UNCHANGED <<kind, tries, seen, new, locks, disk, ready, crashes>>

\* The thread is over: close_n_delete_db.
Close(c) ==
    /\ Goto(c, "idle", "gone")
    /\ unixClose(c)
    /\ UNCHANGED <<kind, tries, seen, new, disk, ready, crashes>>

Start(c, k) ==
    /\ Goto(c, "idle", "shared")
    /\ kind' = [kind EXCEPT ![c] = k]
    /\ UNCHANGED <<tries, seen, new, locks, disk, ready, crashes>>

GetShared(c, o) ==
    /\ Goto(c, "shared", "exists")
    /\ o = "ok" /\ unixLock(c, SHARED_LOCK, "ok")
    /\ UNCHANGED <<kind, tries, seen, new, disk, ready, crashes>>

SharedBusy(c, o) ==
    /\ at[c] = "shared" /\ o # "ok"
    /\ \/ Waits(c) /\ UNCHANGED <<at, kind, seen, new>>
       \/ GivesUp(c)
    /\ UNCHANGED <<locks, disk, ready, crashes>>

\* hasHotJournal: first whether there is a journal, then whether somebody has
\* more than a SHARED lock.
JournalExists(c) ==
    /\ Goto(c, "exists", IF journal = NoJournal THEN AfterShared(c) ELSE "checks")
    /\ UNCHANGED <<kind, tries, seen, new, locks, disk, ready, crashes>>

CheckReservedLock(c) ==
    /\ Goto(c, "checks", IF type > SHARED_LOCK THEN AfterShared(c) ELSE "claims")
    /\ UNCHANGED <<kind, tries, seen, new, locks, disk, ready, crashes>>

\* The EXCLUSIVE lock for the rollback is asked for once.
ClaimHotJournal(c, o) ==
    /\ Goto(c, "claims", IF o = "ok" THEN "opens" ELSE "yields")
    /\ IF o = "busy" THEN UNCHANGED locks ELSE unixLock(c, EXCLUSIVE_LOCK, o)
    /\ UNCHANGED <<kind, tries, seen, new, disk, ready, crashes>>

\* The journal may have gone since it was seen: that counts as busy.
OpenHotJournal(c) ==
    /\ Goto(c, "opens", IF journal = NoJournal THEN "yields" ELSE "restores")
    /\ UNCHANGED <<kind, tries, seen, new, locks, disk, ready, crashes>>

\* pager_playback, page by page; then the journal is deleted.
RestorePage(c, p) ==
    /\ at[c] = "restores" /\ file[p] # journal[p]
    /\ file' = [file EXCEPT ![p] = journal[p]]
    /\ UNCHANGED <<statement, locks, journal, commits, ready, crashes>>

Restored(c) ==
    /\ Goto(c, "restores", "settles") /\ file = journal
    /\ journal' = NoJournal
    /\ UNCHANGED <<kind, tries, seen, new, locks, file, commits, ready, crashes>>

\* pager_unwritelock
Settle(c) ==
    /\ Goto(c, "settles", AfterShared(c))
    /\ unixUnlock(c, SHARED_LOCK)
    /\ UNCHANGED <<kind, tries, seen, new, disk, ready, crashes>>

\* No lock is held while busy_handler waits for the lock that was refused.
Yield(c) ==
    /\ at[c] = "yields"
    /\ unixUnlock(c, NO_LOCK)
    /\ \/ Waits(c) /\ Goto(c, "yields", "shared") /\ UNCHANGED <<kind, seen, new>>
       \/ GivesUp(c)
    /\ UNCHANGED <<disk, ready, crashes>>

------------------------------------------------------------------------------
(* Reading, changing and committing.                                       *)

ReadPage(c, p) ==
    /\ at[c] = "reads"
    /\ seen' = [seen EXCEPT ![c] = @ \cup {file[p]}]
    /\ UNCHANGED <<at, kind, tries, new, locks, disk, ready, crashes>>

\* The select is at its end, or the loop around it.
EndRead(c) ==
    /\ Goto(c, "reads", "leaves")
    /\ UNCHANGED <<kind, tries, seen, new, locks, disk, ready, crashes>>

\* The first exec inside the loop.
Exec(c) ==
    /\ Goto(c, "reads", "reserves") /\ kind[c] = "list"
    /\ UNCHANGED <<kind, tries, seen, new, locks, disk, ready, crashes>>

\* sqlite3BtreeBeginTrans
Reserve(c, o) ==
    /\ Goto(c, "reserves", "journals")
    /\ o = "ok" /\ unixLock(c, RESERVED_LOCK, "ok")
    /\ UNCHANGED <<kind, tries, seen, new, disk, ready, crashes>>

\* Mistaken variant: a connection that reads waits, too.
ReserveBusyWaits(c, o) ==
    /\ at[c] = "reserves" /\ o # "ok" /\ kind[c] = "write"
    /\ Goto(c, "reserves", "yields")
    /\ UNCHANGED <<kind, tries, seen, new, locks, disk, ready, crashes>>

\* A connection that reads is refused at once, or it and a writer that waits for
\* the readers to leave would wait for each other.
ReserveBusy(c, o) ==
    /\ at[c] = "reserves" /\ o # "ok"
    /\ Goto(c, "reserves", IF kind[c] = "write" THEN "yields" ELSE "leaves")
    /\ UNCHANGED <<kind, tries, seen, new, locks, disk, ready, crashes>>

\* pager_open_journal
OpenJournal(c) ==
    /\ Goto(c, "journals", "changes")
    /\ journal' = file
    /\ UNCHANGED <<kind, tries, seen, new, locks, file, commits, ready, crashes>>

\* Rows are changed in the cache, from what the pages are.
Change(c) ==
    /\ at[c] = "changes" /\ new[c] = 0 /\ commits < MaxCommits
    /\ \E p \in Pages : new' = [new EXCEPT ![c] = file[p] + 1]
    /\ UNCHANGED <<at, kind, tries, seen, locks, disk, ready, crashes>>

\* sqlite3VdbeHalt of the last statement that is active: for an exec inside a
\* loop that is the loop's select, in a step of its own.
Halt(c) ==
    /\ Goto(c, "changes", IF new[c] = 0 THEN "erases" ELSE "commits")
    /\ tries' = IF kind[c] = "list" THEN [tries EXCEPT ![c] = 0] ELSE tries
    /\ UNCHANGED <<kind, seen, new, locks, disk, ready, crashes>>

\* pager_write_pagelist
GetExclusive(c, o) ==
    /\ Goto(c, "commits", "writes")
    /\ o = "ok" /\ unixLock(c, EXCLUSIVE_LOCK, "ok")
    /\ UNCHANGED <<kind, tries, seen, new, disk, ready, crashes>>

\* The PENDING lock stays while the readers leave.  A commit that is given up is
\* rolled back: all that was changed since the loop began.
ExclusiveBusy(c, o) ==
    /\ at[c] = "commits" /\ o # "ok"
    /\ IF o = "busy" THEN UNCHANGED locks ELSE unixLock(c, EXCLUSIVE_LOCK, o)
    /\ \/ Waits(c) /\ UNCHANGED <<at, new>>
       \/ /\ tries[c] >= Patience /\ UNCHANGED tries
          /\ Goto(c, "commits", "erases")
          /\ new' = [new EXCEPT ![c] = 0]
    /\ UNCHANGED <<kind, seen, disk, ready, crashes>>

WritePage(c, p) ==
    /\ at[c] = "writes" /\ file[p] # new[c]
    /\ file' = [file EXCEPT ![p] = new[c]]
    /\ UNCHANGED <<statement, locks, journal, commits, ready, crashes>>

\* Mistaken variant: the journal is deleted before all pages are written.
CommitEarly(c) ==
    /\ Goto(c, "writes", "lowers")
    /\ journal' = NoJournal /\ commits' = commits + 1
    /\ UNCHANGED <<kind, tries, seen, new, locks, file, ready, crashes>>

\* The commit happens with the end of the journal.
Commit(c) ==
    /\ Goto(c, "writes", "lowers") /\ \A p \in Pages : file[p] = new[c]
    /\ journal' = NoJournal /\ commits' = commits + 1
    /\ UNCHANGED <<kind, tries, seen, new, locks, file, ready, crashes>>

\* Nothing was changed, or it is rolled back in the cache.
Rollback(c) ==
    /\ Goto(c, "erases", "lowers")
    /\ journal' = NoJournal
    /\ UNCHANGED <<kind, tries, seen, new, locks, file, commits, ready, crashes>>

\* pager_unwritelock
Lower(c) ==
    /\ Goto(c, "lowers", "leaves")
    /\ unixUnlock(c, SHARED_LOCK)
    /\ UNCHANGED <<kind, tries, seen, new, disk, ready, crashes>>

\* The statement is over.  The application thread's first ones check the tables.
Leave(c) ==
    /\ at[c] = "leaves" /\ Idle(c)
    /\ unixUnlock(c, NO_LOCK)
    /\ ready' = (ready \/ c = Builder)
    /\ UNCHANGED <<disk, crashes>>

\* The process is killed: what it held is gone, what it wrote is not.
Crash ==
    /\ crashes < MaxCrashes
    /\ at' = [c \in Conns |-> "closed"] /\ kind' = [c \in Conns |-> "read"]
    /\ tries' = [c \in Conns |-> 0] /\ seen' = [c \in Conns |-> {}]
    /\ new' = [c \in Conns |-> 0]
    /\ lock' = [c \in Conns |-> NO_LOCK]
    /\ cnt' = 0 /\ type' = NO_LOCK /\ os' = {} /\ deferred' = {}
    /\ ready' = FALSE /\ crashes' = crashes + 1
    /\ UNCHANGED disk

------------------------------------------------------------------------------
\* What a connection does of itself once a statement has begun.
Goes(c) ==
    \/ JournalExists(c) \/ CheckReservedLock(c) \/ OpenHotJournal(c)
    \/ \E p \in Pages : RestorePage(c, p) \/ ReadPage(c, p) \/ WritePage(c, p)
    \/ Restored(c) \/ Settle(c) \/ Yield(c)
    \/ EndRead(c) \/ Exec(c)
    \/ OpenJournal(c) \/ Change(c) \/ Halt(c) \/ Commit(c) \/ Rollback(c)
    \/ Lower(c) \/ Leave(c)

\* What it does once a lock it asked for was given or refused.
Locks(c, o) ==
    \/ GetShared(c, o) \/ SharedBusy(c, o)
    \/ ClaimHotJournal(c, o)
    \/ Reserve(c, o) \/ ReserveBusy(c, o)
    \/ GetExclusive(c, o) \/ ExclusiveBusy(c, o)

Runs(c) == Goes(c) \/ Locks(c, Answer(c))

Next ==
    \/ \E c \in Conns :
          \/ Open(c) \/ Close(c) \/ \E k \in Kinds : Start(c, k)
          \/ Runs(c)
    \/ Crash

Spec == Init /\ [][Next]_vars

\* Every thread is scheduled and a loop over a select ends.
Fairness == \A c \in Conns : WF_vars(Runs(c)) /\ WF_vars(EndRead(c))
FairSpec == Spec /\ Fairness

------------------------------------------------------------------------------
(* Properties.                                                             *)

Places == {"closed", "idle", "gone", "shared", "exists", "checks", "claims", "opens",
           "restores", "settles", "yields", "reads", "leaves", "reserves", "journals",
           "changes", "commits", "writes", "erases", "lowers"}

\* The connections, the table of locks and the file.
TypeOK ==
    /\ at \in [Conns -> Places] /\ kind \in [Conns -> Kinds]
    /\ tries \in [Conns -> 0..Patience]
    /\ seen \in [Conns -> SUBSET (0..MaxCommits)]
    /\ new \in [Conns -> 0..MaxCommits]
    /\ lock \in [Conns -> Levels]
    /\ cnt \in 0..Cardinality(Conns) /\ type \in Levels
    /\ os \subseteq {"pending", "reserved", "read", "write"}
    /\ deferred \subseteq Conns
    /\ file \in [Pages -> 0..MaxCommits]
    /\ journal \in [Pages -> 0..MaxCommits] \cup {NoJournal}
    /\ commits \in 0..MaxCommits
    /\ ready \in BOOLEAN /\ crashes \in 0..MaxCrashes

\* Two threads never have locks that exclude each other, although to the
\* operating system they are one process.
Exclusion ==
    \A c, d \in Conns :
        c # d /\ lock[c] >= RESERVED_LOCK =>
            /\ lock[d] <= SHARED_LOCK
            /\ lock[c] = EXCLUSIVE_LOCK => lock[d] = NO_LOCK

Holders == {c \in Conns : lock[c] # NO_LOCK}

\* The table of locks says what the connections have, whoever waited, gave up,
\* failed to commit or is gone: no lock stays behind for which there is nobody.
LockInfoIsTrue ==
    /\ cnt = Cardinality(Holders)
    /\ \A c \in Conns : lock[c] <= type
    /\ type # NO_LOCK => \E c \in Conns : lock[c] = type

\* The process has the system's locks for all that its threads have, also when a
\* thread ends and the descriptor it closes would take them all along.
OsHolds ==
    /\ Holders # {} => os \cap {"read", "write"} # {}
    /\ \A c \in Conns :
          /\ lock[c] = RESERVED_LOCK => "reserved" \in os
          /\ lock[c] >= PENDING_LOCK => "pending" \in os
          /\ lock[c] = EXCLUSIVE_LOCK => "write" \in os

\* All the pages that a statement reads are of one commit, also after a crash
\* that left some pages of another.
OneCommit == \A c \in Conns, v, w \in 0..MaxCommits : {v, w} \subseteq seen[c] => v = w

\* No commit is lost and nothing of another is there: the file, or the journal
\* that it is restored from, has the pages of the last commit.
LastCommit ==
    IF journal = NoJournal THEN \A p \in Pages : file[p] = commits
    ELSE \A p \in Pages : journal[p] = commits

\* Every statement ends, if only with an error: threads do not wait for each
\* other for ever.
StatementsEnd ==
    \A c \in Conns : at[c] \notin {"closed", "idle", "gone"} ~> at[c] \in {"closed", "idle"}
==============================================================================
