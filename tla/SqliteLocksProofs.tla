-------------------------- MODULE SqliteLocksProofs --------------------------
(***************************************************************************)
(* Proofs about SqliteLocks, for any number of connections and pages, any  *)
(* patience of busy_handler and any number of commits and crashes.         *)
(*                                                                         *)
(* First the table of locks: what unixLock, unixUnlock and unixClose do to *)
(* it.  Then the places of the statements, which say with which lock each  *)
(* of those is called, and last the file and its journal: only a           *)
(* connection above SHARED has a journal, unless a crash left one, and     *)
(* then only the application thread is there.                              *)
(***************************************************************************)
EXTENDS SqliteLocks, FiniteSetTheorems, TLAPS

OsLocks == {"pending", "reserved", "read", "write"}

LockTypes ==
    /\ lock \in [Conns -> Levels]
    /\ cnt \in Nat /\ type \in Levels
    /\ os \subseteq OsLocks
    /\ deferred \subseteq Conns

\* What is true of the table of locks whoever uses it.
Table == LockTypes /\ Exclusion /\ LockInfoIsTrue /\ OsHolds

\* The lock that every place of a statement has.
LocksOfPlace(p) ==
    IF p \in {"closed", "idle", "gone", "shared"} THEN {NO_LOCK}
    ELSE IF p \in {"exists", "checks", "claims", "reads", "reserves", "leaves"} THEN {SHARED_LOCK}
    ELSE IF p \in {"journals", "changes"} THEN {RESERVED_LOCK}
    ELSE IF p = "commits" THEN {RESERVED_LOCK, PENDING_LOCK}
    ELSE IF p \in {"erases", "lowers"} THEN {RESERVED_LOCK, PENDING_LOCK, EXCLUSIVE_LOCK}
    ELSE IF p = "yields" THEN {SHARED_LOCK, PENDING_LOCK, EXCLUSIVE_LOCK}
    ELSE {EXCLUSIVE_LOCK}

Placed ==
    /\ at \in [Conns -> Places]
    /\ \A c \in Conns : lock[c] \in LocksOfPlace(at[c])

LocksInv == Table /\ Placed

------------------------------------------------------------------------------
(* The connections that hold a lock, counted.                              *)

LEMMA LevelNumbers ==
    /\ NO_LOCK = 0 /\ SHARED_LOCK = 1 /\ RESERVED_LOCK = 2
    /\ PENDING_LOCK = 3 /\ EXCLUSIVE_LOCK = 4
    /\ Levels = 0..4
BY DEF NO_LOCK, SHARED_LOCK, RESERVED_LOCK, PENDING_LOCK, EXCLUSIVE_LOCK, Levels

LEMMA HoldersFinite == IsFiniteSet(Holders) /\ Cardinality(Holders) \in Nat
<1>1. Holders \in SUBSET Conns
  BY DEF Holders
<1>2. IsFiniteSet(Holders)
  BY <1>1, ConnsFinite, FS_Subset
<1> QED BY <1>2, FS_CardinalityType

LEMMA NoHolder == Cardinality(Holders) = 0 => Holders = {}
BY HoldersFinite, FS_EmptySet

LEMMA OnlyHolder ==
    ASSUME NEW c \in Conns, c \in Holders, Cardinality(Holders) = 1
    PROVE  \A d \in Conns : d # c => lock[d] = NO_LOCK
<1>1. PICK x : Holders = {x}
  BY HoldersFinite, FS_Singleton
<1>2. Holders = {c}
  BY <1>1
<1> QED BY <1>2 DEF Holders

LEMMA OtherHolder ==
    ASSUME NEW c \in Conns, Cardinality(Holders) # 1, c \in Holders
    PROVE  \E d \in Conns : d # c /\ lock[d] # NO_LOCK
<1>1. Holders # {c}
  BY FS_Singleton
<1> QED BY <1>1 DEF Holders

\* One more, one less, as many.
LEMMA HoldersChange ==
    ASSUME NEW c \in Conns, \A d \in Conns : d # c => lock'[d] = lock[d]
    PROVE  Cardinality(Holders') =
             IF lock'[c] # NO_LOCK /\ lock[c] = NO_LOCK THEN Cardinality(Holders) + 1
             ELSE IF lock'[c] = NO_LOCK /\ lock[c] # NO_LOCK THEN Cardinality(Holders) - 1
             ELSE Cardinality(Holders)
<1>1. c \in Holders <=> lock[c] # NO_LOCK
  BY DEF Holders
<1>2. CASE lock'[c] # NO_LOCK
  <2>1. Holders' = Holders \cup {c}
    BY <1>2 DEF Holders
  <2> QED BY <1>1, <1>2, <2>1, HoldersFinite, FS_AddElement
<1>3. CASE lock'[c] = NO_LOCK
  <2>1. Holders' = Holders \ {c}
    BY <1>3 DEF Holders
  <2> QED BY <1>1, <1>3, <2>1, HoldersFinite, FS_RemoveElement
<1> QED BY <1>2, <1>3

------------------------------------------------------------------------------
(* The table of locks.                                                     *)

LEMMA LockGivesShared ==
    ASSUME Table, NEW c \in Conns, lock[c] = NO_LOCK,
           Outcome(c, SHARED_LOCK) = "ok", unixLock(c, SHARED_LOCK, "ok")
    PROVE  Table'
<1>1. type \in {NO_LOCK, SHARED_LOCK, RESERVED_LOCK}
  BY LevelNumbers DEF Table, LockTypes, Outcome
<1>2. lock' = [lock EXCEPT ![c] = SHARED_LOCK] /\ cnt' = cnt + 1
  BY DEF unixLock
<1>3. type' = IF type = NO_LOCK THEN SHARED_LOCK ELSE type
  BY <1>1, LevelNumbers DEF unixLock, Joins
<1>4. \A d \in Conns : lock'[d] = IF d = c THEN SHARED_LOCK ELSE lock[d]
  BY <1>2 DEF Table, LockTypes
<1>5. LockTypes'
  BY <1>1, <1>2, <1>3, LevelNumbers DEF Table, LockTypes, unixLock, OsLocks, Joins
<1>6. Exclusion'
  BY <1>1, <1>4, LevelNumbers DEF Table, LockTypes, Exclusion, LockInfoIsTrue
<1>7. LockInfoIsTrue'
  <2>1. Cardinality(Holders') = cnt'
    BY <1>2, <1>4, HoldersChange, LevelNumbers DEF Table, LockInfoIsTrue
  <2>2. \A d \in Conns : lock'[d] <= type'
    BY <1>1, <1>3, <1>4, LevelNumbers DEF Table, LockTypes, LockInfoIsTrue
  <2>3. \E d \in Conns : lock'[d] = type'
    BY <1>1, <1>3, <1>4, LevelNumbers DEF Table, LockTypes, LockInfoIsTrue
  <2> QED BY <2>1, <2>2, <2>3 DEF LockInfoIsTrue
<1>8. OsHolds'
  <2>1. type # NO_LOCK => Holders # {}
    BY DEF Table, LockInfoIsTrue, Holders
  <2>2. os \subseteq os'
    BY DEF unixLock
  <2>3. os' \cap {"read", "write"} # {}
    BY <1>1, <2>1, <2>2, LevelNumbers DEF Table, OsHolds, unixLock, Joins
  <2> QED BY <1>4, <2>2, <2>3, LevelNumbers DEF Table, OsHolds
<1> QED BY <1>5, <1>6, <1>7, <1>8 DEF Table

\* RESERVED, EXCLUSIVE, or the PENDING that a refused EXCLUSIVE leaves.
LEMMA LockGivesMore ==
    ASSUME Table, NEW c \in Conns, lock[c] # NO_LOCK,
           NEW t \in {RESERVED_LOCK, EXCLUSIVE_LOCK}, lock[c] < t,
           t = RESERVED_LOCK => lock[c] = SHARED_LOCK,
           Outcome(c, t) # "busy", unixLock(c, t, Outcome(c, t))
    PROVE  Table'
<1> DEFINE l == IF Outcome(c, t) = "ok" THEN t ELSE PENDING_LOCK
<1>1. lock[c] = type /\ lock[c] \in {SHARED_LOCK, RESERVED_LOCK, PENDING_LOCK}
  BY LevelNumbers DEF Table, LockTypes, Outcome
<1>2. lock' = [lock EXCEPT ![c] = l] /\ cnt' = cnt /\ type' = l /\ l \in Levels
  <2>1. Outcome(c, t) \in {"ok", "pending"} /\ t # SHARED_LOCK
    BY LevelNumbers DEF Outcome
  <2> QED BY <2>1, LevelNumbers DEF unixLock, Joins, Outcome
<1>3. \A d \in Conns : lock'[d] = IF d = c THEN l ELSE lock[d]
  BY <1>2 DEF Table, LockTypes
<1>4. \A d \in Conns : d # c => lock[d] <= SHARED_LOCK
  BY <1>1, LevelNumbers DEF Table, Exclusion, LockInfoIsTrue, LockTypes
<1>5. l = EXCLUSIVE_LOCK => \A d \in Conns : d # c => lock[d] = NO_LOCK
  <2>1. SUFFICES ASSUME l = EXCLUSIVE_LOCK
                 PROVE  \A d \in Conns : d # c => lock[d] = NO_LOCK
    OBVIOUS
  <2>2. c \in Holders
    BY DEF Holders
  <2>3. Cardinality(Holders) <= 1
    BY <2>1, LevelNumbers DEF Table, LockTypes, LockInfoIsTrue, Outcome
  <2>4. Cardinality(Holders) = 1
    BY <2>2, <2>3, HoldersFinite, NoHolder
  <2> QED BY <2>2, <2>4, OnlyHolder
<1>6. l > SHARED_LOCK
  BY LevelNumbers
<1>7. LockTypes'
  BY <1>2, LevelNumbers DEF Table, LockTypes, unixLock, OsLocks, Joins
<1>8. Exclusion'
  BY <1>3, <1>4, <1>5, <1>6, LevelNumbers DEF Exclusion, Table, LockTypes
<1>9. LockInfoIsTrue'
  <2>1. Cardinality(Holders') = cnt'
    BY <1>2, <1>3, <1>6, HoldersChange, LevelNumbers DEF Table, LockInfoIsTrue
  <2>2. \A d \in Conns : lock'[d] <= type'
    BY <1>2, <1>3, <1>4, <1>6, LevelNumbers DEF Table, LockTypes
  <2>3. lock'[c] = type'
    BY <1>2, <1>3
  <2> QED BY <2>1, <2>2, <2>3 DEF LockInfoIsTrue
<1>10. OsHolds'
  <2>1. Holders # {}
    BY DEF Holders
  <2>2. os' \cap {"read", "write"} # {}
    BY <2>1, LevelNumbers DEF Table, OsHolds, unixLock, Joins
  <2>3. /\ l = RESERVED_LOCK => "reserved" \in os'
        /\ l >= PENDING_LOCK => "pending" \in os'
        /\ l = EXCLUSIVE_LOCK => "write" \in os'
    BY LevelNumbers DEF unixLock, Outcome, Joins
  <2>4. \A d \in Conns : lock'[d] \in {NO_LOCK, SHARED_LOCK} \/ lock'[d] = l
    BY <1>3, <1>4, LevelNumbers DEF Table, LockTypes
  <2> QED BY <2>2, <2>3, <2>4, LevelNumbers DEF OsHolds
<1> QED BY <1>7, <1>8, <1>9, <1>10 DEF Table

LEMMA UnlockKeepsTable ==
    ASSUME Table, NEW c \in Conns, NEW t \in {NO_LOCK, SHARED_LOCK}, lock[c] > t,
           unixUnlock(c, t)
    PROVE  Table'
<1> DEFINE above == lock[c] > SHARED_LOCK
           last == t = NO_LOCK /\ cnt = 1
<1>1. /\ lock' = [lock EXCEPT ![c] = t]
      /\ cnt' = IF t = NO_LOCK THEN cnt - 1 ELSE cnt
      /\ type' = IF last THEN NO_LOCK ELSE IF above THEN SHARED_LOCK ELSE type
  BY DEF unixUnlock
<1>2. \A d \in Conns : lock'[d] = IF d = c THEN t ELSE lock[d]
  BY <1>1 DEF Table, LockTypes
<1>3. c \in Holders /\ lock[c] # NO_LOCK
  BY LevelNumbers DEF Holders, Table, LockTypes
<1>4. cnt > 0
  BY <1>3, NoHolder DEF Table, LockTypes, LockInfoIsTrue
<1>5. above => \A d \in Conns : d # c => lock[d] \in {NO_LOCK, SHARED_LOCK}
  BY LevelNumbers DEF Table, LockTypes, Exclusion
<1>6. last => \A d \in Conns : d # c => lock[d] = NO_LOCK
  BY <1>3, OnlyHolder DEF Table, LockInfoIsTrue
<1>7. t = NO_LOCK /\ ~last => \E d \in Conns : d # c /\ lock[d] # NO_LOCK
  BY <1>3, OtherHolder DEF Table, LockInfoIsTrue
<1>8. LockTypes'
  <2>1. lock' \in [Conns -> Levels] /\ cnt' \in Nat /\ type' \in Levels
    BY <1>1, <1>4, LevelNumbers DEF Table, LockTypes
  <2>2. os' \subseteq OsLocks /\ deferred' \subseteq Conns
    BY DEF Table, LockTypes, unixUnlock, OsLocks
  <2> QED BY <2>1, <2>2 DEF LockTypes
<1>9. Exclusion'
  BY <1>2, LevelNumbers DEF Table, LockTypes, Exclusion
<1>10. LockInfoIsTrue'
  <2>1. Cardinality(Holders') = cnt'
    BY <1>1, <1>2, <1>3, HoldersChange, LevelNumbers DEF Table, LockInfoIsTrue
  <2>2. \A d \in Conns : lock'[d] <= type'
    BY <1>1, <1>2, <1>5, <1>6, LevelNumbers DEF Table, LockTypes, LockInfoIsTrue
  <2>3. CASE t = SHARED_LOCK
    BY <1>1, <1>2, <2>2, <2>3, <2>1, LevelNumbers DEF LockInfoIsTrue
  <2>4. CASE t = NO_LOCK
    <3>1. CASE last
      BY <1>1, <2>1, <2>2, <3>1 DEF LockInfoIsTrue
    <3>2. CASE ~last /\ above
      <4>1. PICK d \in Conns : d # c /\ lock[d] # NO_LOCK
        BY <1>7, <2>4, <3>2
      <4>2. lock'[d] = type'
        BY <1>1, <1>2, <1>5, <3>2, <4>1
      <4> QED BY <2>1, <2>2, <4>2 DEF LockInfoIsTrue
    <3>3. CASE ~last /\ ~above
      <4>1. PICK d \in Conns : d # c /\ lock[d] # NO_LOCK
        BY <1>7, <2>4, <3>3
      <4>2. type' = type /\ lock[c] = SHARED_LOCK
        BY <1>1, <1>3, <3>3, LevelNumbers DEF Table, LockTypes
      <4>3. CASE type = SHARED_LOCK
        <5>1. lock'[d] = type'
          BY <1>2, <4>1, <4>2, <4>3, LevelNumbers DEF Table, LockTypes, LockInfoIsTrue
        <5> QED BY <2>1, <2>2, <5>1 DEF LockInfoIsTrue
      <4>4. CASE type # SHARED_LOCK
        <5>1. \E e \in Conns : e # c /\ lock[e] = type
          BY <1>3, <4>2, <4>4, LevelNumbers DEF Table, LockTypes, LockInfoIsTrue
        <5>2. \E e \in Conns : lock'[e] = type'
          BY <1>2, <4>2, <5>1
        <5> QED BY <2>1, <2>2, <5>2 DEF LockInfoIsTrue
      <4> QED BY <4>3, <4>4
    <3> QED BY <3>1, <3>2, <3>3
  <2> QED BY <2>3, <2>4
<1>11. OsHolds'
  <2>1. CASE last
    <3>1. Holders' = {} /\ \A d \in Conns : lock'[d] = NO_LOCK
      BY <1>2, <1>6, <2>1 DEF Holders
    <3> QED BY <3>1, LevelNumbers DEF OsHolds
  <2>2. CASE ~last
    <3>1. os \cap {"read", "write"} # {}
      BY <1>3 DEF Table, OsHolds
    <3>2. os' \cap {"read", "write"} # {}
      BY <2>2, <3>1 DEF unixUnlock
    <3>3. CASE above
      <4>1. \A d \in Conns : lock'[d] \in {NO_LOCK, SHARED_LOCK}
        BY <1>2, <1>5, <3>3
      <4> QED BY <3>2, <4>1, LevelNumbers DEF OsHolds
    <3>4. CASE ~above
      <4>1. os' = os
        BY <2>2, <3>4 DEF unixUnlock
      <4>2. \A d \in Conns : lock'[d] = lock[d] \/ lock'[d] \in {NO_LOCK, SHARED_LOCK}
        BY <1>2
      <4> QED BY <3>2, <4>1, <4>2, LevelNumbers DEF Table, OsHolds
    <3> QED BY <3>3, <3>4
  <2> QED BY <2>1, <2>2
<1> QED BY <1>8, <1>9, <1>10, <1>11 DEF Table

LEMMA CloseKeepsTable ==
    ASSUME Table, NEW c \in Conns, unixClose(c)
    PROVE  Table'
<1>1. UNCHANGED <<lock, cnt, type>>
  BY DEF unixClose
<1>2. LockTypes'
  BY DEF Table, LockTypes, unixClose
<1>3. Exclusion' /\ LockInfoIsTrue'
  BY <1>1 DEF Table, Exclusion, LockInfoIsTrue, Holders
<1>4. OsHolds'
  <2>1. CASE cnt > 0
    BY <1>1, <2>1 DEF Table, OsHolds, unixClose, Holders
  <2>2. CASE ~(cnt > 0)
    <3>1. Holders = {}
      BY <2>2, NoHolder DEF Table, LockTypes, LockInfoIsTrue
    <3>2. \A d \in Conns : lock[d] = NO_LOCK
      BY <3>1 DEF Holders
    <3> QED BY <1>1, <3>1, <3>2, LevelNumbers DEF OsHolds, Holders
  <2> QED BY <2>1, <2>2
<1> QED BY <1>2, <1>3, <1>4 DEF Table

LEMMA UnchangedTable == Table /\ UNCHANGED locks => Table'
BY DEF Table, locks, LockTypes, Exclusion, LockInfoIsTrue, OsHolds, Holders

------------------------------------------------------------------------------
(* The places of the statements.                                           *)

\* A connection goes to a place with the lock of that place.
LEMMA Arrives ==
    ASSUME LocksInv, NEW c \in Conns,
           at' = [at EXCEPT ![c] = at'[c]],
           at'[c] \in Places, lock'[c] \in LocksOfPlace(at'[c]),
           \A d \in Conns : d # c => lock'[d] = lock[d]
    PROVE  Placed'
<1>1. \A d \in Conns : d # c => at'[d] = at[d]
  BY DEF LocksInv, Placed
<1>2. at' \in [Conns -> Places]
  BY DEF LocksInv, Placed
<1>3. \A d \in Conns : lock'[d] \in LocksOfPlace(at'[d])
  BY <1>1, Zenon DEF LocksInv, Placed
<1> QED BY <1>2, <1>3 DEF Placed

\* It goes there with the lock it has.
LEMMA Walks ==
    ASSUME LocksInv, NEW c \in Conns, UNCHANGED locks,
           at' = [at EXCEPT ![c] = at'[c]],
           at'[c] \in Places, lock[c] \in LocksOfPlace(at'[c])
    PROVE  LocksInv'
<1>1. lock' = lock
  BY DEF locks
<1>2. Placed'
  BY <1>1, Arrives
<1> QED BY <1>2, UnchangedTable DEF LocksInv

\* What the place says of the lock.
LEMMA PlaceLock ==
    ASSUME LocksInv, NEW c \in Conns
    PROVE  /\ at[c] \in Places /\ lock[c] \in Levels
           /\ lock[c] \in LocksOfPlace(at[c])
BY DEF LocksInv, Placed, Table, LockTypes

LEMMA StepsInPlace ==
    ASSUME LocksInv, NEW c \in Conns,
           \/ \E p \in Pages : RestorePage(c, p) \/ ReadPage(c, p) \/ WritePage(c, p)
           \/ Change(c)
    PROVE  LocksInv'
<1>1. UNCHANGED locks /\ at' = at
  BY DEF RestorePage, ReadPage, WritePage, Change, statement
<1>2. Placed'
  BY <1>1 DEF LocksInv, Placed, locks
<1> QED BY <1>1, <1>2, UnchangedTable DEF LocksInv

LEMMA StepsThatWalk ==
    ASSUME LocksInv, NEW c \in Conns,
           \/ Open(c) \/ \E k \in Kinds : Start(c, k)
           \/ SharedBusy(c, Answer(c)) \/ JournalExists(c) \/ CheckReservedLock(c)
           \/ OpenHotJournal(c) \/ Restored(c) \/ EndRead(c) \/ Exec(c)
           \/ ReserveBusy(c, Answer(c)) \/ OpenJournal(c) \/ Halt(c)
           \/ Commit(c) \/ Rollback(c)
    PROVE  LocksInv'
<1> USE DEF LocksOfPlace, Places
<1>0. /\ at \in [Conns -> Places] /\ lock[c] \in LocksOfPlace(at[c])
      /\ at[c] \in Places
  BY DEF LocksInv, Placed
<1>1. CASE Open(c) \/ \E k \in Kinds : Start(c, k)
  BY <1>0, <1>1, Walks DEF Open, Start, Goto
<1>2. CASE SharedBusy(c, Answer(c))
  BY <1>0, <1>2, Walks DEF SharedBusy, Waits, GivesUp, Idle
<1>3. CASE JournalExists(c) \/ CheckReservedLock(c)
  BY <1>0, <1>3, Walks DEF JournalExists, CheckReservedLock, Goto, AfterShared
<1>4. CASE OpenHotJournal(c) \/ Restored(c)
  BY <1>0, <1>4, Walks DEF OpenHotJournal, Restored, Goto
<1>5. CASE EndRead(c) \/ Exec(c)
  BY <1>0, <1>5, Walks DEF EndRead, Exec, Goto
<1>6. CASE ReserveBusy(c, Answer(c))
  BY <1>0, <1>6, Walks DEF ReserveBusy, Goto
<1>7. CASE OpenJournal(c) \/ Halt(c)
  BY <1>0, <1>7, Walks DEF OpenJournal, Halt, Goto
<1>8. CASE Commit(c) \/ Rollback(c)
  BY <1>0, <1>8, Walks DEF Commit, Rollback, Goto
<1> QED BY <1>1, <1>2, <1>3, <1>4, <1>5, <1>6, <1>7, <1>8

LEMMA StepsThatLock ==
    ASSUME LocksInv, NEW c \in Conns,
           \/ GetShared(c, Answer(c)) \/ ClaimHotJournal(c, Answer(c))
           \/ Reserve(c, Answer(c)) \/ GetExclusive(c, Answer(c))
           \/ ExclusiveBusy(c, Answer(c))
    PROVE  LocksInv'
<1>0. /\ at \in [Conns -> Places] /\ lock \in [Conns -> Levels]
      /\ lock[c] \in LocksOfPlace(at[c]) /\ Table
  BY DEF LocksInv, Placed, Table, LockTypes
<1>1. CASE GetShared(c, Answer(c))
  <2>1. /\ lock[c] = NO_LOCK /\ Outcome(c, SHARED_LOCK) = "ok"
        /\ unixLock(c, SHARED_LOCK, "ok") /\ at' = [at EXCEPT ![c] = "exists"]
    BY <1>0, <1>1 DEF GetShared, Goto, Answer, Wanted, LocksOfPlace
  <2>2. lock' = [lock EXCEPT ![c] = SHARED_LOCK]
    BY <2>1 DEF unixLock
  <2>3. Table'
    BY <1>0, <2>1, LockGivesShared
  <2>4. Placed'
    BY <1>0, <2>1, <2>2, Arrives DEF LocksOfPlace, Places
  <2> QED BY <2>3, <2>4 DEF LocksInv
<1>2. CASE Reserve(c, Answer(c))
  <2>1. /\ lock[c] = SHARED_LOCK /\ Outcome(c, RESERVED_LOCK) = "ok"
        /\ unixLock(c, RESERVED_LOCK, "ok") /\ at' = [at EXCEPT ![c] = "journals"]
    BY <1>0, <1>2 DEF Reserve, Goto, Answer, Wanted, LocksOfPlace
  <2>2. lock' = [lock EXCEPT ![c] = RESERVED_LOCK]
    BY <2>1 DEF unixLock
  <2>3. Table'
    BY <1>0, <2>1, LockGivesMore, LevelNumbers
  <2>4. Placed'
    BY <1>0, <2>1, <2>2, Arrives DEF LocksOfPlace, Places
  <2> QED BY <2>3, <2>4 DEF LocksInv
<1>3. CASE ClaimHotJournal(c, Answer(c))
  <2>1. /\ lock[c] = SHARED_LOCK /\ Answer(c) = Outcome(c, EXCLUSIVE_LOCK)
        /\ at' = [at EXCEPT ![c] = IF Answer(c) = "ok" THEN "opens" ELSE "yields"]
    BY <1>0, <1>3 DEF ClaimHotJournal, Goto, Answer, Wanted, LocksOfPlace
  <2>2. CASE Answer(c) = "busy"
    BY <1>0, <1>3, <2>1, <2>2, Walks DEF ClaimHotJournal, LocksOfPlace, Places
  <2>3. CASE Answer(c) # "busy"
    <3>1. unixLock(c, EXCLUSIVE_LOCK, Outcome(c, EXCLUSIVE_LOCK))
      BY <1>3, <2>1, <2>3 DEF ClaimHotJournal
    <3>2. lock' = [lock EXCEPT ![c] = IF Answer(c) = "ok" THEN EXCLUSIVE_LOCK ELSE PENDING_LOCK]
      BY <2>1, <3>1 DEF unixLock
    <3>3. Table'
      BY <1>0, <2>1, <2>3, <3>1, LockGivesMore, LevelNumbers
    <3>4. Placed'
      BY <1>0, <2>1, <3>2, Arrives DEF LocksOfPlace, Places
    <3> QED BY <3>3, <3>4 DEF LocksInv
  <2> QED BY <2>2, <2>3
<1>4. CASE GetExclusive(c, Answer(c))
  <2>1. /\ lock[c] \in {RESERVED_LOCK, PENDING_LOCK} /\ Outcome(c, EXCLUSIVE_LOCK) = "ok"
        /\ unixLock(c, EXCLUSIVE_LOCK, "ok") /\ at' = [at EXCEPT ![c] = "writes"]
    BY <1>0, <1>4 DEF GetExclusive, Goto, Answer, Wanted, LocksOfPlace
  <2>2. lock' = [lock EXCEPT ![c] = EXCLUSIVE_LOCK]
    BY <2>1 DEF unixLock
  <2>3. Table'
    BY <1>0, <2>1, LockGivesMore, LevelNumbers
  <2>4. Placed'
    BY <1>0, <2>1, <2>2, Arrives DEF LocksOfPlace, Places
  <2> QED BY <2>3, <2>4 DEF LocksInv
<1>5. CASE ExclusiveBusy(c, Answer(c))
  <2>1. /\ lock[c] \in {RESERVED_LOCK, PENDING_LOCK} /\ Answer(c) = Outcome(c, EXCLUSIVE_LOCK)
        /\ Answer(c) # "ok" /\ at' = [at EXCEPT ![c] = at'[c]]
        /\ at'[c] \in {"commits", "erases"}
    BY <1>0, <1>5 DEF ExclusiveBusy, Goto, Answer, Wanted, LocksOfPlace
  <2>2. CASE Answer(c) = "busy"
    BY <1>0, <1>5, <2>1, <2>2, Walks DEF ExclusiveBusy, LocksOfPlace, Places
  <2>3. CASE Answer(c) # "busy"
    <3>1. unixLock(c, EXCLUSIVE_LOCK, Outcome(c, EXCLUSIVE_LOCK))
      BY <1>5, <2>1, <2>3 DEF ExclusiveBusy
    <3>2. lock' = [lock EXCEPT ![c] = PENDING_LOCK]
      BY <2>1, <3>1 DEF unixLock
    <3>3. Table'
      BY <1>0, <2>1, <2>3, <3>1, LockGivesMore, LevelNumbers
    <3>4. Placed'
      BY <1>0, <2>1, <3>2, Arrives DEF LocksOfPlace, Places
    <3> QED BY <3>3, <3>4 DEF LocksInv
  <2> QED BY <2>2, <2>3
<1> QED BY <1>1, <1>2, <1>3, <1>4, <1>5

LEMMA StepsThatUnlock ==
    ASSUME LocksInv, NEW c \in Conns,
           Settle(c) \/ Lower(c) \/ Yield(c) \/ Leave(c)
    PROVE  LocksInv'
<1>0. /\ at \in [Conns -> Places] /\ lock \in [Conns -> Levels]
      /\ lock[c] \in LocksOfPlace(at[c]) /\ Table
  BY DEF LocksInv, Placed, Table, LockTypes
<1>1. CASE Settle(c) \/ Lower(c)
  <2>1. /\ lock[c] > SHARED_LOCK /\ unixUnlock(c, SHARED_LOCK)
        /\ at' = [at EXCEPT ![c] = at'[c]] /\ at'[c] \in {"leaves", "reads", "reserves"}
    BY <1>0, <1>1, LevelNumbers DEF Settle, Lower, Goto, LocksOfPlace, AfterShared
  <2>2. lock' = [lock EXCEPT ![c] = SHARED_LOCK]
    BY <2>1 DEF unixUnlock
  <2>3. Table'
    BY <1>0, <2>1, UnlockKeepsTable
  <2>4. Placed'
    BY <1>0, <2>1, <2>2, Arrives DEF LocksOfPlace, Places
  <2> QED BY <2>3, <2>4 DEF LocksInv
<1>2. CASE Yield(c) \/ Leave(c)
  <2>1. /\ lock[c] > NO_LOCK /\ unixUnlock(c, NO_LOCK)
        /\ at' = [at EXCEPT ![c] = at'[c]] /\ at'[c] \in {"idle", "shared"}
    BY <1>0, <1>2, LevelNumbers DEF Yield, Leave, Goto, LocksOfPlace, GivesUp, Idle
  <2>2. lock' = [lock EXCEPT ![c] = NO_LOCK]
    BY <2>1 DEF unixUnlock
  <2>3. Table'
    BY <1>0, <2>1, UnlockKeepsTable
  <2>4. Placed'
    BY <1>0, <2>1, <2>2, Arrives DEF LocksOfPlace, Places
  <2> QED BY <2>3, <2>4 DEF LocksInv
<1> QED BY <1>1, <1>2

LEMMA CloseKeeps ==
    ASSUME LocksInv, NEW c \in Conns, Close(c)
    PROVE  LocksInv'
<1>1. Table'
  BY CloseKeepsTable DEF LocksInv, Close
<1>2. Placed'
  BY Arrives DEF LocksInv, Placed, Close, Goto, unixClose, LocksOfPlace, Places
<1> QED BY <1>1, <1>2 DEF LocksInv

\* Nobody has a lock when the process begins.
LEMMA Afresh ==
    ASSUME lock = [c \in Conns |-> NO_LOCK], at = [c \in Conns |-> "closed"],
           cnt = 0, type = NO_LOCK, os = {}, deferred = {}
    PROVE  LocksInv
<1>1. Holders = {} /\ Cardinality(Holders) = 0
  BY FS_EmptySet DEF Holders
<1>2. LockTypes /\ Exclusion /\ LockInfoIsTrue /\ OsHolds
  BY <1>1, LevelNumbers DEF LockTypes, Exclusion, LockInfoIsTrue, OsHolds
<1>3. Placed
  BY DEF Placed, Places, LocksOfPlace
<1> QED BY <1>2, <1>3 DEF LocksInv, Table

LEMMA CrashKeeps ==
    ASSUME Crash
    PROVE  LocksInv'
<1>1. /\ lock' = [c \in Conns |-> NO_LOCK] /\ at' = [c \in Conns |-> "closed"]
      /\ cnt' = 0 /\ type' = NO_LOCK /\ os' = {} /\ deferred' = {}
  BY DEF Crash
<1>2. Holders' = {} /\ Cardinality(Holders') = 0
  BY <1>1, FS_EmptySet DEF Holders
<1>3. LockTypes' /\ Exclusion' /\ LockInfoIsTrue' /\ OsHolds'
  BY <1>1, <1>2, LevelNumbers DEF LockTypes, Exclusion, LockInfoIsTrue, OsHolds
<1>4. Placed'
  BY <1>1 DEF Placed, Places, LocksOfPlace
<1> QED BY <1>3, <1>4 DEF LocksInv, Table

LEMMA LocksStep == LocksInv /\ [Next]_vars => LocksInv'
<1> SUFFICES ASSUME LocksInv, [Next]_vars PROVE LocksInv'
  OBVIOUS
<1>1. CASE Crash
  BY <1>1, CrashKeeps
<1>2. CASE UNCHANGED vars
  <2>1. UNCHANGED locks /\ at' = at
    BY <1>2 DEF vars, statement
  <2>2. Placed'
    BY <2>1 DEF LocksInv, Placed, locks
  <2> QED BY <2>1, <2>2, UnchangedTable DEF LocksInv
<1>3. ASSUME NEW c \in Conns,
             Open(c) \/ Close(c) \/ (\E k \in Kinds : Start(c, k)) \/ Goes(c)
      PROVE  LocksInv'
  BY <1>3, CloseKeeps, StepsInPlace, StepsThatWalk, StepsThatUnlock DEF Goes
<1>4. ASSUME NEW c \in Conns, Locks(c, Answer(c))
      PROVE  LocksInv'
  BY <1>4, StepsThatWalk, StepsThatLock DEF Locks
<1> QED BY <1>1, <1>2, <1>3, <1>4 DEF Next, Runs

LEMMA LocksHold == Spec => []LocksInv
<1>1. Init => LocksInv
  BY Afresh DEF Init
<1> QED BY <1>1, LocksStep, PTL DEF Spec

\* No two threads have locks that exclude each other (unixLock, os_unix.c).
THEOREM ThreadsExcludeEachOther == Spec => []Exclusion
<1>1. LocksInv => Exclusion
  BY DEF LocksInv, Table
<1> QED BY <1>1, LocksHold, PTL

\* The table counts the locks that there are and says which is the highest
\* (struct lockInfo, os_unix.c), whatever waits, fails or ends.
THEOREM LockTableIsTrue == Spec => []LockInfoIsTrue
<1>1. LocksInv => LockInfoIsTrue
  BY DEF LocksInv, Table
<1> QED BY <1>1, LocksHold, PTL

\* The process keeps the system's locks while one of its threads needs them
\* (unixClose, os_unix.c).
THEOREM ProcessKeepsItsLocks == Spec => []OsHolds
<1>1. LocksInv => OsHolds
  BY DEF LocksInv, Table
<1> QED BY <1>1, LocksHold, PTL

------------------------------------------------------------------------------
(* The file and its journal.                                               *)
(*                                                                         *)
(* The pages of the file are of the last commit or of the one being made,  *)
(* and while some are of the latter the journal has the former.  A journal *)
(* belongs to a connection that holds more than SHARED, or a crash left    *)
(* it: then only the application thread is there, whose first statement    *)
(* restores the file before it reads it.                                   *)

\* All pages of the last commit.
Clean == [p \in Pages |-> commits]

Disk ==
    /\ commits \in 0..MaxCommits
    /\ file \in [Pages -> 0..MaxCommits]
    /\ \A p \in Pages : file[p] \in {commits, commits + 1}
    /\ journal \in {NoJournal, Clean}
    /\ journal = NoJournal => file = Clean

\* What a connection has written, and what it is about to.
Writer(c) ==
    /\ at[c] \in {"journals", "lowers", "settles"} => journal = NoJournal
    /\ at[c] \in {"changes", "commits", "writes", "erases", "restores"} => journal = Clean
    /\ at[c] \in {"changes", "commits", "erases"} => file = Clean
    /\ at[c] \in {"commits", "writes"} => new[c] = commits + 1
    /\ at[c] = "changes" => new[c] \in {0, commits + 1}
    /\ at[c] \notin {"changes", "commits", "writes", "lowers", "leaves"} => new[c] = 0

Journalling == {"changes", "commits", "writes", "erases"}

\* Places of the application thread while the journal of a crash is there.
Recovering == {"closed", "idle", "gone", "shared", "exists", "checks", "claims", "opens",
               "restores", "yields"}

Recovery ==
    /\ ~ready => \A c \in Conns \ {Builder} : at[c] = "closed"
    /\ journal # NoJournal =>
          \/ \E c \in Conns : at[c] \in Journalling
          \/ ~ready /\ at[Builder] \in Recovering

\* Nothing is read before the lock and the journal are settled, and nothing of
\* another commit after that.
Reader(c) ==
    /\ at[c] \in Recovering \cup {"settles"} => seen[c] = {}
    /\ at[c] \in {"reads", "reserves", "journals"} \cup Journalling => seen[c] \subseteq {commits}
    /\ \A v, w \in seen[c] : v = w
    /\ kind[c] = "write" => seen[c] = {} /\ at[c] # "reads"

Statements ==
    /\ kind \in [Conns -> Kinds]
    /\ tries \in [Conns -> 0..Patience]
    /\ seen \in [Conns -> SUBSET (0..MaxCommits)]
    /\ new \in [Conns -> 0..MaxCommits]
    /\ ready \in BOOLEAN /\ crashes \in 0..MaxCrashes

DiskInv ==
    /\ Disk /\ Recovery
    /\ \A c \in Conns : Writer(c) /\ Reader(c)

IInv == LocksInv /\ Statements /\ DiskInv

------------------------------------------------------------------------------
(* What one connection's place says of the others.                         *)

LEMMA JournalIsThere == Disk => NoJournal # Clean
<1> SUFFICES ASSUME Disk PROVE NoJournal # Clean
  OBVIOUS
<1>1. PICK p \in Pages : TRUE
  BY PagesExist
<1>2. NoJournal[p] = MaxCommits + 1 /\ Clean[p] = commits
  BY DEF NoJournal, Clean
<1>3. commits <= MaxCommits /\ commits \in Nat /\ MaxCommits \in Nat
  BY BoundsNat DEF Disk
<1> QED BY <1>2, <1>3

\* Beside a connection above SHARED no other has a journal, and beside one that
\* writes the file no other has a lock.
LEMMA Alone ==
    ASSUME LocksInv, NEW c \in Conns, NEW d \in Conns, c # d
    PROVE  /\ at[c] \in {"journals", "changes", "commits", "writes", "erases", "lowers",
                         "opens", "restores", "settles"}
              => at[d] \in {"closed", "idle", "gone", "shared", "exists", "checks", "claims",
                           "reads", "reserves", "leaves", "yields"}
           /\ at[c] \in {"writes", "opens", "restores", "settles"}
              => at[d] \in {"closed", "idle", "gone", "shared"}
<1>1. /\ at[c] \in Places /\ lock[c] \in Levels /\ lock[c] \in LocksOfPlace(at[c])
      /\ at[d] \in Places /\ lock[d] \in Levels /\ lock[d] \in LocksOfPlace(at[d])
  BY PlaceLock
<1>2. lock[c] >= RESERVED_LOCK =>
          lock[d] <= SHARED_LOCK /\ (lock[c] = EXCLUSIVE_LOCK => lock[d] = NO_LOCK)
  BY DEF LocksInv, Table, Exclusion
<1>3. lock[d] <= SHARED_LOCK =>
          at[d] \in {"closed", "idle", "gone", "shared", "exists", "checks", "claims",
                    "reads", "reserves", "leaves", "yields"}
  BY <1>1, LevelNumbers DEF LocksOfPlace, Places
<1>4. lock[d] = NO_LOCK => at[d] \in {"closed", "idle", "gone", "shared"}
  BY <1>1, LevelNumbers DEF LocksOfPlace, Places
<1>5. at[c] \in {"journals", "changes", "commits", "writes", "erases", "lowers",
                "opens", "restores", "settles"} => lock[c] >= RESERVED_LOCK
  BY <1>1, LevelNumbers DEF LocksOfPlace
<1>6. at[c] \in {"writes", "opens", "restores", "settles"} => lock[c] = EXCLUSIVE_LOCK
  BY <1>1 DEF LocksOfPlace
<1> QED BY <1>2, <1>3, <1>4, <1>5, <1>6, LevelNumbers

Hot == journal # NoJournal /\ \A d \in Conns : at[d] \notin Journalling

\* With a journal that a crash left, only the application thread is there.
LEMMA HotPlaces ==
    ASSUME IInv, Hot
    PROVE  /\ ~ready /\ at[Builder] \in Recovering
           /\ \A d \in Conns : d # Builder => at[d] = "closed"
BY DEF IInv, DiskInv, Recovery, Hot

\* A connection that may read the pages finds those of the last commit.
LEMMA ReadsClean ==
    ASSUME IInv, NEW c \in Conns, at[c] \in {"reads", "reserves"}
    PROVE  file = Clean
<1>1. CASE journal = NoJournal
  BY <1>1 DEF IInv, DiskInv, Disk
<1>2. CASE journal # NoJournal
  <2>1. ~Hot
    BY HotPlaces, BuilderIsAConn DEF Recovering
  <2>2. PICK d \in Conns : at[d] \in Journalling
    BY <1>2, <2>1 DEF Hot
  <2>3. d # c /\ LocksInv
    BY <2>2 DEF Journalling, IInv
  <2>4. at[d] # "writes"
    BY <2>3, Alone
  <2> QED BY <2>2, <2>4 DEF IInv, DiskInv, Writer, Journalling
<1> QED BY <1>1, <1>2

\* Only one connection takes a step.
Others(c) ==
    \A d \in Conns : d # c =>
        at'[d] = at[d] /\ kind'[d] = kind[d] /\ seen'[d] = seen[d] /\ new'[d] = new[d]

\* A step that leaves the disk alone.
LEMMA DiskWalks ==
    ASSUME IInv, NEW c \in Conns, Others(c), UNCHANGED disk, UNCHANGED ready,
           at[c] # "closed" \/ c = Builder \/ ready,
           at[c] \in Journalling => at'[c] \in Journalling,
           Hot /\ c = Builder => at'[c] \in Recovering,
           Writer(c)', Reader(c)'
    PROVE  DiskInv'
<1>1. file' = file /\ journal' = journal /\ commits' = commits
  BY DEF disk
<1>2. Disk'
  BY <1>1 DEF IInv, DiskInv, Disk, Clean
<1>3. ASSUME NEW d \in Conns
      PROVE  Writer(d)' /\ Reader(d)'
  <2>1. CASE d = c
    BY <2>1
  <2>2. CASE d # c
    <3>1. Writer(d) /\ Reader(d)
      BY DEF IInv, DiskInv
    <3>2. /\ at'[d] = at[d] /\ kind'[d] = kind[d]
          /\ seen'[d] = seen[d] /\ new'[d] = new[d]
      BY <2>2 DEF Others
    <3>3. Writer(d)'
      BY <1>1, <3>1, <3>2 DEF Writer, Clean
    <3>4. Reader(d)'
      BY <1>1, <3>1, <3>2 DEF Reader
    <3> QED BY <3>3, <3>4
  <2> QED BY <2>1, <2>2
<1>4. Recovery'
  <2>1. ~ready => \A d \in Conns \ {Builder} : at'[d] = "closed"
    BY DEF IInv, DiskInv, Recovery, Others
  <2>2. ASSUME journal # NoJournal
        PROVE  \/ \E d \in Conns : at'[d] \in Journalling
               \/ ~ready /\ at'[Builder] \in Recovering
    <3>1. CASE Hot
      <4>1. ~ready /\ at[Builder] \in Recovering
        BY <3>1, HotPlaces
      <4>2. at'[Builder] \in Recovering
        BY <3>1, <4>1, BuilderIsAConn DEF Others
      <4> QED BY <4>1, <4>2
    <3>2. CASE ~Hot
      <4>1. PICK d \in Conns : at[d] \in Journalling
        BY <2>2, <3>2 DEF Hot
      <4>2. at'[d] \in Journalling
        BY <4>1 DEF Others
      <4> QED BY <4>2
    <3> QED BY <3>1, <3>2
  <2> QED BY <1>1, <2>1, <2>2 DEF Recovery
<1> QED BY <1>2, <1>3, <1>4 DEF DiskInv

\* The others beside one that changes the disk.
LEMMA Beside ==
    ASSUME IInv, NEW c \in Conns, Others(c),
           \/ at[c] \in {"journals", "erases"} /\ commits' = commits
           \/ at[c] \in {"writes", "restores"}
    PROVE  \A d \in Conns : d # c => Writer(d)' /\ Reader(d)'
<1> SUFFICES ASSUME NEW d \in Conns, d # c
             PROVE  Writer(d)' /\ Reader(d)'
  OBVIOUS
<1>1. /\ at[d] \in {"closed", "idle", "gone", "shared", "exists", "checks", "claims",
                    "reads", "reserves", "leaves", "yields"}
      /\ commits' = commits \/ at[d] \in {"closed", "idle", "gone", "shared"}
  BY Alone DEF IInv
<1>2. /\ at'[d] = at[d] /\ kind'[d] = kind[d] /\ seen'[d] = seen[d] /\ new'[d] = new[d]
      /\ Writer(d) /\ Reader(d)
  BY DEF Others, IInv, DiskInv
<1>3. Writer(d)'
  BY <1>1, <1>2 DEF Writer
<1>4. Reader(d)'
  BY <1>1, <1>2 DEF Reader, Recovering, Journalling
<1> QED BY <1>3, <1>4

------------------------------------------------------------------------------
(* The steps.                                                              *)

\* What a step knows of its connection.
LEMMA Known ==
    ASSUME IInv, NEW c \in Conns
    PROVE  /\ at \in [Conns -> Places] /\ kind \in [Conns -> Kinds]
           /\ tries \in [Conns -> 0..Patience]
           /\ seen \in [Conns -> SUBSET (0..MaxCommits)]
           /\ new \in [Conns -> 0..MaxCommits]
           /\ Writer(c) /\ Reader(c) /\ Disk
           /\ commits \in 0..MaxCommits /\ MaxCommits \in Nat
BY BoundsNat DEF IInv, LocksInv, Placed, Statements, DiskInv, Disk

\* To the idle place, whether done or not.
LEMMA BecomesIdle ==
    ASSUME IInv, NEW c \in Conns, Idle(c), UNCHANGED <<disk, ready>>,
           at[c] \in {"shared", "yields"}
    PROVE  DiskInv'
<1>1. Others(c) /\ at'[c] = "idle" /\ kind'[c] = "read" /\ seen'[c] = {} /\ new'[c] = 0
  BY Known DEF Idle, Others
<1>2. Writer(c)' /\ Reader(c)'
  BY <1>1 DEF Writer, Reader, Journalling, Recovering
<1> QED BY <1>1, <1>2, DiskWalks DEF Journalling, Recovering

\* Before a page is read.
LEMMA DiskBefore ==
    ASSUME IInv, NEW c \in Conns,
           \/ Open(c) \/ Close(c) \/ \E k \in Kinds : Start(c, k)
           \/ GetShared(c, Answer(c)) \/ SharedBusy(c, Answer(c))
           \/ ClaimHotJournal(c, Answer(c)) \/ Yield(c)
    PROVE  DiskInv'
<1>0. at \in [Conns -> Places] /\ kind \in [Conns -> Kinds] /\ Writer(c) /\ Reader(c)
  BY Known
<1>1. CASE Open(c)
  <2>1. Others(c) /\ at[c] = "closed" /\ at'[c] = "idle" /\ UNCHANGED <<kind, seen, new>>
    BY <1>0, <1>1 DEF Open, Goto, Others
  <2>2. Writer(c)' /\ Reader(c)'
    BY <1>0, <2>1 DEF Writer, Reader, Journalling, Recovering
  <2>3. UNCHANGED <<disk, ready>> /\ (c = Builder \/ ready)
    BY <1>1 DEF Open
  <2> QED BY <2>1, <2>2, <2>3, DiskWalks DEF Journalling, Recovering
<1>2. CASE Close(c)
  <2>1. Others(c) /\ at[c] = "idle" /\ at'[c] = "gone" /\ UNCHANGED <<kind, seen, new>>
    BY <1>0, <1>2 DEF Close, Goto, Others
  <2>2. Writer(c)' /\ Reader(c)'
    BY <1>0, <2>1 DEF Writer, Reader, Journalling, Recovering
  <2>3. UNCHANGED <<disk, ready>>
    BY <1>2 DEF Close
  <2> QED BY <2>1, <2>2, <2>3, DiskWalks DEF Journalling, Recovering
<1>3. CASE \E k \in Kinds : Start(c, k)
  <2>1. /\ Others(c) /\ at[c] = "idle" /\ at'[c] = "shared" /\ UNCHANGED <<seen, new>>
    BY <1>0, <1>3 DEF Start, Goto, Others
  <2>2. Writer(c)' /\ Reader(c)'
    BY <1>0, <2>1 DEF Writer, Reader, Journalling, Recovering
  <2>3. UNCHANGED <<disk, ready>>
    BY <1>3 DEF Start
  <2> QED BY <2>1, <2>2, <2>3, DiskWalks DEF Journalling, Recovering
<1>4. CASE GetShared(c, Answer(c))
  <2>1. /\ Others(c) /\ at[c] = "shared" /\ at'[c] = "exists" /\ UNCHANGED <<kind, seen, new>>
    BY <1>0, <1>4 DEF GetShared, Goto, Others
  <2>2. Writer(c)' /\ Reader(c)'
    BY <1>0, <2>1 DEF Writer, Reader, Journalling, Recovering
  <2>3. UNCHANGED <<disk, ready>>
    BY <1>4 DEF GetShared
  <2> QED BY <2>1, <2>2, <2>3, DiskWalks DEF Journalling, Recovering
<1>5. CASE SharedBusy(c, Answer(c))
  <2>1. UNCHANGED <<disk, ready>> /\ at[c] = "shared"
    BY <1>5 DEF SharedBusy
  <2>2. CASE Idle(c)
    BY <2>1, <2>2, BecomesIdle
  <2>3. CASE UNCHANGED <<at, kind, seen, new>>
    <3>1. Others(c) /\ Writer(c)' /\ Reader(c)'
      BY <1>0, <2>1, <2>3 DEF Others, Writer, Reader, Journalling, Recovering
    <3> QED BY <2>1, <2>3, <3>1, DiskWalks DEF Journalling, Recovering
  <2> QED BY <1>5, <2>2, <2>3 DEF SharedBusy, GivesUp
<1>6. CASE ClaimHotJournal(c, Answer(c))
  <2>1. /\ Others(c) /\ at[c] = "claims" /\ at'[c] \in {"opens", "yields"}
        /\ UNCHANGED <<kind, seen, new>>
    BY <1>0, <1>6 DEF ClaimHotJournal, Goto, Others
  <2>2. Writer(c)' /\ Reader(c)'
    BY <1>0, <2>1 DEF Writer, Reader, Journalling, Recovering
  <2>3. UNCHANGED <<disk, ready>>
    BY <1>6 DEF ClaimHotJournal
  <2> QED BY <2>1, <2>2, <2>3, DiskWalks DEF Journalling, Recovering
<1>7. CASE Yield(c)
  <2>1. UNCHANGED <<disk, ready>> /\ at[c] = "yields"
    BY <1>7 DEF Yield
  <2>2. CASE Idle(c)
    BY <2>1, <2>2, BecomesIdle
  <2>3. CASE Goto(c, "yields", "shared") /\ UNCHANGED <<kind, seen, new>>
    <3>1. Others(c) /\ at'[c] = "shared"
      BY <1>0, <2>3 DEF Others, Goto
    <3>2. Writer(c)' /\ Reader(c)'
      BY <1>0, <2>1, <2>3, <3>1 DEF Writer, Reader, Journalling, Recovering
    <3> QED BY <2>1, <3>1, <3>2, DiskWalks DEF Journalling, Recovering
  <2> QED BY <1>7, <2>2, <2>3 DEF Yield, GivesUp
<1> QED BY <1>1, <1>2, <1>3, <1>4, <1>5, <1>6, <1>7

\* The application thread finds the journal that a crash left: nobody has more
\* than the SHARED lock that it has itself.
LEMMA HotIsSeen ==
    ASSUME IInv, NEW c \in Conns, Hot, c = Builder, at[c] \in {"checks"}
    PROVE  type <= SHARED_LOCK
<1>1. \A d \in Conns : lock[d] \in LocksOfPlace(at[d])
  BY DEF IInv, LocksInv, Placed
<1>2. \A d \in Conns : lock[d] \in {NO_LOCK, SHARED_LOCK}
  BY <1>1, HotPlaces DEF LocksOfPlace
<1> QED BY <1>2, LevelNumbers DEF IInv, LocksInv, Table, LockTypes, LockInfoIsTrue

LEMMA DiskJournalSeen ==
    ASSUME IInv, NEW c \in Conns,
           JournalExists(c) \/ CheckReservedLock(c) \/ OpenHotJournal(c) \/ Settle(c)
    PROVE  DiskInv'
<1>0. /\ at \in [Conns -> Places] /\ kind \in [Conns -> Kinds] /\ Writer(c) /\ Reader(c)
      /\ Disk /\ AfterShared(c) = IF kind[c] = "write" THEN "reserves" ELSE "reads"
  BY Known DEF AfterShared
<1>1. CASE JournalExists(c)
  <2>1. /\ Others(c) /\ at[c] = "exists"
        /\ at'[c] = IF journal = NoJournal THEN AfterShared(c) ELSE "checks"
        /\ UNCHANGED <<kind, seen, new, disk, ready>>
    BY <1>0, <1>1 DEF JournalExists, Goto, Others
  <2>2. Writer(c)' /\ Reader(c)'
    BY <1>0, <2>1 DEF Writer, Reader, Journalling, Recovering
  <2> QED BY <2>1, <2>2, DiskWalks DEF Journalling, Recovering, Hot
<1>2. CASE CheckReservedLock(c)
  <2>1. /\ Others(c) /\ at[c] = "checks"
        /\ at'[c] = IF type > SHARED_LOCK THEN AfterShared(c) ELSE "claims"
        /\ UNCHANGED <<kind, seen, new, disk, ready>>
    BY <1>0, <1>2 DEF CheckReservedLock, Goto, Others
  <2>2. Writer(c)' /\ Reader(c)'
    BY <1>0, <2>1 DEF Writer, Reader, Journalling, Recovering
  <2>3. Hot /\ c = Builder => at'[c] = "claims"
    BY <2>1, HotIsSeen, LevelNumbers DEF IInv, LocksInv, Table, LockTypes
  <2> QED BY <2>1, <2>2, <2>3, DiskWalks DEF Journalling, Recovering
<1>3. CASE OpenHotJournal(c)
  <2>1. /\ Others(c) /\ at[c] = "opens"
        /\ at'[c] = IF journal = NoJournal THEN "yields" ELSE "restores"
        /\ UNCHANGED <<kind, seen, new, disk, ready>>
    BY <1>0, <1>3 DEF OpenHotJournal, Goto, Others
  <2>2. journal # NoJournal => journal = Clean
    BY <1>0 DEF Disk
  <2>3. UNCHANGED <<journal, commits>>
    BY <2>1 DEF disk
  <2>4. Writer(c)' /\ Reader(c)'
    BY <1>0, <2>1, <2>2, <2>3 DEF Writer, Reader, Journalling, Recovering, Clean
  <2> QED BY <2>1, <2>4, DiskWalks DEF Journalling, Recovering
<1>4. CASE Settle(c)
  <2>1. /\ Others(c) /\ at[c] = "settles" /\ at'[c] = AfterShared(c)
        /\ UNCHANGED <<kind, seen, new, disk, ready>>
    BY <1>0, <1>4 DEF Settle, Goto, Others
  <2>2. Writer(c)' /\ Reader(c)'
    BY <1>0, <2>1 DEF Writer, Reader, Journalling, Recovering
  <2>3. ~Hot
    BY <1>0, <2>1 DEF Writer, Hot
  <2> QED BY <2>1, <2>2, <2>3, DiskWalks DEF Journalling, Recovering
<1> QED BY <1>1, <1>2, <1>3, <1>4

\* The RESERVED lock is for one connection.
LEMMA ReserveIsAlone ==
    ASSUME LocksInv', NEW c \in Conns, at'[c] = "journals"
    PROVE  \A d \in Conns : d # c => at'[d] \notin Journalling
<1> SUFFICES ASSUME NEW d \in Conns, d # c, at'[d] \in Journalling PROVE FALSE
  OBVIOUS
<1>1. lock'[c] \in LocksOfPlace(at'[c]) /\ lock'[d] \in LocksOfPlace(at'[d])
  BY DEF LocksInv, Placed
<1>2. lock'[c] >= RESERVED_LOCK /\ lock'[d] >= RESERVED_LOCK
  BY <1>1, LevelNumbers DEF LocksOfPlace, Journalling
<1> QED BY <1>2, LevelNumbers DEF LocksInv, Table, LockTypes, Exclusion

\* Reading, and the way to a commit, in the cache.
LEMMA DiskReads ==
    ASSUME IInv, NEW c \in Conns,
           \/ (\E p \in Pages : ReadPage(c, p)) \/ EndRead(c) \/ Exec(c)
           \/ Reserve(c, Answer(c)) \/ ReserveBusy(c, Answer(c))
    PROVE  DiskInv'
<1>0. /\ at \in [Conns -> Places] /\ kind \in [Conns -> Kinds]
      /\ seen \in [Conns -> SUBSET (0..MaxCommits)]
      /\ Writer(c) /\ Reader(c) /\ LocksInv
  BY Known DEF IInv
<1>1. at[c] \in {"reads", "reserves"} => ~Hot
  BY HotPlaces, BuilderIsAConn DEF Recovering
<1>2. CASE \E p \in Pages : ReadPage(c, p)
  <2>1. PICK p \in Pages : ReadPage(c, p)
    BY <1>2
  <2>2. /\ Others(c) /\ at[c] = "reads" /\ at'[c] = "reads"
        /\ seen'[c] = seen[c] \cup {file[p]}
        /\ UNCHANGED <<kind, new, disk, ready>>
    BY <1>0, <2>1 DEF ReadPage, Others
  <2>3. file[p] = commits
    BY <2>2, ReadsClean DEF Clean
  <2>4. commits' = commits /\ seen'[c] \subseteq {commits}
    BY <1>0, <2>2, <2>3 DEF Reader, disk
  <2>5. Writer(c)' /\ Reader(c)'
    BY <1>0, <2>2, <2>4 DEF Writer, Reader, Journalling, Recovering
  <2> QED BY <1>1, <2>2, <2>5, DiskWalks DEF Journalling
<1>3. CASE EndRead(c)
  <2>1. /\ Others(c) /\ at[c] = "reads" /\ at'[c] = "leaves"
        /\ UNCHANGED <<kind, seen, new, disk, ready>>
    BY <1>0, <1>3 DEF EndRead, Goto, Others
  <2>2. Writer(c)' /\ Reader(c)'
    BY <1>0, <2>1 DEF Writer, Reader, Journalling, Recovering
  <2> QED BY <1>1, <2>1, <2>2, DiskWalks DEF Journalling
<1>4. CASE Exec(c)
  <2>1. /\ Others(c) /\ at[c] = "reads" /\ at'[c] = "reserves"
        /\ UNCHANGED <<kind, seen, new, disk, ready>>
    BY <1>0, <1>4 DEF Exec, Goto, Others
  <2>2. commits' = commits
    BY <2>1 DEF disk
  <2>3. Writer(c)' /\ Reader(c)'
    BY <1>0, <2>1, <2>2 DEF Writer, Reader, Journalling, Recovering
  <2> QED BY <1>1, <2>1, <2>3, DiskWalks DEF Journalling
<1>5. CASE Reserve(c, Answer(c))
  <2>1. /\ Others(c) /\ at[c] = "reserves" /\ at'[c] = "journals"
        /\ UNCHANGED <<kind, seen, new, disk, ready>>
    BY <1>0, <1>5 DEF Reserve, Goto, Others
  <2>2. LocksInv'
    BY <1>0, <1>5, StepsThatLock
  <2>3. \A d \in Conns : d # c => at'[d] \notin Journalling
    BY <1>5, <2>1, <2>2, ReserveIsAlone DEF Journalling
  <2>4. \A d \in Conns : at[d] \notin Journalling
    BY <2>1, <2>3 DEF Others, Journalling
  <2>5. journal = NoJournal
    BY <1>1, <2>1, <2>4 DEF Hot
  <2>6. UNCHANGED <<journal, commits>>
    BY <2>1 DEF disk
  <2>7. Writer(c)' /\ Reader(c)'
    BY <1>0, <2>1, <2>5, <2>6 DEF Writer, Reader, Journalling, Recovering
  <2> QED BY <1>1, <2>1, <2>7, DiskWalks DEF Journalling
<1>6. CASE ReserveBusy(c, Answer(c))
  <2>1. /\ Others(c) /\ at[c] = "reserves"
        /\ at'[c] = IF kind[c] = "write" THEN "yields" ELSE "leaves"
        /\ UNCHANGED <<kind, seen, new, disk, ready>>
    BY <1>0, <1>6 DEF ReserveBusy, Goto, Others
  <2>2. Writer(c)' /\ Reader(c)'
    BY <1>0, <2>1 DEF Writer, Reader, Journalling, Recovering
  <2> QED BY <1>1, <2>1, <2>2, DiskWalks DEF Journalling
<1> QED BY <1>2, <1>3, <1>4, <1>5, <1>6

LEMMA DiskInCache ==
    ASSUME IInv, NEW c \in Conns,
           Change(c) \/ Halt(c) \/ GetExclusive(c, Answer(c)) \/ ExclusiveBusy(c, Answer(c))
           \/ Lower(c)
    PROVE  DiskInv'
<1>0. /\ at \in [Conns -> Places] /\ kind \in [Conns -> Kinds]
      /\ new \in [Conns -> 0..MaxCommits]
      /\ Writer(c) /\ Reader(c) /\ Disk
  BY Known
<1>1. Hot => at[c] \notin {"changes", "commits", "lowers"}
  BY <1>0 DEF Hot, Journalling, Writer
<1>2. CASE Change(c)
  <2>1. PICK p \in Pages : new' = [new EXCEPT ![c] = file[p] + 1]
    BY <1>2 DEF Change
  <2>2. /\ Others(c) /\ at[c] = "changes" /\ at'[c] = "changes"
        /\ UNCHANGED <<kind, seen, disk, ready>>
    BY <1>0, <1>2, <2>1 DEF Change, Others
  <2>3. file[p] = commits
    BY <1>0, <2>2 DEF Writer, Clean
  <2>4. new'[c] = commits + 1
    BY <1>0, <2>1, <2>3
  <2>5. UNCHANGED <<file, journal, commits>>
    BY <2>2 DEF disk
  <2>6. Writer(c)' /\ Reader(c)'
    BY <1>0, <2>2, <2>4, <2>5 DEF Writer, Reader, Journalling, Recovering, Clean
  <2> QED BY <1>1, <2>2, <2>6, DiskWalks DEF Journalling
<1>3. CASE Halt(c)
  <2>1. /\ Others(c) /\ at[c] = "changes"
        /\ at'[c] = IF new[c] = 0 THEN "erases" ELSE "commits"
        /\ UNCHANGED <<kind, seen, new, disk, ready>>
    BY <1>0, <1>3 DEF Halt, Goto, Others
  <2>2. UNCHANGED <<file, journal, commits>>
    BY <2>1 DEF disk
  <2>3. Writer(c)' /\ Reader(c)'
    BY <1>0, <2>1, <2>2 DEF Writer, Reader, Journalling, Recovering, Clean
  <2> QED BY <1>1, <2>1, <2>3, DiskWalks DEF Journalling
<1>4. CASE GetExclusive(c, Answer(c))
  <2>1. /\ Others(c) /\ at[c] = "commits" /\ at'[c] = "writes"
        /\ UNCHANGED <<kind, seen, new, disk, ready>>
    BY <1>0, <1>4 DEF GetExclusive, Goto, Others
  <2>2. UNCHANGED <<file, journal, commits>>
    BY <2>1 DEF disk
  <2>3. Writer(c)' /\ Reader(c)'
    BY <1>0, <2>1, <2>2 DEF Writer, Reader, Journalling, Recovering, Clean
  <2> QED BY <1>1, <2>1, <2>3, DiskWalks DEF Journalling
<1>5. CASE ExclusiveBusy(c, Answer(c))
  <2>1. /\ Others(c) /\ at[c] = "commits"
        /\ \/ at'[c] = "commits" /\ new'[c] = new[c]
           \/ at'[c] = "erases" /\ new'[c] = 0
        /\ UNCHANGED <<kind, seen, disk, ready>>
    BY <1>0, <1>5 DEF ExclusiveBusy, Goto, Others, Waits
  <2>2. UNCHANGED <<file, journal, commits>>
    BY <2>1 DEF disk
  <2>3. Writer(c)' /\ Reader(c)'
    BY <1>0, <2>1, <2>2 DEF Writer, Reader, Journalling, Recovering, Clean
  <2> QED BY <1>1, <2>1, <2>3, DiskWalks DEF Journalling
<1>6. CASE Lower(c)
  <2>1. /\ Others(c) /\ at[c] = "lowers" /\ at'[c] = "leaves"
        /\ UNCHANGED <<kind, seen, new, disk, ready>>
    BY <1>0, <1>6 DEF Lower, Goto, Others
  <2>2. Writer(c)' /\ Reader(c)'
    BY <1>0, <2>1 DEF Writer, Reader, Journalling, Recovering
  <2> QED BY <1>1, <2>1, <2>2, DiskWalks DEF Journalling
<1> QED BY <1>2, <1>3, <1>4, <1>5, <1>6

\* The pages and the journal, by the connection that may.
LEMMA DiskWrites ==
    ASSUME IInv, NEW c \in Conns,
           \/ \E p \in Pages : RestorePage(c, p) \/ WritePage(c, p)
           \/ Restored(c) \/ OpenJournal(c) \/ Commit(c) \/ Rollback(c)
    PROVE  DiskInv'
<1>0. /\ at \in [Conns -> Places] /\ new \in [Conns -> 0..MaxCommits]
      /\ commits \in 0..MaxCommits /\ MaxCommits \in Nat
      /\ Writer(c) /\ Reader(c) /\ Disk /\ Recovery
  BY Known DEF IInv, DiskInv
<1>10. NoJournal # Clean
  BY <1>0, JournalIsThere
<1> SUFFICES /\ Others(c) /\ Disk' /\ Recovery' /\ Writer(c)' /\ Reader(c)'
             /\ \/ at[c] \in {"journals", "erases"} /\ commits' = commits
                \/ at[c] \in {"writes", "restores"}
  BY Beside DEF DiskInv
<1>1. CASE \E p \in Pages : RestorePage(c, p)
  <2>1. PICK p \in Pages : RestorePage(c, p)
    BY <1>1
  <2>2. /\ at[c] = "restores" /\ UNCHANGED <<at, kind, seen, new, journal, commits, ready>>
        /\ file' = [file EXCEPT ![p] = commits]
    BY <1>0, <2>1 DEF RestorePage, statement, Writer, Clean
  <2>3. Disk'
    BY <1>0, <1>10, <2>2 DEF Disk, Clean, Writer
  <2>4. Recovery' /\ Others(c)
    BY <1>0, <2>2 DEF Recovery, Others
  <2>5. Writer(c)' /\ Reader(c)'
    BY <1>0, <2>2 DEF Writer, Reader, Recovering, Journalling, Clean
  <2> QED BY <2>2, <2>3, <2>4, <2>5
<1>2. CASE \E p \in Pages : WritePage(c, p)
  <2>1. PICK p \in Pages : WritePage(c, p)
    BY <1>2
  <2>2. /\ at[c] = "writes" /\ UNCHANGED <<at, kind, seen, new, journal, commits, ready>>
        /\ file' = [file EXCEPT ![p] = commits + 1] /\ commits + 1 \in 0..MaxCommits
    BY <1>0, <2>1 DEF WritePage, statement, Writer
  <2>3. Disk'
    BY <1>0, <1>10, <2>2 DEF Disk, Clean, Writer
  <2>4. Recovery' /\ Others(c)
    BY <1>0, <2>2 DEF Recovery, Others
  <2>5. Writer(c)' /\ Reader(c)'
    BY <1>0, <2>2 DEF Writer, Reader, Recovering, Journalling, Clean
  <2> QED BY <2>2, <2>3, <2>4, <2>5
<1>3. CASE Restored(c)
  <2>1. /\ at[c] = "restores" /\ at' = [at EXCEPT ![c] = "settles"] /\ journal' = NoJournal
        /\ file = Clean /\ UNCHANGED <<kind, seen, new, file, commits, ready>>
    BY <1>0, <1>3 DEF Restored, Goto, Writer
  <2>2. Others(c) /\ at'[c] = "settles"
    BY <1>0, <2>1 DEF Others
  <2>3. Disk'
    BY <1>0, <2>1 DEF Disk, Clean
  <2>4. Recovery'
    BY <1>0, <2>1, <2>2 DEF Recovery, Others
  <2>5. Writer(c)' /\ Reader(c)'
    BY <1>0, <2>1, <2>2 DEF Writer, Reader, Recovering, Journalling
  <2> QED BY <2>1, <2>2, <2>3, <2>4, <2>5
<1>4. CASE OpenJournal(c)
  <2>1. /\ at[c] = "journals" /\ at' = [at EXCEPT ![c] = "changes"] /\ journal' = file
        /\ file = Clean /\ UNCHANGED <<kind, seen, new, file, commits, ready>>
    BY <1>0, <1>4 DEF OpenJournal, Goto, Writer, Disk
  <2>2. Others(c) /\ at'[c] = "changes"
    BY <1>0, <2>1 DEF Others
  <2>3. Disk'
    BY <1>0, <2>1 DEF Disk, Clean
  <2>4. Recovery'
    BY <1>0, <2>1, <2>2 DEF Recovery, Others, Journalling
  <2>5. Writer(c)' /\ Reader(c)'
    BY <1>0, <2>1, <2>2 DEF Writer, Reader, Recovering, Journalling, Clean
  <2> QED BY <2>1, <2>2, <2>3, <2>4, <2>5
<1>5. CASE Commit(c)
  <2>1. /\ at[c] = "writes" /\ at' = [at EXCEPT ![c] = "lowers"] /\ journal' = NoJournal
        /\ commits' = commits + 1 /\ \A p \in Pages : file[p] = commits + 1
        /\ commits + 1 \in 0..MaxCommits /\ UNCHANGED <<kind, seen, new, file, ready>>
    BY <1>0, <1>5 DEF Commit, Goto, Writer
  <2>2. Others(c) /\ at'[c] = "lowers"
    BY <1>0, <2>1 DEF Others
  <2>3. Disk'
    <3>1. file = [p \in Pages |-> commits + 1]
      BY <1>0, <2>1 DEF Disk
    <3> QED BY <1>0, <2>1, <3>1 DEF Disk, Clean
  <2>4. Recovery'
    BY <1>0, <2>1, <2>2 DEF Recovery, Others
  <2>5. Writer(c)' /\ Reader(c)'
    BY <1>0, <2>1, <2>2 DEF Writer, Reader, Recovering, Journalling
  <2> QED BY <2>1, <2>2, <2>3, <2>4, <2>5
<1>6. CASE Rollback(c)
  <2>1. /\ at[c] = "erases" /\ at' = [at EXCEPT ![c] = "lowers"] /\ journal' = NoJournal
        /\ file = Clean /\ UNCHANGED <<kind, seen, new, file, commits, ready>>
    BY <1>0, <1>6 DEF Rollback, Goto, Writer
  <2>2. Others(c) /\ at'[c] = "lowers"
    BY <1>0, <2>1 DEF Others
  <2>3. Disk'
    BY <1>0, <2>1 DEF Disk, Clean
  <2>4. Recovery'
    BY <1>0, <2>1, <2>2 DEF Recovery, Others
  <2>5. Writer(c)' /\ Reader(c)'
    BY <1>0, <2>1, <2>2 DEF Writer, Reader, Recovering, Journalling
  <2> QED BY <2>1, <2>2, <2>3, <2>4, <2>5
<1> QED BY <1>1, <1>2, <1>3, <1>4, <1>5, <1>6

\* The end of a statement, after which the web thread may start.
LEMMA DiskLeaves ==
    ASSUME IInv, NEW c \in Conns, Leave(c)
    PROVE  DiskInv'
<1>1. /\ Others(c) /\ at[c] = "leaves" /\ at'[c] = "idle" /\ kind'[c] = "read"
      /\ seen'[c] = {} /\ new'[c] = 0 /\ UNCHANGED disk /\ ready' = (ready \/ c = Builder)
  BY Known DEF Leave, Idle, Others
<1>2. Writer(c)' /\ Reader(c)'
  BY <1>1 DEF Writer, Reader, Recovering, Journalling
<1>3. ~Hot
  BY <1>1, HotPlaces, BuilderIsAConn DEF Recovering
<1>4. CASE c # Builder
  <2>1. ready' = ready
    BY <1>1, <1>4, Zenon DEF IInv, Statements
  <2> QED BY <1>1, <1>2, <1>3, <2>1, DiskWalks DEF Journalling
<1>5. CASE c = Builder
  <2>1. ready' = TRUE
    BY <1>1, <1>5
  <2>2. ASSUME NEW d \in Conns, d # c
        PROVE  Writer(d)' /\ Reader(d)'
    <3>1. /\ at'[d] = at[d] /\ kind'[d] = kind[d] /\ seen'[d] = seen[d] /\ new'[d] = new[d]
          /\ Writer(d) /\ Reader(d)
      BY <1>1, <2>2 DEF Others, IInv, DiskInv
    <3>2. UNCHANGED <<file, journal, commits>>
      BY <1>1 DEF disk
    <3> QED BY <3>1, <3>2 DEF Writer, Reader, Clean
  <2>3. Disk'
    BY <1>1 DEF IInv, DiskInv, Disk, Clean, disk
  <2>4. journal # NoJournal => \E d \in Conns : at'[d] \in Journalling
    BY <1>1, <1>3 DEF Hot, Others, Journalling
  <2>5. Recovery'
    BY <1>1, <2>1, <2>4 DEF Recovery, disk
  <2> QED BY <1>2, <2>2, <2>3, <2>5 DEF DiskInv
<1> QED BY <1>4, <1>5

\* What was being committed is in the file, and its journal beside it.
LEMMA DiskCrash ==
    ASSUME IInv, Crash
    PROVE  DiskInv'
<1>1. /\ UNCHANGED <<file, journal, commits>> /\ ready' = FALSE
      /\ at' = [c \in Conns |-> "closed"] /\ kind' = [c \in Conns |-> "read"]
      /\ seen' = [c \in Conns |-> {}] /\ new' = [c \in Conns |-> 0]
  BY DEF Crash, disk
<1>2. Disk'
  BY <1>1 DEF IInv, DiskInv, Disk, Clean
<1>3. Recovery'
  BY <1>1, BuilderIsAConn DEF Recovery, Recovering
<1>4. \A c \in Conns : Writer(c)' /\ Reader(c)'
  BY <1>1 DEF Writer, Reader, Recovering, Journalling
<1> QED BY <1>2, <1>3, <1>4 DEF DiskInv

LEMMA DiskStep == IInv /\ [Next]_vars => DiskInv'
<1> SUFFICES ASSUME IInv, [Next]_vars PROVE DiskInv'
  OBVIOUS
<1>1. CASE Crash
  BY <1>1, DiskCrash
<1>2. CASE UNCHANGED vars
  <2>1. UNCHANGED <<at, kind, seen, new, file, journal, commits, ready>>
    BY <1>2 DEF vars, statement, disk
  <2> QED BY <2>1 DEF IInv, DiskInv, Disk, Clean, Recovery, Writer, Reader
<1>3. ASSUME NEW c \in Conns,
             Open(c) \/ Close(c) \/ (\E k \in Kinds : Start(c, k)) \/ Goes(c)
      PROVE  DiskInv'
  BY <1>3, DiskBefore, DiskJournalSeen, DiskReads, DiskInCache, DiskWrites, DiskLeaves DEF Goes
<1>4. ASSUME NEW c \in Conns, Locks(c, Answer(c))
      PROVE  DiskInv'
  BY <1>4, DiskBefore, DiskReads, DiskInCache DEF Locks
<1> QED BY <1>1, <1>2, <1>3, <1>4 DEF Next, Runs

\* The values of the statements.
LEMMA StatementsStep == IInv /\ [Next]_vars => Statements'
<1> SUFFICES ASSUME IInv, [Next]_vars PROVE Statements'
  OBVIOUS
<1>0. /\ Statements /\ {Patience, MaxCommits, MaxCrashes} \subseteq Nat
      /\ commits \in 0..MaxCommits /\ \A p \in Pages : file[p] \in 0..MaxCommits
  BY BoundsNat DEF IInv, DiskInv, Disk
<1> USE DEF Statements
<1>1. CASE UNCHANGED <<kind, tries, seen, new, ready, crashes>>
  BY <1>0, <1>1
<1>2. CASE Crash
  <2>1. /\ kind' = [c \in Conns |-> "read"] /\ tries' = [c \in Conns |-> 0]
        /\ seen' = [c \in Conns |-> {}] /\ new' = [c \in Conns |-> 0]
        /\ ready' = FALSE /\ crashes' = crashes + 1 /\ crashes < MaxCrashes
    BY <1>2 DEF Crash
  <2>2. kind' \in [Conns -> Kinds] /\ seen' \in [Conns -> SUBSET (0..MaxCommits)]
    BY <2>1 DEF Kinds
  <2>3. tries' \in [Conns -> 0..Patience] /\ new' \in [Conns -> 0..MaxCommits]
    BY <1>0, <2>1
  <2>4. ready' \in BOOLEAN
    BY <2>1, Zenon
  <2>5. crashes' \in 0..MaxCrashes
    BY <1>0, <2>1
  <2> QED BY <2>2, <2>3, <2>4, <2>5
<1>3. ASSUME NEW c \in Conns, Idle(c), ready' \in BOOLEAN, UNCHANGED crashes
      PROVE  Statements'
  BY <1>0, <1>3 DEF Idle, Kinds
<1>4. ASSUME NEW c \in Conns, Waits(c), UNCHANGED <<kind, seen, ready, crashes>>,
             new' \in [Conns -> 0..MaxCommits]
      PROVE  Statements'
  BY <1>0, <1>4 DEF Waits
<1>5. ASSUME NEW c \in Conns, NEW k \in Kinds, Start(c, k)
      PROVE  Statements'
  BY <1>0, <1>5 DEF Start
<1>6. ASSUME NEW c \in Conns, NEW p \in Pages, ReadPage(c, p)
      PROVE  Statements'
  BY <1>0, <1>6 DEF ReadPage
<1>7. ASSUME NEW c \in Conns, Change(c)
      PROVE  Statements'
  <2>1. PICK p \in Pages : new' = [new EXCEPT ![c] = file[p] + 1]
    BY <1>7 DEF Change
  <2>2. file[p] = commits /\ commits < MaxCommits
    BY <1>7 DEF Change, IInv, DiskInv, Writer, Clean
  <2> QED BY <1>0, <1>7, <2>1, <2>2 DEF Change
<1>8. ASSUME NEW c \in Conns, Halt(c)
      PROVE  Statements'
  BY <1>0, <1>8 DEF Halt
<1>9. ASSUME NEW c \in Conns, ExclusiveBusy(c, Answer(c))
      PROVE  Statements'
  <2>1. new' \in [Conns -> 0..MaxCommits]
    BY <1>0, <1>9 DEF ExclusiveBusy
  <2> QED BY <1>0, <1>4, <1>9, <2>1 DEF ExclusiveBusy
<1>10. ASSUME NEW c \in Conns, SharedBusy(c, Answer(c)) \/ Yield(c) \/ Leave(c)
       PROVE  Statements'
  BY <1>0, <1>3, <1>4, <1>10 DEF SharedBusy, Yield, Leave, GivesUp
<1>11. ASSUME NEW c \in Conns,
              \/ Open(c) \/ Close(c) \/ GetShared(c, Answer(c)) \/ JournalExists(c)
              \/ CheckReservedLock(c) \/ ClaimHotJournal(c, Answer(c)) \/ OpenHotJournal(c)
              \/ (\E p \in Pages : RestorePage(c, p) \/ WritePage(c, p))
              \/ Restored(c) \/ Settle(c) \/ EndRead(c) \/ Exec(c)
       PROVE  Statements'
  <2>1. UNCHANGED <<kind, tries, seen, new, ready, crashes>>
    BY <1>11 DEF Open, Close, GetShared, JournalExists, CheckReservedLock, ClaimHotJournal,
                 OpenHotJournal, RestorePage, WritePage, Restored, Settle, EndRead, Exec, statement
  <2> QED BY <1>1, <2>1
<1>12. ASSUME NEW c \in Conns,
              \/ Reserve(c, Answer(c)) \/ ReserveBusy(c, Answer(c)) \/ OpenJournal(c)
              \/ GetExclusive(c, Answer(c)) \/ Commit(c) \/ Rollback(c) \/ Lower(c)
       PROVE  Statements'
  <2>1. UNCHANGED <<kind, tries, seen, new, ready, crashes>>
    BY <1>12 DEF Reserve, ReserveBusy, OpenJournal, GetExclusive, Commit, Rollback, Lower
  <2> QED BY <1>1, <2>1
<1>13. UNCHANGED vars => UNCHANGED <<kind, tries, seen, new, ready, crashes>>
  BY DEF vars, statement
<1>14. ASSUME NEW c \in Conns, Goes(c)
       PROVE  Statements'
  BY <1>6, <1>7, <1>8, <1>10, <1>11, <1>12, <1>14 DEF Goes
<1>15. ASSUME NEW c \in Conns, Locks(c, Answer(c))
       PROVE  Statements'
  BY <1>9, <1>10, <1>11, <1>12, <1>15 DEF Locks
<1>16. ASSUME NEW c \in Conns, Open(c) \/ Close(c) \/ \E k \in Kinds : Start(c, k)
       PROVE  Statements'
  BY <1>5, <1>11, <1>16
<1> QED BY <1>1, <1>2, <1>13, <1>14, <1>15, <1>16 DEF Next, Runs

------------------------------------------------------------------------------

LEMMA InitIInv == Init => IInv
<1> SUFFICES ASSUME Init PROVE IInv
  OBVIOUS
<1>1. LocksInv
  BY Afresh DEF Init
<1>2. Statements
  <2>1. kind \in [Conns -> Kinds] /\ seen \in [Conns -> SUBSET (0..MaxCommits)]
    BY DEF Init, Kinds
  <2>2. tries \in [Conns -> 0..Patience] /\ new \in [Conns -> 0..MaxCommits]
        /\ crashes \in 0..MaxCrashes
    BY BoundsNat DEF Init
  <2>3. ready \in BOOLEAN
    BY Zenon DEF Init
  <2> QED BY <2>1, <2>2, <2>3 DEF Statements
<1>3. Disk
  BY BoundsNat DEF Init, Disk, Clean
<1>4. Recovery
  BY BuilderIsAConn DEF Init, Recovery, Recovering
<1>5. \A c \in Conns : Writer(c) /\ Reader(c)
  BY DEF Init, Writer, Reader, Recovering, Journalling
<1> QED BY <1>1, <1>2, <1>3, <1>4, <1>5 DEF IInv, DiskInv

LEMMA IInvStep == IInv /\ [Next]_vars => IInv'
BY LocksStep, StatementsStep, DiskStep DEF IInv

LEMMA IInvHolds == Spec => []IInv
BY InitIInv, IInvStep, PTL DEF Spec

\* The connections, the table of locks and the file are what they should be.
THEOREM TypesAreRight == Spec => []TypeOK
<1>1. IInv => TypeOK
  <2> SUFFICES ASSUME IInv PROVE TypeOK
    OBVIOUS
  <2>1. cnt \in 0..Cardinality(Conns)
    <3>1. cnt \in Nat /\ cnt = Cardinality(Holders)
      BY DEF IInv, LocksInv, Table, LockTypes, LockInfoIsTrue
    <3>2. Holders \in SUBSET Conns
      BY DEF Holders
    <3>3. Cardinality(Holders) <= Cardinality(Conns) /\ Cardinality(Conns) \in Nat
      BY <3>2, ConnsFinite, FS_Subset, FS_CardinalityType
    <3> QED BY <3>1, <3>3
  <2>2. journal \in [Pages -> 0..MaxCommits] \cup {NoJournal}
    BY DEF IInv, DiskInv, Disk, Clean
  <2>3. /\ at \in [Conns -> Places] /\ lock \in [Conns -> Levels] /\ type \in Levels
        /\ os \subseteq {"pending", "reserved", "read", "write"} /\ deferred \subseteq Conns
    BY DEF IInv, LocksInv, Placed, Table, LockTypes, OsLocks
  <2>4. commits \in 0..MaxCommits /\ file \in [Pages -> 0..MaxCommits]
    BY DEF IInv, DiskInv, Disk
  <2>5. Statements
    BY DEF IInv
  <2> QED BY <2>1, <2>2, <2>3, <2>4, <2>5 DEF TypeOK, Statements
<1> QED BY <1>1, IInvHolds, PTL

\* Every statement reads pages of one commit (pager.c, hasHotJournal and after),
\* because the web thread starts when the application thread has read the file.
THEOREM ReadsOneCommit == Spec => []OneCommit
<1>1. IInv => OneCommit
  BY DEF IInv, DiskInv, Reader, OneCommit
<1> QED BY <1>1, IInvHolds, PTL

\* No commit is lost and none is there by half (sqlite3pager_commit and
\* pager_playback), wherever the process was killed.
THEOREM KeepsLastCommit == Spec => []LastCommit
<1>1. IInv => LastCommit
  <2> SUFFICES ASSUME IInv PROVE LastCommit
    OBVIOUS
  <2>1. journal \in {NoJournal, Clean} /\ (journal = NoJournal => file = Clean)
    BY DEF IInv, DiskInv, Disk
  <2> QED BY <2>1 DEF LastCommit, Clean
<1> QED BY <1>1, IInvHolds, PTL
==============================================================================
