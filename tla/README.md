# Spinny in TLA+

Spinny is a music server: one process that scans the configured music
directories into an SQLite file at start and serves a browser interface, the
songs and the playlists from an embedded web server. This directory holds TLA+
models of its core, the TLC runs that check them and TLAPS proofs about them.
Paths are relative to the repository.

## The system

| part | code | state | operations |
|---|---|---|---|
| embedded web server | `libs/ews/{server,connection,connection_manager}.cpp` | acceptor, `new_connection_`, `connections_`, one socket, buffer, request and reply per connection | `handle_accept`, `handle_read`, `handle_write`, `handle_stop`, `stop`, `run` |
| request parser | `libs/ews/request_parser.cpp` | parse state, the request so far | `parse` of the next piece of input |
| dispatch and reply | `libs/ews/{request_handler,reply}.cpp` | handlers by phase; status, headers, content, template | `handle_request`, `set_to`, `set_header`, `to_buffers` |
| page handlers | `libs/handlers/*.cpp` | none | one `handle` each: login, users, pl, index, tree, info, song, xspf, files |
| music scan | `libs/spinny/{music_dir,song,artist,album}.cpp` | tables `music_dirs`, `songs`, `artists`, `albums` | `App::rescan`, `create_root`, `sync`, `destroy`, `create_from_file` |
| playlists | `libs/spinny/{playlist,complete_playlist}.cpp`, `libs/handlers/pl.cpp` | tables `playlists`, `playlist_songs`; the `CompletePlayList` object | insert, remove, reorder, sort, update |
| users and sessions | `libs/spinny/user.cpp`, `libs/handlers/{login,users}.cpp` | table `users` with the ticket of each | authenticate, renew, create, change, delete |
| SQLite wrapper | `libs/sqlite/*.cpp` | a connection per thread, the text of the statement being streamed | `exec`, `load_*`, `save`, `destroy` |
| SQLite library | `libs/sqlite/csrc/{os_unix,pager,btree,vdbeaux}.c` | locks of each connection, the process's table of locks, journal, file | `unixLock`, `unixUnlock`, commit, rollback of a hot journal |
| application | `libs/spinny/app.cpp`, `src/posix_main.cpp` | `_instance`, the web thread, the application thread | `run`, `rescan`, `stop` |

Three threads run. The main thread waits for a signal and calls `App::stop`; the
application thread constructs the `App` and scans; the web thread runs every
handler of the web server, one at a time, inside `io_service::run`. The
application thread and the web thread share the SQLite file (each statement is a
commit of its own; no transaction is used), inside SQLite the table of locks of that file,
and nothing else, except that `~App` stops the server and joins its thread.

What is hard here: the order in which completions reach the web thread, and a stop
among them; a scan over directories that change under it, which dies at any
statement and is started again; requests made of several statements, between
which the scan commits, a statement fails or the process ends; one statement
buffer for all requests of a thread; replies that pass one another; a pointer
shared by the main and the application thread; locks of the operating system, which
are the process's, between threads that need locks of their own.

What makes each part correct:

- *web server*: a connection's buffer, request and reply are used by one operation
  at a time; every connection is removed and every socket closed; a stop ends `run`.
- *music scan*: tables without orphans or needless duplicates after any crash; a quiet scan
  leaves them equal to the file system; a rescan of the same files keeps their rowids.
- *playlists*: a request touches its own list, keeps the order of what it does not
  move, and leaves no two songs at one place; the code does all three but for `/pl/songs/add/pl`
  and for reorders of a part of a list.
- *dispatch, users and replies*: a browser acts as a user only after it logged in as
  that user; only administrators change accounts; Content-Length is the body's length;
  the process ends only where the code is known to let it.
- *SQLite wrapper*: a statement is the text its caller streamed.
- *application*: the threads end in order, and a signal ends the process.
- *request parser*: a request is complete with its last character and is what was sent,
  however the input is split into reads.
- *SQLite library*: locks exclude each other between threads; a statement reads one commit;
  no commit is lost to a crash; no statement waits for ever.

## Modules

| module | models |
|---|---|
| `HttpService` | what the server promises about one connection: begun, at most one reply, over |
| `Ews` | server, connection and connection manager over asio's queue of completions; implements `HttpService` |
| `EwsProofs` | the inductive invariant of `Ews` and the theorems it gives |
| `MusicScan` | `App::rescan` and what it calls, against a changing file system |
| `Playlists` | the `/pl` requests and their SQL statements |
| `PlaylistsProofs` | the inductive invariant of `Playlists` and its theorems |
| `MusicScanProofs` | the inductive invariant of `MusicScan`'s tables and stack; on top of it, what an activation has seen, which entries may have a second row, and what a completed scan leaves |
| `NumberFacts` | lemmas shared by the proofs: greatest and least numbers, induction and recursion over numbers, rowids |
| `RequestParser` | `request_parser` character by character, and the decoding of what it read |
| `RequestParserProofs` | what the text read so far looks like in each state of the parser, and what is still to come of what was sent, and the two theorems that rest on them |
| `Dispatch` | one request on the web thread from its last byte to its reply: session, handlers, renewal, reply |
| `DispatchProofs` | the inductive invariant of `Dispatch` and its theorems |
| `SqliteLocks` | the database file between threads: lock levels, the process's lock table, journal, commit, rollback, `busy_handler` |
| `SqliteUnguarded` | the same protocol as it is built, without the mutex around the lock table |
| `SqliteLocksProofs` | the inductive invariants of the locks, and of the file and the journal on top of them |
| `AppLifecycle` | the main, application and web threads from start to end of the process |
| `AppLifecycleProofs` | the inductive invariant of `AppLifecycle` and its theorems |
| `MCMusicScan`, `MCRequestParser`, `MCDispatch` | instances for TLC |

In a module, an operator marked "Mistaken variant" stands right before the
definition it is a wrong version of. No action uses it; it documents what
the properties tell apart: with the variant in place of the definition a
property named for it fails.

### `Ews`

`queue` is asio's list of completed operations; one action per handler takes the
first. An operation (`op`, `acceptOp`) waits in the reactor until it completes
with success, an error, or, once its socket was closed, as aborted. A completion
that is queued when its socket is closed keeps its result, as in asio. `managed` is
`connection_manager::connections_`; a connection object that nothing refers to
(`Unreferenced`) may be allocated again, so that `Conns` bounds the objects alive
and not the connections made. `stop` is posted by `~App`. `RequestPhase` maps the
state to `HttpService`: a connection with a read outstanding is reading, one with a
write outstanding is replying.

### `MusicScan`

`stack` holds the activations of the recursive `sync` and `destroy` with the locals
they iterate over: the rows not seen yet, and what the `directory_iterator` has still to return.
The iterator reads the directory entry by entry: what was there when it was opened and stays is
returned once (`Listed`); for what is removed or made meanwhile POSIX leaves it open, so that an entry
that is made while the scan runs may be returned too (`Late`), also a second time when it was removed and made
again, and gets a second row then. `made` remembers the change that made an entry during a scan;
`OneRowPerEntry` excepts these, and `MirrorsWhenDone` shows that a scan which nothing disturbs repairs
them. Each SQL statement is a step. The user adds and removes entries
between any two; `Crash` drops the stack; `DatabaseFails` is any statement that
throws. Rowids are SQLite's: one more than the largest in use, so that the last row's
id is used again. `Interesting` are files with a song's extension, `Tagged` those whose artist and album have rows: for
any other song `find_or_create` throws. `stable`, `present` and `quiet` are history.

A scan of a root whose path is missing returns at once, and its rows stay (`MissingRootKeepsRows`). A
mount point that is there while its volume is not is an empty directory to the code, and its rows go.

A file system is a tree: what exists lies in a directory, and a root is not a song file
(`IsTree`). Roots may lie within one another, and then each keeps rows of its own for what
they share, so that `MirrorsWhenDone` says for each root that its rows are what lies below
it, down to the depth limit.

### `Playlists`

A request computes its statements from what it reads first and puts them in `job`;
`Exec` runs one of them, which may put others before the rest (`ExecJoin`, `ExecOwn`, `ExecPick`). Between two, the scanner adds or destroys songs, a
statement fails (the rest is dropped), or the process restarts. `allId` is the db_id
of the `CompletePlayList` object, which is 0 until it is saved. `asked` remembers the kind of the request and the list that its `pl_id`
names, which is what `OnlyItsPlaylist` compares each changed entry with.

`/pl/songs/addpl` takes the first `pl_id` for the list to be added to and then inserts every `pl_id`, the
first one too. In `/pl/songs/add/pl` an inner `pl` hides the list asked for (`libs/handlers/pl.cpp:54`), and the
list named by `id` is inserted into itself: the one request that changes another list than its
`pl_id` says. A reorder gives any songs any numbers: the client shows a list in pages
(`www/js/songs_grid.js`) and sends the numbers of the page on show, so that songs of other pages may have the same
ones. `placed` says that this has not happened: it holds while every reorder was of the whole
list and to different places; `DistinctPlaces` is about these. The buffer that a failed
listing spoils is in `Dispatch`, not here.

### `RequestParser`

The client sends one of `Requests`, of which one symbol may be lost, doubled or changed
(`Garble`). A symbol is a character, or a text whose characters the parser treats alike
(`"length"` for Content-Length). `Consume` is one call of `consume`; since the parser
keeps its state between reads, a read is a run of these steps of any length, and
what they end with cannot depend on the split. With the last character the step includes
`perform_final_decode`: the URL's elements, the variables of query, form and cookie, the
ticket. `verdict` is what `consume` returned. The state `uri_start` is never entered
and has no action. What the code does in particular, and the model with it: the
first header cannot be continued on another line; the character after a header's
colon is taken as it is and a line end there is refused; an escaped "/" or "?" is decoded
before the path is split; the cookie header is split at "&" only, so that a second cookie
hides the ticket; a Content-Length with blanks, or larger than an `unsigned int` (`UintMax`), makes `lexical_cast` throw
(verdict "throws"), which leaves the web thread, as `HandleReadThrows` of `Ews` and `LengthNoNumber` of `Dispatch`; a request without
headers stores an empty one; the number of the URL's elements becomes a signed `char` before it is compared with 5
(`Kept`), so that of a URL with 128 elements the handlers see none, and with 257 one again. `ReadsAsSent`
therefore speaks of the elements only while their number is at most `CharMax`.

What a request may be is `RequestsAreWritten`, which TLC evaluates on the 88 requests of the run: a request as a
browser writes it. Names and values have nothing in them that stands for something else where they
are, but for `"e"`, which is escaped (a value may have `=`, as the code reads it); a header's value, and each line that
continues it, starts where the parser says it starts; the first header is one line; a form is sent with its
length and a cookie in its header, the ticket first. What these leave out are the peculiarities above: `Garble`
brings them about, and `EndsWhereItSays` is about them too.

### `Dispatch`

`phase` follows `handle_request`: "ticket" (the session lookup of
`perform_final_decode`), "handle" (the handlers, in the order that `link_up` and their
phases give), "renew" (the code after the loop), "send" (`to_buffers`). A handler is
one step, except that `/users/save` makes a step per user. Of a reply the model keeps
the status, what the content is, what the content was when Content-Length was taken,
whether a template is to be filled, and the cookie. `stale` is the statement buffer:
it holds the text of a statement that failed. `Fails` says which calls leave
text: those that prepare `curval()` themselves and clear it after
(`load_stored`, `load_one`); `exec` always clears it. `badOrder` is the `order_by` of
the list on show after `/pl/songs/reorder`. The branch of `handle_request`
for a status other than Stop at the end is not reached: `Files` stops or throws.

`KnownEnds` lists where the process ends, and that it ends nowhere else: `LengthNoNumber`; a failed statement
of `LookUp` or `Renew`, which are outside of the `try`; `NoSession` and `Xspf`, in which a handler uses the user of a request
without a session (`/users/...`, an xspf list with songs, and the index when the URL is a `.gif` without a slash, which `Login` takes
for an image); `SaveAborts`, in which jsoncpp's `assert` meets a row of the wrong type (no `CMakeLists.txt` defines `NDEBUG`).
`PagesHaveTheirLength` is about what handlers make themselves and send with a 200; stock and error pages
have the length of what `set_to` replaced, mostly 0, and are left out.

### `SqliteLocks` and `SqliteUnguarded`

`at` is the place of each connection in its statement, from `unixLock` for SHARED through the
look for a hot journal to the commit and the unlock after it. A statement is a select,
one exec, or execs while the connection steps through a select (`"list"`), as
`PlayList::insert(result_set)` makes them. `lock` is `unixFile.locktype`, `cnt` and `type` the
`lockInfo` that the threads share, `os` what the process has locked: the operating system sees
one process, so `os` does not exclude anything between the threads. `deferred` are
descriptors that `unixClose` keeps open while locks are held. `seen` is the history of the
commits whose pages a statement read. `Locks` asks and enters in one step, as the mutex
would make it; `SqliteUnguarded` splits it into `Decide` and `Act`, as the build has it.
`ready` is the end of `check_and_create_tables`: the web thread starts after the application
thread has opened the database, which is why only one connection ever finds a hot journal.

### `AppLifecycle`

`main` and `app` are the places of the main and the application thread, `web` the
state of the web thread. The web thread's inside is `Ews`: `WebReturns` is its
`RunReturns`, `WebThrows` its `HandleReadThrows`. The inside of a
directory's scan is `MusicScan`. `DeleteNothing` is a stop that finds no App:
the application thread then publishes it afterwards and goes on to scan, and main
waits for it in `thread.join()`.

## Runs

| run | checks | shows |
|---|---|---|
| `ews` | `TypeOK` `OneOperation` `ManagedIsServed` `OpenIsManaged` `StopReturns` `OneReply` `PeerIsServed` `StopIsReached` | every race between a connection being served, one accepted, the next accept and a stop; `Ews` implements `HttpService`; scheduling alone ends a stop with no connection open, and peers that go on let every connection and every stop end |
| `ews_stop_cancels` | `StopCancelsAll` (violated) | a connection accepted just before the stop is started after it |
| `music_scan` | `TypeOK` `NoOrphans` `OneRowPerEntry` `MirrorsWhenDone` `RescanWritesNothing` `KeepsARow` `MissingRootKeepsRows` `ScanEnds` | two starts, the second over whatever the first left, two changes of the file system anywhere, also while a directory is iterated over, crashes and failures anywhere, a root that comes and goes, a file whose artist is new |
| `music_scan_first` | `UndisturbedScanCompletes` (violated) | a first scan over new artists ends at the first song |
| `playlists` | `TypeOK` `NeverSwaps` `OnlyItsPlaylist` `DistinctPlaces` | two requests of any kind with two disturbances between statements or requests: songs that come and go, failures, restarts |
| `playlist_copies` | `CopiedWhole` (violated) | a list added to an empty list copies nothing |
| `request_parser` | `ReadsAsSent` `EndsWhereItSays` | 88 requests, whole or with one symbol wrong at any place |
| `dispatch` | `TypeOK` `SessionsAreEarned` `SavedAsAsked` `PagesHaveTheirLength` `AdminsChangeAccounts` `KnownEnds` | two browsers, four requests of any kind, replies in any order, a failure at any statement or template, a deleted user's rowid given to another |
| `dispatch_own_text` | `OwnText` (violated) | a reorder, a listing, and the statement after it |
| `sqlite_locks` | `TypeOK` `Exclusion` `LockInfoIsTrue` `OsHolds` `OneCommit` `LastCommit` `StatementsEnd` | two threads that read, write and write while they read, that end, give up, and die inside a commit or the rollback of one |
| `sqlite_unguarded` | `Exclusion` (violated) | two threads look at the lock table before either enters its lock |
| `app_lifecycle` | `TypeOK` `ServerOutlivesItsThread` `OrderlyOnceScanning` `SignalEnds` | a signal at any moment |

### Bounds

- `Conns`: 3. An object matters to another only through the queue's order and the accept
  chain: one connection being served, one accepted, one for the next accept are all the
  roles there are. The safety invariants are proved for any number.
- `MusicScan`: one root has a directory in a directory, with a song at each of the upper
  levels, the outer one of an artist who is not known yet; the other is empty; the depth limit of 255 is 2, so that the deepest directory is
  recorded and not entered. Proved for any paths, roots and limit, with the exceptions named under Proofs. The tables start empty; the
  first of the two starts stores what the second finds, whole or broken off anywhere. Two changes let an entry vanish and come back, as another
  kind or the same, while a directory is iterated over.
- `Playlists`: positions 0..2, two songs and one to be added, two lists. Two requests suffice
  for one to find what the other broke off; `MaxDisturbed` 2 is a song destroyed and its rowid
  given to another, or one of them and a failure or restart. `addpl` has at most two `pl_id`s. Proved for any bounds.
- `RequestParser`: GET and POST; no path element, two, one more than the five that are kept, and two more than `CharMax`, which is 7 instead of 127
  (`UintMax` is 99);
  every query, form and list of headers of `MCRequestParser`; one symbol lost, doubled, or changed
  into one of each class that `consume` tells apart.
- `Dispatch`: all pages, 2 users to start with, whose rowids are used again; two tickets to start
  with and three to generate, so that an old cookie can be on its way while its user logs in again
  or is replaced. `MaxRows` 2: one user of `/users/save` before the one that is refused. Proved for any
  bounds.
- `SqliteLocks`: 2 connections, one each for the application and the web thread, which are all there
  are; 2 pages, so that a commit can be half written; the real `Patience`; 2 commits, so that one can
  overlap what the other leaves; one crash. Safety is proved for any number of all of them.
- `MusicDirs`: 3; a directory more is a step more in one place.

`Deadlock` is checked for `Ews`, where `Over` is the only way to stop. Elsewhere
`CHECK_DEADLOCK FALSE` is due to the bounds (all requests made, all starts used up, all
commits made, the request read) or, in `AppLifecycle`, to the process having ended. Symmetry (of `Browsers`) is used where only
safety is checked.

### Fairness

- `ServerFairness`: the web thread runs queued handlers and returns when there is no work; the
  reactor reports operations on sockets that the server closed. Nothing is assumed of
  peers.
- `PeerFairness`: a peer sends, takes what is sent or hangs up, and does not send an unfinished
  request for ever. The code has no timeout, so this is an assumption about peers that it
  depends on; it is the premise of `PeerIsServed` and `StopIsReached`.
- `MusicScan`: `WF(ScanStep)`: the application thread runs while the process does.
- `SqliteLocks`: a thread that is inside a statement is scheduled (`Runs`), and a thread that steps through
  a select comes to its end (`EndRead`), as all callers in `libs/` do; that no statement waits for
  ever then rests on `busy_handler`'s count and on the order of the locks.
- `AppLifecycle`: each thread is scheduled. For the web thread only that it returns after a stop is
  assumed, which is `StopIsReached` of `Ews`, with its assumption about peers.

## Proofs

`EwsProofs` proves for every set `Conns`, from `NoneNotConn` alone, `TypeCorrect`,
`OneOperationAtATime`, `NoConnectionForgotten` and `NoSocketLeaked`: the four invariants of
`ews`. They are not inductive one by one. That no socket leaks needs that no
handler of a managed connection sees an abortion, which needs that aborted completions
belong to closed sockets (`AbortedIsClosed`), that the object in the accept chain is
open until `handle_accept` (`AcceptedIsOpen`), and that an object with a pending
handler is not taken for the next accept. `IInv` is the conjunction; each handler
has a lemma for the completions that stay in the queue and one for what it changes.

`ServerImplementsService` proves the refinement `OneReply`. The phase of a connection is
read off the one operation or handler that `OneOperation` says it has (`Busy`); lemmas say
what is outstanding after a handler took its completion (`TakenBusy`), added one
(`AddedBusy`) or started an operation (`StartedBusy`), and `ServiceStep` maps each
action to a step of `HttpService` at one connection or to a stutter.

`AppLifecycleProofs` proves for every number of directories (`MusicDirsNat`) `TypeCorrect`,
`NoThreadWithoutServer` and `StopsInOrder`: the invariants of `app_lifecycle`. The
invariant says for each place of one thread what the other may have seen: before `Publish`
there is no App (`Unpublished`), only `stop` takes it apart (`DestroyedByStop`),
and an application thread that scans after it started the web server has published
it (`PublishedByScan`), so that a stop that is not early finds it (`LateStop`).

`PlaylistsProofs` proves, for any songs, requests, failures and restarts, `TypeCorrect`,
`OnlyItsPlaylistHolds` and `NeverSwapsHolds`. The invariant speaks of the statements still in `job`: each is for
a list that exists, that of `asked` unless the request is `/pl/songs/add/pl`, and so are those that it
will be replaced by; a shift is by a natural number and of all
places from one on, which keeps the order; rowids are bounded, so that a new one is
new (`NextRowid` of `NumberFacts`).

The places of a list, `DistinctPlacesHolds`, need a second invariant, `PlacedInv`: within a request
two songs may well share a place. It says that an insert still in `job` either finds its places free or
has the shift that frees them right before it (`Opens`); that a removal's update is followed by the
delete of the one song it moves onto another's place (`Closes`); and that in a reorder whoever has a
place that is still to be given will be moved by a later statement (`PlacesAreFree`), since a
reorder that `placed` survives is of every song of the list (`ReorderPlaces`).

`MusicScanProofs` proves `TypeCorrect`, `NoOrphansEver` and `OneRowPerEntryEver` for any tree, depth and
number of changes and crashes, and, as said below, `MissingRootKeepsRowsEver`,
`MirrorsWhenDoneEver` and `RescanWritesNothingEver`, from `PathsOfNames` (a path is a sequence of names), `PathsClosed`
(and so is its directory), `RootsArePaths` and `DepthIsLimited`. After each
statement the tables must be what a later start can work with, whatever the activations on
the stack know: `StackOK` says that each activation is of a child of the one below it, that what is on
its lists are rows of its directory, and that `destroy` knows all rows that are left below its
directory (`Remains`), so that it deletes the directory's row last.

`PInv` says what each activation has seen of the file system (`Sees`): as long as that does not change,
what is entered, read or reaped is a directory of a root that is there, and what the iterator still has to
return exists. `Deletions` reads `MissingRootKeepsRowsEver` off it. `DirPath` and
`RootPath` are recursive functions over the table; they are unfolded without an induction theorem,
since a directory's rowid is larger than its parent's: of the rows at which the
unfolding failed there would be a least one (`LeastOfNaturals` of `NumberFacts`), and its
parent would be a smaller one.

`OneRowPerEntryEver` needs `DInv`: an entry that the iterator still has to return has no row but those on the
list of what was not seen yet (`NotTwice`), unless it was made while a scan ran. A path keeps that mark, so that
the exception of the property is the one of the invariant.

`MirrorsWhenDoneEver` and `RescanWritesNothingEver` say what a scan is for, for any roots, nested ones too.
`WInv` follows a scan of a file system that does not change: `WalkOK` divides the rows into a
set `U` that the scan has not reached, each below another one or due (`Due`: next for an activation, or of a root that
is still to do or not there), and the others (`Reached`), which are of directories that an activation is at work on
or whose contents are recorded, each entry by one row (`Record`, `Tally`). Of an activation at work it says
that what it has taken off its lists is recorded and the rest is in `U` (`Worked`), so that the end of the loop and of the
reaping leave the directory complete, and free of the second rows that earlier scans made.
`FInv` is what remains when the stack is empty: under a root that is there no row is left
in `U`, so that rows and files agree (`Recorded`), and of a later scan that each list is of the rows of what
its iterator still has to return (`Calm`): it finds a row for everything and has nothing to reap.

`DispatchProofs` proves all six properties of `dispatch`, from `PagesKnown` and `BoundsFit`. The invariant
follows a ticket from where it is generated: a ticket that was logged in for belongs to that
user or to nobody (`LoginsOK`); cookies, replies on their way, the request and the reply
in hand have only such tickets, of the browser they are of (`CookiesOK`, `SessionOK`). A deleted user's
rowid may be used again, his ticket is not. `SavedOK` and `LengthOK` say of the steps inside a
request what the properties say of its end. `HandlersEnd` reduces the handlers to
five outcomes, and each outcome has one lemma; `KnownEnd` is the fifth. That tickets differ is how the model has
`generate_new_ticket`: 25 random letters are taken for unique, although `minstd_rand` is seeded with 32 bits only.

`SqliteLocksProofs` proves, for any number of connections, `ThreadsExcludeEachOther`, `LockTableIsTrue` and
`ProcessKeepsItsLocks`. The three need each other: that the table forbids what excludes is worth
something only while it is true, and it is true only while every place in a
statement has the locks it is said to have (`LocksInv`). Its second half adds the file and the journal:
`TypesAreRight`, `ReadsOneCommit`, `KeepsLastCommit`. `IInv` says which pages may differ from the last
commit, and that whoever changes them has EXCLUSIVE, or is the one connection that restores
a journal before the second one starts.

`RequestParserProofs` proves `EndsWhereItSays` for any requests and any noise, from `RequestTexts` and
`NoiseIsChars` (both are characters), and `ReadsAsSent` from `RequestsAreWritten` as well. First `EndsWhereItSays`. The parser keeps no text, so the invariant relates its state to the
text that it has read: how that ends (`Marks`), its first word (`MethodRead`), and that, once
unfolded, it is complete lines, each header among them described by `headers`, and a line that is pending in
`current_header_name` and `current_header_value` (`HeadersRead`). The text is compared with what the
property reads off it afterwards, the unfolding and the lines of the whole head, so each
lemma says what one more character does to those: to a fold (`FoldAppend`), to the unfolded text
(`UnfoldAppend`), to the lines (`LineAdded`, `NewLine`), to the end of the head (`HeadFound`, `HeadStays`).
`Unfolded` is a recursive function; its equations and what they give for every length come from
`Recursion` and `InductiveSet` of `NumberFacts`, which say as statements about sets what the
library's theorems say with operators.

`ReadsAsSent` is proved from the other end. `OnTheWay` says, of a request that nothing has changed,
what is left on the wire in each state: what the request has still to say there (`Ahead`), whose parts are the uri
(`UriAhead`) and the headers, line by line (`HeaderAhead`), or the rest of the body (`BodyToCome`).
It also ties what the parser has kept to what is gone: `uri` and what is left of it are
the uri that was written, the headers kept so far are those written so far, the last of each name. It is inductive together with
`IInv`: each step takes the first symbol of what is left, and `HeadGoesOn` gives the state that this symbol
leads to, which is why none of these requests is refused. When nothing is left, `FinalDecode` has to
undo the writing, and what that needs are laws of text for every length: that decoding undoes
`Escaped` (`DecodeEscaped`), that `FormElements` reads back each pair of a `FormText` (`FormRead`), and `Elements` each
element of a path (`ElementRead`). All of these are folds, so that one symbol more is one step more of
the fold, and the induction is over the prefixes of a text.

Only model-checked: what is said under fairness (`StopReturns`, `PeerIsServed`, `StopIsReached`,
`ScanEnds`, `SignalEnds`, `StatementsEnd`), which is beyond the prover, and `KeepsARow` of
`music_scan`. Every other invariant and action property of a passing run has a theorem.

## Where the code and its own words differ

1. `handle_stop` (`libs/ews/server.cpp:76`) cancels all operations, but a `handle_accept` queued
   behind it starts another (`ews_stop_cancels`).
2. `Artist::find_or_create` and `Album::find_or_create` test for a null pointer what throws
   (`libs/spinny/artist.cpp:183`), so that the first scan of a new artist ends there
   (`music_scan_first`).
3. `PlayList::insert(PlayList)` reads the wrong list (`libs/spinny/playlist.cpp:297`); the test
   passes because both lists have id 0 (`playlist_copies`).
4. A listing that cannot be prepared leaves its text for the next statement
   (`libs/sqlite/sqlite.hpp:381`), and every listing after `/pl/songs/reorder` is one
   (`dispatch_own_text`). With a session, that next statement is
   `update_access_time`, outside of the `try`: the process ends.
5. SQLite is built without `THREADSAFE`, so that its mutex only counts
   (`libs/sqlite/csrc/os_unix.c:1817`), although two threads share the lock table that
   `os_unix.c:1307` says it protects (`sqlite_unguarded`). All that `SqliteLocks` shows holds with the
   mutex.

Also seen, without a run of their own: `handle_accept` (`libs/ews/server.cpp:63`) continues the accept chain
only after success, so that one failed accept ends it; `/users/list` sets Content-Length before it
has a content, so that it is 0 (`PagesHaveTheirLength` leaves that page out); `/song/img`
sends a status that nothing set; a wrong password is answered by a 500, because
`set_hdf_value` throws without a template; `set_to` measures the content it replaces, so that stock pages go
out with a wrong length; `/pl/songs/add/pl` inserts a list into itself and not into the one asked for
(`libs/handlers/pl.cpp:54`); a reorder of one page gives its songs places that songs of other pages have
(`libs/handlers/pl.cpp:92`); a URL with 128 elements has none for the handlers (`libs/ews/request_parser.cpp:384`); a POST whose
Content-Length is no number ends the process (`libs/ews/request_parser.cpp:271`), and so do rows of `/users/save` that
jsoncpp asserts against and a `.gif` without a slash asked for without a session (`libs/handlers/index.cpp:134`); an entry that is removed
and made again while its directory is iterated over may get two rows, until the next scan.

## Limits

- `Playlists` does not know the spoiled statement buffer; a request there is one whose
  statements are prepared as streamed.
- Artist and album of a file are one flag; a listing without `order by` is taken in rowid order.
- `*con << ... << pl->size()` in `playlist.cpp` leaves the order of evaluation open; the model
  has the one in which `size()` comes first, which the tests pass with.
- In `Dispatch` a request carries any cookie its browser has ever held, not only the
  last one. Guest modes other than the default do nothing in the code and are left out, as
  are the columns and the paging of `/users/list`; the roles between reader and
  administrator behave as one of them.
- `Playlists` leaves out `/pl/reorder`, names and descriptions, and the position of a list
  among the lists.
- `SqliteLocks` records the journal in one step, when it is opened, because no page is written
  before `pager_sync`. An empty new database, I/O errors, an early EXCLUSIVE when the page cache spills, and the end of an unfinished select
  whose deferred writes cannot commit (`vdbeaux.c:1283`, `1377`), which keeps its locks, are left out; no property here speaks of these. In `SqliteUnguarded` what `unixLock` does
  after its decision stays one step.
- `win_main.cpp`, the streaming server (commented out), options and settings, the browser's
  scripts and vendored libraries are not modelled.

## What is left

- `MusicScan` and `Playlists` over one set of tables with `SqliteLocks` between them. Each has the other's
  steps as disturbances now, and takes every statement for one commit, which is what
  `OneCommit` and `LastCommit` give with the mutex. The build lacks it (`sqlite_unguarded`), so that for
  the program as it is built this atomicity is an assumption.
- `Ews` with `Dispatch` in place of its `HandleReadReply` and `HandleReadThrows`: that handlers run one at a time
  is what `OneOperation` and the single web thread give, and `Dispatch` assumes it.
- Most of the repository's lines are vendored libraries (boost, the rest of SQLite, ClearSilver, sigc++, CSparse),
  which are outside of this project; of SQLite only what the threads of Spinny meet in is modelled.
