------------------------------- MODULE Dispatch -------------------------------
(***************************************************************************)
(* Dispatch: what the web thread does with a request that was read whole:  *)
(* the session is looked up, the handlers are asked in their order, the    *)
(* session is renewed and the reply is put together.  Requests are handled *)
(* one after the other; replies travel on their own and pass one another.  *)
(*                                                                         *)
(* All statements go through the text buffer of the thread's one           *)
(* connection.  A load_* call that fails to prepare leaves its text there, *)
(* where the next statement is appended to it; exec always empties it.     *)
(***************************************************************************)
EXTENDS Naturals, Sequences, SequencesExt

CONSTANTS
    Browsers,      \* cookie jars
    Pages,         \* kinds of requests that are made
    MaxUsers,      \* bound: rowids of users
    MaxTickets,    \* bound: tickets generated
    MaxRequests,   \* bound: requests made
    MaxRows,       \* bound: users in one /users/save
    MaxFailures    \* bound: statements and templates that fail

UserPages == {"users/list", "users/del", "users/save"}
\* u2 is empty in the URLs of these.
Guarded == {"index", "file"}
\* "index.gif" is any URL without a slash that ends in .gif: Login takes it for
\* an image and lets it pass, and with u1 empty it is the index that answers.
AllPages == Guarded \cup UserPages
                \cup {"index.gif", "validate", "image", "song/dl", "song/img", "xspf", "info", "tree",
                      "pl/list", "pl/sort", "pl/reorder"}

ASSUME PagesKnown == Pages \subseteq AllPages
ASSUME BoundsFit ==
    /\ {MaxUsers, MaxTickets, MaxRequests, MaxRows, MaxFailures} \subseteq Nat
    /\ MaxUsers >= 2 /\ MaxTickets >= 2

VARIABLES
    up,         \* the process runs
    users,      \* table users: rowid -> [ticket, role]
    tickets,    \* how many tickets were generated
    badOrder,   \* order_by of the list that is shown names no column
    stale,      \* the buffer holds the text of a statement that failed
    foreign,    \* history: a statement was prepared with such text before it
    phase,      \* of the request: "idle", "ticket", "handle", "renew", "send", "write"
    req, rep,   \* the request and its reply
    replies,    \* replies on their way that set a cookie: <<browser, ticket>>
    held,       \* tickets each browser has had as cookie (0: none)
    logins,     \* history: <<browser, user, ticket>> of successful logins
    requests, failures

session == <<users, tickets, logins>>
database == <<badOrder, stale, foreign, failures>>
outside == <<replies, held, requests>>
vars == <<up, session, database, phase, req, rep, outside>>

Roles == {"reader", "admin"}
NoUser == [id |-> 0, ticket |-> 0, role |-> "reader"]
Row(u) == [id |-> u, ticket |-> users[u].ticket, role |-> users[u].role]
WhoHas(t) == {u \in DOMAIN users : users[u].ticket = t}

\* generate_new_ticket: 25 letters from a generator seeded by the random device.
\* That two tickets differ is assumed; the seed has 32 bits.
\* Mistaken variant: the ticket is saved before it is generated.
NewTicketMissing == 0
\* Mistaken variant: the generator is seeded with a constant.
NewTicketSeeded == 1
NewTicket == tickets + 1
NewUser == 1 + Max(DOMAIN users \cup {0})

WithUser(id, values) ==
    [u \in DOMAIN users \cup {id} |-> IF u = id THEN values ELSE users[u]]

NoReq == [b |-> "none", page |-> "none", arg |-> 0,
          rows |-> <<>>, done |-> 0, ticket |-> 0, user |-> NoUser]

\* content and length are named by what the text is; length is what
\* Content-Length was taken from, "none" while there is no such header.
NewReply == [status |-> 0, line |-> 0, content |-> "", length |-> "none", template |-> FALSE,
             user |-> NoUser, ticket |-> 0]

------------------------------------------------------------------------------
(* class reply.                                                            *)

\* set_header does not replace a header.
BasicHeaders(r) ==
    [r EXCEPT !.status = 200,
              !.length = IF r.length = "none" THEN r.content ELSE r.length]

\* set_to measures the content it is about to replace, and drops the cookie.
SetTo(r, s) ==
    [BasicHeaders([r EXCEPT !.length = "none"])
        EXCEPT !.status = s, !.content = "stock", !.ticket = 0]

Page(r) == BasicHeaders([r EXCEPT !.content = "page"])
Template(r) == [BasicHeaders(r) EXCEPT !.template = TRUE, !.content = "hdf"]

------------------------------------------------------------------------------
(* Statements.                                                             *)

\* The statements of a step are prepared and run.
Clean == ~stale /\ UNCHANGED <<stale, foreign, failures>>

\* One of them is not, for the database is locked or, behind a stale text,
\* because it makes no sense.  Whether load_* leaves text depends on whether it
\* failed to prepare or to step; first is the kind of the step's first statement.
Fails(first, kinds) ==
    \/ /\ stale
       /\ stale' = (first = "load") /\ foreign' = TRUE
       /\ UNCHANGED failures
    \/ /\ ~stale /\ failures < MaxFailures
       /\ stale' \in IF "load" \in kinds THEN BOOLEAN ELSE {FALSE}
       /\ failures' = failures + 1
       /\ UNCHANGED foreign

\* order_by names no column: load_stored fails to prepare.
Unlistable == ~stale /\ stale' = TRUE /\ UNCHANGED <<foreign, failures>>

------------------------------------------------------------------------------
Init ==
    /\ up = TRUE
    /\ users = <<[ticket |-> 1, role |-> "admin"], [ticket |-> 2, role |-> "reader"]>>
    /\ tickets = 2
    /\ badOrder = FALSE /\ stale = FALSE /\ foreign = FALSE
    /\ phase = "idle" /\ req = NoReq /\ rep = NewReply
    /\ replies = {}
    /\ held = [b \in Browsers |-> {0}]
    /\ logins = {}
    /\ requests = 0 /\ failures = 0

\* An exception leaves the web thread, or a null pointer is used.
Die ==
    /\ up' = FALSE /\ phase' = "idle"
    /\ req' = NoReq /\ rep' = NewReply
    /\ UNCHANGED <<session, badOrder, outside>>

\* The process is started again: the buffer is new, and the order of the list
\* of all songs, which is in memory.
Restart ==
    /\ ~up
    /\ up' = TRUE /\ stale' = FALSE
    /\ badOrder' \in {badOrder, FALSE}
    /\ UNCHANGED <<session, foreign, failures, phase, req, rep, outside>>

\* A row may hold what jsoncpp answers with an exception, or what it asserts
\* against: a row that is no object, a value that is no string or number.
RowsToSave ==
    [id : 0..MaxUsers, role : Roles] \cup [id : {1}, role : {"unreadable", "aborts"}]

\* A request was parsed.  It carries the cookie its browser had when it sent it.
Receive(b, page, arg, rows) ==
    /\ up /\ phase = "idle" /\ requests < MaxRequests
    /\ page \in Pages
    /\ \E t \in held[b] :
          /\ req' = [b |-> b, page |-> page, arg |-> arg, rows |-> rows, done |-> 0,
                     ticket |-> t, user |-> NoUser]
          /\ phase' = IF t = 0 THEN "handle" ELSE "ticket"
    /\ rep' = NewReply
    /\ requests' = requests + 1
    /\ UNCHANGED <<up, session, database, replies, held>>

\* A POST whose Content-Length is no number: bad_lexical_cast leaves
\* handle_read, and with it the thread.
LengthNoNumber ==
    /\ up /\ phase = "idle" /\ requests < MaxRequests
    /\ Die /\ UNCHANGED <<stale, foreign, failures>>

------------------------------------------------------------------------------
(* request_parser::perform_final_decode: the session.                      *)

\* Mistaken variant: not_found is not caught.
LookUpUncaught ==
    /\ up /\ phase = "ticket"
    /\ Clean
    /\ IF WhoHas(req.ticket) = {} THEN Die
       ELSE /\ \E u \in WhoHas(req.ticket) : req' = [req EXCEPT !.user = Row(u)]
            /\ phase' = "handle"
            /\ UNCHANGED <<up, session, badOrder, rep, outside>>

LookUp ==
    /\ up /\ phase = "ticket"
    /\ Clean
    /\ \/ \E u \in WhoHas(req.ticket) : req' = [req EXCEPT !.user = Row(u)]
       \/ WhoHas(req.ticket) = {} /\ UNCHANGED req
    /\ phase' = "handle"
    /\ UNCHANGED <<up, session, badOrder, rep, outside>>

\* Only not_found is caught there.
LookUpFails == up /\ phase = "ticket" /\ Fails("load", {"load"}) /\ Die

------------------------------------------------------------------------------
(* The handlers.                                                           *)

HasSession == req.user # NoUser

\* The request is at the handler that answers this page.  Login comes first: it
\* answers pages without u2 when there is no session.
Asked(page) ==
    /\ up /\ phase = "handle" /\ req.page = page
    /\ HasSession \/ page \notin Guarded

\* The handler returned Stop, or handle_request caught what it threw.
Answer(reply) ==
    /\ rep' = reply
    /\ phase' = "renew"
    /\ UNCHANGED <<up, req, outside>>

Throws(s) == Answer(SetTo(rep, s))
\* ews::error and its kin: the stock page is replaced by another.
ThrowsEws(s) == Answer([SetTo(rep, s) EXCEPT !.content = "html"])

ShowLogin ==
    /\ up /\ phase = "handle" /\ ~HasSession /\ req.page \in Guarded
    /\ Clean
    /\ Answer(BasicHeaders([rep EXCEPT !.template = TRUE]))
    /\ UNCHANGED <<session, badOrder>>

\* Without a template set_hdf_value throws, so a wrong password gives a 500.
Validate ==
    /\ Asked("validate") /\ Clean
    /\ \/ req.arg \notin DOMAIN users /\ Throws(404) /\ UNCHANGED session
       \/ req.arg \in DOMAIN users /\ Throws(500) /\ UNCHANGED session
       \/ /\ req.arg \in DOMAIN users /\ tickets < MaxTickets
          /\ users' = [users EXCEPT ![req.arg].ticket = NewTicket]
          /\ tickets' = tickets + 1
          /\ logins' = logins \cup {<<req.b, req.arg, NewTicket>>}
          /\ Answer(SetTo([rep EXCEPT !.user = [Row(req.arg) EXCEPT !.ticket = NewTicket]],
                          302))
    /\ UNCHANGED badOrder

\* handlers::requireAuth
\* Mistaken variant: it asks for a session only.
NotAllowedNever == FALSE

NotAllowed ==
    /\ up /\ phase = "handle" /\ req.page \in UserPages
    /\ HasSession /\ req.user.role # "admin"

Refuse == NotAllowed /\ ThrowsEws(500) /\ UNCHANGED <<session, database>>

\* requireAuth, or the index, looks at a user that is not there.
NoSession ==
    /\ up /\ phase = "handle" /\ ~HasSession
    /\ req.page \in UserPages \cup {"index.gif"}
    /\ Die /\ UNCHANGED <<stale, foreign, failures>>

Allowed(page) == Asked(page) /\ HasSession /\ ~NotAllowed

\* The headers are set first, so Content-Length is that of no content yet.
ListUsers ==
    /\ Allowed("users/list") /\ Clean
    /\ Answer([BasicHeaders(rep) EXCEPT !.content = "page"])
    /\ UNCHANGED <<session, badOrder>>

DelUser ==
    /\ Allowed("users/del") /\ Clean
    /\ users' = Restrict(users, DOMAIN users \ {req.arg})
    /\ IF req.arg \in DOMAIN users THEN Answer(BasicHeaders(rep)) ELSE Throws(404)
    /\ UNCHANGED <<tickets, logins, badOrder>>

\* The next user of /users/save is loaded or created, changed and saved.  What
\* was saved before stays when a later one is refused.
SaveUser ==
    /\ Allowed("users/save") /\ req.done < Len(req.rows) /\ Clean
    /\ LET row == req.rows[req.done + 1] IN
       \/ row.id \notin DOMAIN users \cup {0} /\ Throws(404) /\ UNCHANGED session
       \/ /\ row.id \in DOMAIN users \cup {0} /\ row.role = "unreadable"
          /\ Throws(500) /\ UNCHANGED session
       \/ /\ row.id \in DOMAIN users /\ row.role \in Roles
          /\ users' = [users EXCEPT ![row.id].role = row.role]
          /\ req' = [req EXCEPT !.done = @ + 1]
          /\ UNCHANGED <<up, phase, rep, outside, tickets, logins>>
       \/ /\ row.id = 0 /\ row.role \in Roles
          /\ NewUser <= MaxUsers /\ tickets < MaxTickets
          /\ users' = WithUser(NewUser, [ticket |-> NewTicket, role |-> row.role])
          /\ tickets' = tickets + 1
          /\ req' = [req EXCEPT !.done = @ + 1]
          /\ UNCHANGED <<up, phase, rep, outside, logins>>
    /\ UNCHANGED badOrder

\* jsoncpp's asserts are in the build: nothing defines NDEBUG.
SaveAborts ==
    /\ Allowed("users/save") /\ req.done < Len(req.rows)
    /\ req.rows[req.done + 1].role = "aborts"
    /\ Die /\ UNCHANGED <<stale, foreign, failures>>

\* All are saved.  Data that is no JSON array has no rows, and throws.
SavedAll ==
    /\ Allowed("users/save") /\ req.done = Len(req.rows)
    /\ \/ Answer(BasicHeaders(rep))
       \/ req.rows = <<>> /\ ThrowsEws(500)
    /\ UNCHANGED <<session, database>>

\* The songs of a list, each with the URL for the session's ticket: without a
\* session that is a null pointer, unless there are no songs.
Xspf ==
    /\ Asked("xspf")
    /\ \/ badOrder /\ Unlistable /\ Throws(500)
       \/ ~badOrder /\ Clean /\ Answer(Template(rep))
       \/ ~badOrder /\ Clean /\ ~HasSession /\ Die
    /\ UNCHANGED <<session, badOrder>>

\* The ticket in the URL is what lets a player have the song.
SongAsked == Asked("song/dl") \/ Asked("song/img")

SongRefused ==
    /\ SongAsked
    /\ \/ req.arg = 0 /\ ThrowsEws(500) /\ UNCHANGED <<stale, foreign, failures>>
       \/ req.arg # 0 /\ Clean /\ (Throws(404) \/ Throws(500))
       \/ WhoHas(req.arg) # {} /\ Clean /\ ThrowsEws(403)
    /\ UNCHANGED <<session, badOrder>>

\* For /song/img nothing sets the status; it has whatever value the memory had.
SendSong ==
    /\ SongAsked /\ WhoHas(req.arg) # {} /\ Clean
    /\ \/ req.page = "song/dl" /\ (Answer(Page(rep)) \/ ThrowsEws(404))
       \/ /\ req.page = "song/img"
          /\ \E s \in {0, 200, 302, 404, 500} : Answer([rep EXCEPT !.status = s])
    /\ UNCHANGED <<session, badOrder>>

\* /pl/songs/list and, with a sort column, PlayList::set_order before it.
ListSongs ==
    /\ \/ Asked("pl/list") /\ UNCHANGED badOrder
       \/ Asked("pl/sort") /\ badOrder' = FALSE
    /\ \/ ~badOrder' /\ Clean /\ Answer(Page(rep))
       \/ badOrder' /\ Unlistable /\ Throws(500)
       \/ Clean /\ Throws(500)    \* start or limit is no number
    /\ UNCHANGED session

\* /pl/songs/reorder ends with order_by = "upper(playlist_songs)".
\* On the list of all songs it is no statement.
Reorder ==
    /\ Asked("pl/reorder")
    /\ Clean \/ UNCHANGED <<stale, foreign, failures>>
    /\ badOrder' = TRUE
    /\ Answer(BasicHeaders(rep))
    /\ UNCHANGED session

Index ==
    /\ Asked("index") \/ (Asked("index.gif") /\ HasSession)
    /\ \/ /\ req.user.role = "admin" /\ Clean /\ Answer(Template(rep))
       \/ /\ req.user.role # "admin" /\ Answer(BasicHeaders(rep))
          /\ UNCHANGED <<stale, foreign, failures>>
    /\ UNCHANGED <<session, badOrder>>

\* The content is read and then measured.
Info ==
    /\ Asked("info") /\ Clean
    /\ Answer(Page(rep))
    /\ UNCHANGED <<session, badOrder>>

\* Here the content is begun before anything can go wrong.
Tree ==
    /\ Asked("tree")
    /\ LET begun == [rep EXCEPT !.content = "part"] IN
       \/ Clean /\ (Answer(Page(rep)) \/ Answer(SetTo(begun, 404)))
       \/ /\ \E text \in {"stock", "html"} :
                 Answer([SetTo(begun, 500) EXCEPT !.content = text])
          /\ UNCHANGED <<stale, foreign, failures>>
    /\ UNCHANGED <<session, badOrder>>

\* A value that a handler starts with is no number, or names what is not there.
BadArgument ==
    /\ \/ req.page \in {"users/list", "users/del"} /\ Allowed(req.page)
       \/ req.page \in {"xspf", "info", "pl/list", "pl/sort", "pl/reorder"} /\ Asked(req.page)
    /\ \/ Throws(500) /\ UNCHANGED <<stale, foreign, failures>>
       \/ req.page \notin UserPages /\ Clean /\ Throws(404)
    /\ UNCHANGED <<session, badOrder>>

Files ==
    /\ Asked("file") \/ Asked("image")
    /\ Answer(Page(rep)) \/ ThrowsEws(404) \/ ThrowsEws(500)
    /\ UNCHANGED <<session, database>>

\* The kinds of statements a handler makes, the first of them and all.
FirstOf(page) ==
    CASE page = "validate" -> "exec"
      [] page = "users/save" -> IF req.rows[req.done + 1].id = 0 THEN "exec" ELSE "load"
      [] page \in Guarded /\ ~HasSession -> "exec"
      [] OTHER -> "load"

Queries ==
    /\ up /\ phase = "handle"
    /\ \/ ~HasSession /\ req.page \in Guarded
       \/ (Asked("index") \/ (Asked("index.gif") /\ HasSession)) /\ req.user.role = "admin"
       \/ req.page \in UserPages /\ Allowed(req.page)
             /\ (req.page = "users/save" => req.done < Len(req.rows))
       \/ req.page \in {"song/dl", "song/img"} /\ req.arg # 0
       \/ req.page \in {"validate", "xspf", "info", "tree", "pl/list", "pl/sort", "pl/reorder"}

\* handle_request catches database_error as a std::exception; some content may
\* have been written.
HandlerFails ==
    /\ Queries
    /\ Fails(FirstOf(req.page),
             IF FirstOf(req.page) = "exec" /\ req.page # "validate"
             THEN {"exec"} ELSE {"load", "exec"})
    /\ \E some \in {"", "part"} : Answer(SetTo([rep EXCEPT !.content = some], 500))
    /\ UNCHANGED <<session, badOrder>>

Handle ==
    \/ ShowLogin \/ Validate
    \/ Refuse \/ NoSession \/ ListUsers \/ DelUser \/ SaveUser \/ SaveAborts \/ SavedAll
    \/ Xspf \/ SongRefused \/ SendSong \/ ListSongs \/ Reorder
    \/ Index \/ Info \/ Tree \/ BadArgument \/ Files
    \/ HandlerFails

------------------------------------------------------------------------------
(* The end of handle_request, and the reply.                               *)

RepUser == IF rep.user # NoUser THEN rep.user ELSE req.user

\* Mistaken variant: the user is saved, as he was when the request came.
RenewSaves ==
    /\ up /\ phase = "renew"
    /\ rep' = [rep EXCEPT !.user = RepUser, !.ticket = RepUser.ticket]
    /\ phase' = "send"
    /\ \/ RepUser = NoUser /\ UNCHANGED <<stale, foreign, failures>>
       \/ RepUser # NoUser /\ Clean
    /\ users' = [u \in DOMAIN users |->
                    IF u = RepUser.id THEN [ticket |-> RepUser.ticket, role |-> RepUser.role]
                    ELSE users[u]]
    /\ UNCHANGED <<up, tickets, logins, badOrder, req, outside>>

\* Set-Cookie, and update_access_time, which writes the time only.
Renew ==
    /\ up /\ phase = "renew"
    /\ rep' = [rep EXCEPT !.user = RepUser, !.ticket = RepUser.ticket]
    /\ phase' = "send"
    /\ \/ RepUser = NoUser /\ UNCHANGED <<stale, foreign, failures>>
       \/ RepUser # NoUser /\ Clean
    /\ UNCHANGED <<up, session, badOrder, req, outside>>

\* update_access_time is outside the try block.
RenewFails ==
    /\ up /\ phase = "renew" /\ RepUser # NoUser
    /\ Fails("exec", {"exec"}) /\ Die

\* Mistaken variant: the length is set with set_header.
RenderKeeps(r) == [r EXCEPT !.content = "page",
                            !.length = IF @ = "none" THEN "page" ELSE @]

\* A template is filled in and its length replaces the one before.
Render(r) == [r EXCEPT !.content = "page", !.length = "page"]

\* Any other value has the line of an internal server error.
Line == IF rep.status = 0 THEN 500 ELSE rep.status

Rendered == rep.template /\ rep.status = 200

\* reply::to_buffers: the status line is taken before the template is tried.
\* The connection writes what results.
ToBuffers ==
    /\ up /\ phase = "send"
    /\ \/ rep' = [(IF Rendered THEN Render(rep) ELSE rep) EXCEPT !.line = Line]
          /\ UNCHANGED failures
       \/ /\ Rendered /\ failures < MaxFailures
          /\ failures' = failures + 1
          /\ \E left \in {rep.content, "part"} :
                rep' = SetTo([rep EXCEPT !.content = left, !.line = Line], 500)
    /\ phase' = "write"
    /\ UNCHANGED <<up, session, badOrder, stale, foreign, req, outside>>

\* The reply is on its way and the thread takes the next request.
Write ==
    /\ up /\ phase = "write"
    /\ replies' = replies \cup {<<req.b, t>> : t \in {rep.ticket} \ {0}}
    /\ phase' = "idle" /\ req' = NoReq /\ rep' = NewReply
    /\ UNCHANGED <<up, session, database, held, requests>>

\* A reply arrives, in any order.
Deliver(b, t) ==
    /\ replies' = replies \ {<<b, t>>}
    /\ held' = [held EXCEPT ![b] = @ \cup {t}]
    /\ UNCHANGED <<up, session, database, phase, req, rep, requests>>

Next ==
    \/ \E b \in Browsers, page \in Pages :
          \/ /\ page \in {"validate", "users/del"}
             /\ \E u \in 0..MaxUsers : Receive(b, page, u, <<>>)
          \/ /\ page \in {"song/dl", "song/img"}
             /\ \E t \in 0..MaxTickets : Receive(b, page, t, <<>>)
          \/ /\ page = "users/save"
             /\ \E n \in 0..MaxRows : \E rows \in [1..n -> RowsToSave] :
                   Receive(b, page, 0, rows)
          \/ /\ page \notin {"validate", "users/del", "song/dl", "song/img", "users/save"}
             /\ Receive(b, page, 0, <<>>)
    \/ LengthNoNumber
    \/ LookUp \/ LookUpFails
    \/ Handle
    \/ Renew \/ RenewFails \/ ToBuffers \/ Write
    \/ \E r \in replies : Deliver(r[1], r[2])
    \/ Restart

Spec == Init /\ [][Next]_vars

------------------------------------------------------------------------------
(* Properties.                                                             *)

\* The types of the tables and of the request in hand; every ticket there is
\* was generated.
TypeOK ==
    /\ DOMAIN users \subseteq 1..MaxUsers
    /\ \A u \in DOMAIN users :
          users[u].ticket \in 1..tickets /\ users[u].role \in Roles
    /\ tickets \in 2..MaxTickets
    /\ {up, badOrder, stale, foreign} \subseteq BOOLEAN
    /\ phase \in {"idle", "ticket", "handle", "renew", "send", "write"}
    /\ phase = "idle" <=> req = NoReq
    /\ req.user.id \in 0..MaxUsers /\ req.done <= Len(req.rows)
    /\ {rep.status, rep.line} \subseteq {0, 200, 302, 403, 404, 500}
    /\ \A b \in Browsers : held[b] \subseteq 0..tickets

\* Whatever cookies a browser has been given, by replies in any order, and
\* whoever was created or deleted meanwhile: it acts as a user only by a ticket
\* that it logged in for as that user.
SessionsAreEarned ==
    \A b \in Browsers, t \in 1..tickets, u \in DOMAIN users :
        t \in held[b] /\ users[u].ticket = t => <<b, u, t>> \in logins

\* When /users/save answers 200 the table has what was asked for, also about the
\* user who asked, whose old copy the renewal of the session still has.
SavedAsAsked ==
    phase = "send" /\ req.page = "users/save" /\ rep.status = 200 =>
        \A i \in DOMAIN req.rows :
            LET row == req.rows[i]
                again == \E j \in DOMAIN req.rows : j > i /\ req.rows[j].id = row.id
            IN row.id = 0 \/ again \/ users[row.id].role = row.role

\* Content-Length, which is taken at different times from what may not be the
\* content yet, is right in the end for what the handlers themselves made and
\* answer with 200: templates, texts and files.  /users/list is the one for which
\* it is not, and /song/img has none.  Stock and error pages are left out: set_to
\* measures the content that it replaces.
PagesHaveTheirLength ==
    /\ phase = "write" /\ rep.line = 200 /\ rep.content # "stock"
    /\ req.page \notin {"users/list", "song/img"}
    => rep.length = rep.content

Accounts == [u \in DOMAIN users |-> users[u].role]

\* Users are created, deleted and given roles only by an administrator, who
\* logged in from the browser that asks.
AdminsChangeAccounts ==
    [][ Accounts' # Accounts =>
            /\ req.user.role = "admin"
            /\ <<req.b, req.user.id, req.ticket>> \in logins ]_vars

\* Every way the process ends, and no other: before a request is read whole,
\* when its length is no number; while the session is looked up or renewed, when
\* the statement fails; in a handler, for four requests without a session or for
\* an administrator's row that jsoncpp asserts against.  A statement that fails
\* in a handler, an old cookie, a request for what is not there, a template that
\* cannot be filled in and a reply being sent never end it.
KnownEnds ==
    [][ up /\ ~up' =>
            \/ phase = "idle"
            \/ phase \in {"ticket", "renew"} /\ (stale \/ failures' > failures)
            \/ /\ phase = "handle"
               /\ \/ /\ req.user = NoUser
                     /\ req.page \in UserPages \cup {"xspf", "index.gif"}
                  \/ /\ req.page = "users/save" /\ req.user.role = "admin"
                     /\ req.rows[req.done + 1].role = "aborts" ]_vars

\* A statement is what its caller streamed (sqlite.hpp: "exec whatever statement
\* has been streamed in"), not what another one left behind.
OwnText == ~foreign
==============================================================================
