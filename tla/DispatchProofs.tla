---------------------------- MODULE DispatchProofs ----------------------------
(***************************************************************************)
(* Proofs about Dispatch, for any browsers, pages and bounds.              *)
(*                                                                         *)
(* A ticket is generated once.  The invariant follows it from the login to *)
(* the reply, the cookie and the next request: whoever has it logged in    *)
(* for it, and no other user ever gets it.                                 *)
(***************************************************************************)
EXTENDS Dispatch, NumberFacts, SequenceTheorems

Users == [id : 0..MaxUsers, ticket : Nat, role : Roles]
Statuses == {0, 200, 302, 403, 404, 500}
Texts == {"", "page", "stock", "hdf", "part", "html", "none"}
Requests == [b : Browsers \cup {"none"}, page : Pages \cup {"none"}, arg : Nat,
             rows : Seq(RowsToSave), done : Nat, ticket : Nat, user : Users]
ReplyTypes == [status : Statuses, line : Statuses, content : Texts, length : Texts,
               template : BOOLEAN, user : Users, ticket : Nat]

TablesOK ==
    /\ tickets \in 2..MaxTickets
    /\ DOMAIN users \subseteq 1..MaxUsers
    /\ \A u \in DOMAIN users : users[u] \in [ticket : 1..tickets, role : Roles]

BufferOK == stale \in BOOLEAN /\ foreign \in BOOLEAN /\ failures \in Nat

\* Nobody writes to the reply before the handlers, and there is a request exactly
\* while the thread is at one.
FlowOK ==
    /\ up \in BOOLEAN /\ badOrder \in BOOLEAN
    /\ phase \in {"idle", "ticket", "handle", "renew", "send", "write"}
    /\ req \in Requests /\ rep \in ReplyTypes
    /\ phase = "idle" => req = NoReq
    /\ phase # "idle" => req.b \in Browsers /\ req.page \in Pages
    /\ phase \in {"idle", "ticket", "handle"} => rep = NewReply
    /\ req.done <= Len(req.rows)

\* A ticket that was logged in for is of that user or of nobody.
LoginsOK ==
    /\ logins \subseteq Browsers \X (1..MaxUsers) \X (1..tickets)
    /\ \A b \in Browsers, u \in 1..MaxUsers, t \in 1..tickets, v \in DOMAIN users :
          <<b, u, t>> \in logins /\ users[v].ticket = t => v = u

Earned(b, t) == t \in 1..tickets /\ \E u \in 1..MaxUsers : <<b, u, t>> \in logins

\* Cookies, those on their way too, were given for logins.
CookiesOK ==
    /\ held \in [Browsers -> SUBSET Nat]
    /\ \A b \in Browsers : \A t \in held[b] : t = 0 \/ Earned(b, t)
    /\ replies \subseteq Browsers \X Nat
    /\ \A b \in Browsers, t \in Nat : <<b, t>> \in replies => Earned(b, t)

\* So were the ticket of the request and of the reply, whose users are who
\* logged in.
SessionOK ==
    /\ req.ticket # 0 => Earned(req.b, req.ticket)
    /\ req.user # NoUser =>
          /\ req.user.ticket = req.ticket /\ req.ticket # 0
          /\ <<req.b, req.user.id, req.ticket>> \in logins
    /\ rep.user # NoUser => <<req.b, rep.user.id, rep.user.ticket>> \in logins
    /\ rep.ticket # 0 => Earned(req.b, rep.ticket)

Again(i) == \E j \in DOMAIN req.rows : j > i /\ req.rows[j].id = req.rows[i].id

\* What /users/save has done so far is there; it answers 200 after all of it.
SavedOK ==
    /\ req.page = "users/save" =>
          \A i \in 1..req.done :
              \/ req.rows[i].id = 0
              \/ Again(i)
              \/ /\ req.rows[i].id \in DOMAIN users
                 /\ users[req.rows[i].id].role = req.rows[i].role
    /\ phase \in {"renew", "send"} /\ req.page = "users/save" /\ rep.status = 200 =>
          req.done = Len(req.rows)

Measured == req.page \notin {"users/list", "song/img"}

\* What a handler leaves has its length, or is a template, whose length is taken
\* when it is filled in.
LengthOK ==
    /\ phase \in {"renew", "send"} /\ rep.status = 200 /\ Measured =>
          rep.template \/ rep.length = rep.content
    /\ PagesHaveTheirLength

IInv ==
    /\ TablesOK /\ BufferOK /\ FlowOK
    /\ LoginsOK /\ CookiesOK /\ SessionOK
    /\ SavedOK /\ LengthOK

------------------------------------------------------------------------------
(* Replies.                                                                *)

LEMMA FirstReply == NewReply \in ReplyTypes /\ NoUser \in Users
BY BoundsFit DEF NewReply, ReplyTypes, NoUser, Users, Roles, Statuses, Texts

\* A reply stays one whatever field of it is set.
LEMMA SetField ==
    ASSUME NEW r \in ReplyTypes
    PROVE  /\ \A s \in Statuses : [r EXCEPT !.status = s] \in ReplyTypes
           /\ \A s \in Statuses : [r EXCEPT !.line = s] \in ReplyTypes
           /\ \A text \in Texts : [r EXCEPT !.content = text] \in ReplyTypes
           /\ \A text \in Texts : [r EXCEPT !.length = text] \in ReplyTypes
           /\ \A u \in Users : [r EXCEPT !.user = u] \in ReplyTypes
           /\ \A t \in Nat : [r EXCEPT !.ticket = t] \in ReplyTypes
           /\ [r EXCEPT !.template = TRUE] \in ReplyTypes
<1>1. \A s \in Statuses : [r EXCEPT !.status = s] \in ReplyTypes
    BY DEF ReplyTypes
<1>2. \A s \in Statuses : [r EXCEPT !.line = s] \in ReplyTypes
    BY DEF ReplyTypes
<1>3. \A text \in Texts : [r EXCEPT !.content = text] \in ReplyTypes
    BY DEF ReplyTypes
<1>4. \A text \in Texts : [r EXCEPT !.length = text] \in ReplyTypes
    BY DEF ReplyTypes
<1>5. \A u \in Users : [r EXCEPT !.user = u] \in ReplyTypes
    BY DEF ReplyTypes
<1>6. \A t \in Nat : [r EXCEPT !.ticket = t] \in ReplyTypes
    BY DEF ReplyTypes
<1>7. [r EXCEPT !.template = TRUE] \in ReplyTypes
    BY DEF ReplyTypes
<1> QED BY <1>1, <1>2, <1>3, <1>4, <1>5, <1>6, <1>7

LEMMA BasicReply ==
    ASSUME NEW r \in ReplyTypes
    PROVE  /\ BasicHeaders(r) \in ReplyTypes
           /\ BasicHeaders(r).status = 200
           /\ BasicHeaders(r).content = r.content
           /\ BasicHeaders(r).length = IF r.length = "none" THEN r.content ELSE r.length
           /\ BasicHeaders(r).template = r.template
           /\ BasicHeaders(r).user = r.user /\ BasicHeaders(r).ticket = r.ticket
<1> DEFINE n == IF r.length = "none" THEN r.content ELSE r.length
           q == [r EXCEPT !.status = 200]
           p == [q EXCEPT !.length = n]
<1>1. BasicHeaders(r) = p
    BY DEF BasicHeaders
<1>2. n \in Texts /\ 200 \in Statuses
    BY DEF ReplyTypes, Statuses
<1> HIDE DEF n
<1>3. p \in ReplyTypes
    <2>1. q \in ReplyTypes
        BY <1>2, SetField
    <2> HIDE DEF q
    <2> QED BY <1>2, <2>1, SetField
<1>4. /\ p.status = 200 /\ p.content = r.content /\ p.length = n
      /\ p.user = r.user /\ p.ticket = r.ticket
    BY DEF ReplyTypes
<1>5. p.template = r.template
    BY Zenon DEF ReplyTypes
<1> QED BY <1>1, <1>3, <1>4, <1>5 DEF n

LEMMA StockReply ==
    ASSUME NEW r \in ReplyTypes, NEW s \in Statuses \ {200}
    PROVE  /\ SetTo(r, s) \in ReplyTypes
           /\ SetTo(r, s).status = s
           /\ SetTo(r, s).content = "stock"
           /\ SetTo(r, s).user = r.user /\ SetTo(r, s).ticket = 0
<1> DEFINE q == [r EXCEPT !.length = "none"]
           p == BasicHeaders(q)
           p1 == [p EXCEPT !.status = s]
           p2 == [p1 EXCEPT !.content = "stock"]
           p3 == [p2 EXCEPT !.ticket = 0]
<1>1. "none" \in Texts /\ "stock" \in Texts
    BY DEF Texts
<1>2. q \in ReplyTypes /\ q.user = r.user
    BY <1>1, SetField DEF ReplyTypes
<1>3. p \in ReplyTypes /\ p.user = r.user
    <2> HIDE DEF q
    <2> QED BY <1>2, BasicReply
<1>4. SetTo(r, s) = p3
    BY DEF SetTo
<1> HIDE DEF p
<1>5. p1 \in ReplyTypes /\ p1.status = s /\ p1.user = r.user
    BY <1>3, SetField DEF ReplyTypes
<1> HIDE DEF p1
<1>6. p2 \in ReplyTypes /\ p2.status = s /\ p2.user = r.user /\ p2.content = "stock"
    BY <1>1, <1>5, SetField DEF ReplyTypes
<1> HIDE DEF p2
<1>7. /\ p3 \in ReplyTypes /\ p3.status = s /\ p3.user = r.user
      /\ p3.content = "stock" /\ p3.ticket = 0
    BY <1>6, SetField DEF ReplyTypes
<1> HIDE DEF p3
<1> QED BY <1>4, <1>7

\* What an answer of a handler is, in terms of its reply.
Answered(r) ==
    /\ r \in ReplyTypes /\ r.ticket = 0
    /\ r.status = 200 /\ Measured => r.template \/ r.length = r.content
    /\ r.status = 200 /\ req.page = "users/save" => req.done = Len(req.rows)

\* An error is one, whatever the page was.
LEMMA ErrorAnswers ==
    ASSUME NEW r \in ReplyTypes, NEW s \in Statuses \ {200}
    PROVE  /\ Answered(SetTo(r, s))
           /\ \A text \in Texts : Answered([SetTo(r, s) EXCEPT !.content = text])
<1> DEFINE p == SetTo(r, s)
<1>1. p \in ReplyTypes /\ p.status = s /\ p.ticket = 0
    BY StockReply
<1> HIDE DEF p
<1>2. Answered(p)
    BY <1>1 DEF Answered
<1>3. ASSUME NEW text \in Texts PROVE Answered([p EXCEPT !.content = text])
    BY <1>1 DEF Answered, ReplyTypes
<1> QED BY <1>2, <1>3 DEF p

\* Nobody is named in it and it has no ticket.
Anonymous(r) == r \in ReplyTypes /\ r.user = NoUser /\ r.ticket = 0
Sized(r) == r.template \/ r.length = r.content

\* What handlers answer with.
LEMMA AnswersToNew ==
    /\ Anonymous(NewReply)
    /\ Anonymous(BasicHeaders(NewReply)) /\ Sized(BasicHeaders(NewReply))
    /\ Anonymous(Page(NewReply)) /\ Sized(Page(NewReply))
    /\ Anonymous(Template(NewReply)) /\ Sized(Template(NewReply))
    /\ Anonymous(BasicHeaders([NewReply EXCEPT !.template = TRUE]))
    /\ Sized(BasicHeaders([NewReply EXCEPT !.template = TRUE]))
    /\ Anonymous([BasicHeaders(NewReply) EXCEPT !.content = "page"])
<1> DEFINE basic == BasicHeaders(NewReply)
           page == [NewReply EXCEPT !.content = "page"]
           templ == [NewReply EXCEPT !.template = TRUE]
<1>1. NewReply \in ReplyTypes
    BY FirstReply
<1>2. NewReply.length = "none" /\ NewReply.user = NoUser /\ NewReply.ticket = 0
    BY DEF NewReply
<1>3. "page" \in Texts /\ "hdf" \in Texts
    BY DEF Texts
<1>4. Anonymous(NewReply)
    BY <1>1, <1>2 DEF Anonymous
<1>5. basic \in ReplyTypes /\ basic.length = basic.content /\ Anonymous(basic)
    BY <1>1, <1>2, BasicReply DEF Anonymous
<1>6. /\ page \in ReplyTypes /\ page.length = "none" /\ page.user = NoUser /\ page.ticket = 0
      /\ templ \in ReplyTypes /\ templ.user = NoUser /\ templ.ticket = 0
    <2>1. page \in ReplyTypes /\ templ \in ReplyTypes
        BY <1>1, <1>3, SetField
    <2> QED BY <2>1 DEF NewReply
<1>7. templ.template = TRUE
    BY DEF NewReply
<1> HIDE DEF page, templ
<1>8. Anonymous(BasicHeaders(page)) /\ Sized(BasicHeaders(page))
    BY <1>6, BasicReply DEF Anonymous, Sized
<1>9. Anonymous(BasicHeaders(templ))
    BY <1>6, BasicReply DEF Anonymous
<1>10. Sized(BasicHeaders(templ))
    <2>1. BasicHeaders(templ).template = TRUE
        BY Zenon, <1>6, <1>7, BasicReply
    <2> QED BY Zenon, <2>1 DEF Sized
<1> HIDE DEF basic
<1>11. Anonymous([basic EXCEPT !.content = "page"])
    BY <1>3, <1>5, SetField DEF Anonymous, ReplyTypes
<1>12. Anonymous(Template(NewReply)) /\ Sized(Template(NewReply))
    <2> DEFINE t == [basic EXCEPT !.template = TRUE]
               h == [t EXCEPT !.content = "hdf"]
    <2>1. Template(NewReply) = h
        BY DEF Template, basic
    <2>2. t \in ReplyTypes /\ t.user = NoUser /\ t.ticket = 0
        BY <1>5, SetField DEF Anonymous, ReplyTypes
    <2>3. h \in ReplyTypes
        <3> HIDE DEF t
        <3> QED BY <1>3, <2>2, SetField
    <2>4. h.user = NoUser /\ h.ticket = 0
        BY <1>5 DEF Anonymous, ReplyTypes
    <2>5. h.template = TRUE
        BY Zenon, <1>5 DEF ReplyTypes
    <2> HIDE DEF h
    <2>6. Sized(h)
        BY Zenon, <2>5 DEF Sized
    <2> QED BY <2>1, <2>3, <2>4, <2>6 DEF Anonymous
<1> QED BY <1>4, <1>5, <1>8, <1>9, <1>10, <1>11, <1>12
        DEF basic, page, templ, Page, Sized

\* A reply to a page that is not one of a list of users to be saved.
LEMMA OkAnswers ==
    ASSUME NEW r, Anonymous(r), Measured => Sized(r),
           req.page = "users/save" => req.done = Len(req.rows)
    PROVE  Answered(r)
BY DEF Answered, Anonymous, Sized

\* What a handler has begun is a reply to nobody in particular.
LEMMA BegunReply ==
    /\ NewReply \in ReplyTypes /\ NewReply.user = NoUser
    /\ \A text \in Texts :
          /\ [NewReply EXCEPT !.content = text] \in ReplyTypes
          /\ [NewReply EXCEPT !.content = text].user = NoUser
<1>1. NewReply \in ReplyTypes /\ NewReply.user = NoUser
    BY FirstReply DEF NewReply
<1>2. ASSUME NEW text \in Texts
      PROVE  /\ [NewReply EXCEPT !.content = text] \in ReplyTypes
             /\ [NewReply EXCEPT !.content = text].user = NoUser
    BY <1>1, SetField DEF NewReply
<1> QED BY <1>1, <1>2

\* Errors in place of a reply that a handler has begun.
LEMMA ErrorsToBegun ==
    ASSUME NEW q \in ReplyTypes, q.user = NoUser, NEW s \in Statuses \ {200}
    PROVE  /\ Answered(SetTo(q, s)) /\ SetTo(q, s).user = NoUser
           /\ \A other \in Texts :
                 /\ Answered([SetTo(q, s) EXCEPT !.content = other])
                 /\ [SetTo(q, s) EXCEPT !.content = other].user = NoUser
<1> DEFINE p == SetTo(q, s)
<1>1. p \in ReplyTypes /\ p.user = NoUser
    BY StockReply
<1>2. Answered(p) /\ \A other \in Texts : Answered([p EXCEPT !.content = other])
    BY ErrorAnswers
<1> HIDE DEF p
<1>3. \A other \in Texts : [p EXCEPT !.content = other].user = NoUser
    BY <1>1 DEF ReplyTypes
<1> QED BY <1>1, <1>2, <1>3 DEF p

------------------------------------------------------------------------------
(* How handlers end.                                                       *)

LEMMA BufferKeeps ==
    ASSUME BufferOK
    PROVE  /\ Clean => BufferOK'
           /\ \A first, kinds : Fails(first, kinds) => BufferOK'
           /\ Unlistable => BufferOK'
           /\ UNCHANGED <<stale, foreign, failures>> => BufferOK'
<1>1. Clean => BufferOK'
    BY DEF Clean, BufferOK
<1>2. ASSUME NEW first, NEW kinds, Fails(first, kinds) PROVE BufferOK'
    <2>1. CASE /\ stale
               /\ stale' = (first = "load") /\ foreign' = TRUE
               /\ UNCHANGED failures
        BY <2>1 DEF BufferOK
    <2>2. CASE /\ ~stale /\ failures < MaxFailures
               /\ stale' \in IF "load" \in kinds THEN BOOLEAN ELSE {FALSE}
               /\ failures' = failures + 1
               /\ UNCHANGED foreign
        <3>1. stale' \in BOOLEAN
            BY Zenon, <2>2
        <3> QED BY <2>2, <3>1 DEF BufferOK
    <2> QED BY <1>2, <2>1, <2>2 DEF Fails
<1>3. Unlistable => BufferOK'
    BY DEF Unlistable, BufferOK
<1>4. UNCHANGED <<stale, foreign, failures>> => BufferOK'
    BY DEF BufferOK
<1> QED BY <1>1, <1>2, <1>3, <1>4

Replies == phase' = "renew" /\ Answered(rep') /\ UNCHANGED <<up, req, outside>>

Keeps == Replies /\ UNCHANGED session /\ rep'.user = NoUser /\ badOrder' \in BOOLEAN

Given == [Row(req.arg) EXCEPT !.ticket = NewTicket]

LogsIn ==
    /\ req.page = "validate" /\ Replies /\ UNCHANGED badOrder
    /\ req.arg \in DOMAIN users /\ tickets < MaxTickets
    /\ users' = [users EXCEPT ![req.arg].ticket = NewTicket]
    /\ tickets' = tickets + 1
    /\ logins' = logins \cup {<<req.b, req.arg, NewTicket>>}
    /\ rep'.user = Given

MayChange == req.user # NoUser /\ req.user.role = "admin"

Deletes ==
    /\ req.page = "users/del" /\ Replies /\ MayChange
    /\ users' = Restrict(users, DOMAIN users \ {req.arg})
    /\ UNCHANGED <<tickets, logins, badOrder>>
    /\ rep'.user = NoUser

Saves ==
    /\ req.page = "users/save" /\ req.done < Len(req.rows) /\ MayChange
    /\ req' = [req EXCEPT !.done = @ + 1]
    /\ UNCHANGED <<up, phase, rep, outside, logins, badOrder>>
    /\ LET row == req.rows[req.done + 1] IN
       /\ row.role \in Roles
       /\ \/ /\ row.id \in DOMAIN users
             /\ users' = [users EXCEPT ![row.id].role = row.role]
             /\ UNCHANGED tickets
          \/ /\ row.id = 0 /\ NewUser <= MaxUsers /\ tickets < MaxTickets
             /\ users' = WithUser(NewUser, [ticket |-> NewTicket, role |-> row.role])
             /\ tickets' = tickets + 1

\* The reply to a login names the user with his new ticket.
LEMMA LoginReply ==
    ASSUME TablesOK, req.arg \in DOMAIN users
    PROVE  /\ Given \in Users
           /\ Answered(SetTo([NewReply EXCEPT !.user = Given], 302))
           /\ SetTo([NewReply EXCEPT !.user = Given], 302).user = Given
<1>1. Given \in Users
    <2>1. users[req.arg].role \in Roles /\ req.arg \in 0..MaxUsers /\ tickets \in Nat
        BY BoundsFit DEF TablesOK
    <2> QED BY <2>1 DEF Given, Users, Row, NewTicket
<1> DEFINE n == [NewReply EXCEPT !.user = Given]
<1>2. n \in ReplyTypes
    BY <1>1, FirstReply, SetField
<1>3. n.user = Given
    BY DEF NewReply
<1> HIDE DEF n
<1>4. 302 \in Statuses \ {200}
    BY DEF Statuses
<1>5. Answered(SetTo(n, 302))
    BY <1>2, <1>4, ErrorAnswers
<1>6. SetTo(n, 302).user = Given
    BY <1>2, <1>3, <1>4, StockReply
<1> QED BY <1>1, <1>5, <1>6 DEF n

Ends == Replies /\ rep'.user = NoUser

LEMMA AnswerEnds ==
    ASSUME NEW r, Answered(r), r.user = NoUser, Answer(r) PROVE Ends
BY DEF Answer, Ends, Replies

\* An error ends a handler, whatever it has begun.
LEMMA ErrorEnds ==
    ASSUME NEW q \in ReplyTypes, q.user = NoUser, NEW s \in Statuses \ {200}
    PROVE  /\ Answer(SetTo(q, s)) => Ends
           /\ \A text \in Texts : Answer([SetTo(q, s) EXCEPT !.content = text]) => Ends
BY ErrorsToBegun, AnswerEnds

\* The ways in which handlers end.
LEMMA WaysToEnd ==
    ASSUME rep = NewReply
    PROVE  /\ Throws(404) \/ Throws(500) => Ends
           /\ ThrowsEws(403) \/ ThrowsEws(404) \/ ThrowsEws(500) => Ends
           /\ req.page # "users/save" =>
                 /\ Answer(BasicHeaders(rep)) => Ends
                 /\ Answer(Page(rep)) => Ends
                 /\ Answer(Template(rep)) => Ends
           /\ \A some \in Texts : Answer(SetTo([rep EXCEPT !.content = some], 500)) => Ends
<1>1. rep \in ReplyTypes /\ rep.user = NoUser
    BY BegunReply
<1>2. /\ "html" \in Texts
      /\ 403 \in Statuses \ {200} /\ 404 \in Statuses \ {200} /\ 500 \in Statuses \ {200}
    BY DEF Texts, Statuses
<1>3. ASSUME NEW s \in Statuses \ {200}
      PROVE  Throws(s) \/ ThrowsEws(s) => Ends
    BY <1>1, <1>2, ErrorEnds DEF Throws, ThrowsEws
<1>4. ASSUME NEW r, Anonymous(r), Sized(r), req.page # "users/save", Answer(r)
      PROVE  Ends
    <2>1. Answered(r)
        BY <1>4, OkAnswers
    <2> QED BY <1>4, <2>1, AnswerEnds DEF Anonymous
<1>5. ASSUME req.page # "users/save"
      PROVE  /\ Answer(BasicHeaders(rep)) => Ends
             /\ Answer(Page(rep)) => Ends
             /\ Answer(Template(rep)) => Ends
    BY <1>4, <1>5, AnswersToNew
<1>6. ASSUME NEW some \in Texts, Answer(SetTo([rep EXCEPT !.content = some], 500))
      PROVE  Ends
    <2> DEFINE n == [NewReply EXCEPT !.content = some]
    <2>1. n \in ReplyTypes /\ n.user = NoUser
        BY BegunReply
    <2>2. Answer(SetTo(n, 500))
        BY <1>6
    <2> HIDE DEF n
    <2> QED BY <1>2, <2>1, <2>2, ErrorEnds
<1> QED BY <1>2, <1>3, <1>5, <1>6

\* The end of a request whose handler looks only, refuses or reorders.
LEMMA ReadersAnswer ==
    ASSUME FlowOK, phase = "handle",
           \/ ShowLogin \/ Refuse \/ ListUsers \/ SavedAll \/ SongRefused \/ SendSong
           \/ Index \/ Info \/ Tree \/ BadArgument \/ Files \/ HandlerFails
           \/ ListSongs \/ Reorder
    PROVE  Keeps
<1>1. rep = NewReply
    BY DEF FlowOK
<1>2. badOrder \in BOOLEAN
    BY DEF FlowOK
<1>3. ASSUME Ends, UNCHANGED session, badOrder' = badOrder PROVE Keeps
    BY <1>2, <1>3 DEF Ends, Keeps
<1>4. CASE ShowLogin
    <2>1. req.page # "users/save"
        BY <1>4 DEF ShowLogin, Guarded
    <2> DEFINE r == BasicHeaders([NewReply EXCEPT !.template = TRUE])
    <2>2. Anonymous(r) /\ Sized(r)
        BY AnswersToNew
    <2>3. Answer(r)
        BY <1>1, <1>4 DEF ShowLogin
    <2> HIDE DEF r
    <2>4. Answered(r)
        BY <2>1, <2>2, OkAnswers
    <2>5. Ends
        BY <2>2, <2>3, <2>4 DEF Answer, Ends, Replies, Anonymous
    <2> QED BY <1>3, <1>4, <2>5 DEF ShowLogin
<1>5. CASE Refuse
    <2>1. Ends
        BY <1>1, <1>5, WaysToEnd DEF Refuse
    <2> QED BY <1>3, <1>5, <2>1 DEF Refuse, database
<1>6. CASE ListUsers
    <2>1. req.page = "users/list"
        BY <1>6 DEF ListUsers, Allowed, Asked
    <2> DEFINE r == [BasicHeaders(NewReply) EXCEPT !.content = "page"]
    <2>2. Anonymous(r)
        BY AnswersToNew
    <2>3. Answer(r)
        BY <1>1, <1>6 DEF ListUsers
    <2> HIDE DEF r
    <2>4. Answered(r)
        BY <2>1, <2>2, OkAnswers DEF Measured
    <2>5. Ends
        BY <2>2, <2>3, <2>4 DEF Answer, Ends, Replies, Anonymous
    <2> QED BY <1>3, <1>6, <2>5 DEF ListUsers
<1>7. CASE SavedAll
    <2>1. Answer(BasicHeaders(rep)) => Ends
        <3>1. Answered(BasicHeaders(NewReply))
            BY <1>7, AnswersToNew, OkAnswers DEF SavedAll
        <3> QED BY <1>1, <3>1, AnswersToNew DEF Answer, Ends, Replies, Anonymous
    <2>2. Ends
        BY <1>1, <1>7, <2>1, WaysToEnd DEF SavedAll
    <2> QED BY <1>3, <1>7, <2>2 DEF SavedAll, database
<1>8. CASE SongRefused
    <2>1. Ends
        BY <1>1, <1>8, WaysToEnd DEF SongRefused
    <2> QED BY <1>3, <1>8, <2>1 DEF SongRefused
<1>9. CASE SendSong
    <2>1. SUFFICES ASSUME req.page = "song/img",
                          NEW s \in {0, 200, 302, 404, 500},
                          Answer([rep EXCEPT !.status = s])
                   PROVE  Ends
        <3>1. req.page = "song/dl" /\ (Answer(Page(rep)) \/ ThrowsEws(404)) => Ends
            BY <1>1, WaysToEnd
        <3> QED BY <1>3, <1>9, <2>1, <3>1 DEF SendSong
    <2> DEFINE r == [NewReply EXCEPT !.status = s]
    <2>2. s \in Statuses
        BY DEF Statuses
    <2>3. r \in ReplyTypes
        BY <2>2, FirstReply, SetField
    <2>4. Anonymous(r)
        BY <2>3 DEF Anonymous, NewReply
    <2>5. Answer(r)
        BY <1>1, <2>1
    <2> HIDE DEF r
    <2>6. Answered(r)
        BY <2>1, <2>4, OkAnswers DEF Measured
    <2> QED BY <2>4, <2>5, <2>6 DEF Answer, Ends, Replies, Anonymous
<1>10. CASE Index
    <2>1. req.page \in {"index", "index.gif"}
        BY <1>10 DEF Index, Asked
    <2>2. Ends
        BY <1>1, <1>10, <2>1, WaysToEnd DEF Index
    <2> QED BY <1>3, <1>10, <2>2 DEF Index
<1>11. CASE Info
    <2>1. req.page = "info"
        BY <1>11 DEF Info, Asked
    <2>2. Ends
        BY <1>1, <1>11, <2>1, WaysToEnd DEF Info
    <2> QED BY <1>3, <1>11, <2>2 DEF Info
<1>12. CASE Files
    <2>1. req.page \in {"file", "image"}
        BY <1>12 DEF Files, Asked
    <2>2. Ends
        BY <1>1, <1>12, <2>1, WaysToEnd DEF Files
    <2> QED BY <1>3, <1>12, <2>2 DEF Files, database
<1>13. CASE Tree
    <2>1. req.page = "tree" /\ UNCHANGED <<session, badOrder>>
        BY <1>13 DEF Tree, Asked
    <2> DEFINE n == [NewReply EXCEPT !.content = "part"]
               r == SetTo(n, 404)
               q == SetTo(n, 500)
    <2>3. "part" \in Texts /\ "stock" \in Texts /\ "html" \in Texts
          /\ 404 \in Statuses \ {200} /\ 500 \in Statuses \ {200}
        BY DEF Texts, Statuses
    <2>4. /\ Answered(r) /\ r.user = NoUser
          /\ \A text \in {"stock", "html"} :
                /\ Answered([q EXCEPT !.content = text])
                /\ [q EXCEPT !.content = text].user = NoUser
        <3>1. n \in ReplyTypes /\ n.user = NoUser
            BY <2>3, BegunReply
        <3> HIDE DEF n
        <3> QED BY <2>3, <3>1, ErrorsToBegun
    <2>5. \/ Answer(Page(rep)) \/ Answer(r)
          \/ \E text \in {"stock", "html"} : Answer([q EXCEPT !.content = text])
        BY <1>1, <1>13 DEF Tree
    <2> HIDE DEF n, r, q
    <2>6. Answer(Page(rep)) => Ends
        BY <1>1, <2>1, WaysToEnd
    <2>7. Answer(r) => Ends
        BY <2>4, AnswerEnds
    <2>8. ASSUME NEW text \in {"stock", "html"}, Answer([q EXCEPT !.content = text])
          PROVE  Ends
        BY <2>4, <2>8, AnswerEnds
    <2>9. Ends
        BY <2>5, <2>6, <2>7, <2>8
    <2> QED BY <1>3, <2>1, <2>9
<1>14. CASE BadArgument
    <2>1. Ends
        BY <1>1, <1>14, WaysToEnd DEF BadArgument
    <2> QED BY <1>3, <1>14, <2>1 DEF BadArgument
<1>15. CASE HandlerFails
    <2>1. {"", "part"} \subseteq Texts
        BY DEF Texts
    <2>2. Ends
        BY <1>1, <1>15, <2>1, WaysToEnd DEF HandlerFails
    <2> QED BY <1>3, <1>15, <2>2 DEF HandlerFails
<1>16. CASE ListSongs
    <2>1. req.page # "users/save" /\ UNCHANGED session
        BY <1>16 DEF ListSongs, Asked
    <2>2. Answer(Page(rep)) \/ Throws(500)
        BY Zenon, <1>16 DEF ListSongs
    <2>3. Ends
        BY <1>1, <2>1, <2>2, WaysToEnd
    <2>4. badOrder' = badOrder \/ badOrder' = FALSE
        BY Zenon, <1>16 DEF ListSongs
    <2> QED BY <1>2, <2>1, <2>3, <2>4 DEF Ends, Keeps
<1>17. CASE Reorder
    <2>1. req.page # "users/save" /\ UNCHANGED session
        BY <1>17 DEF Reorder, Asked
    <2>2. Ends
        BY <1>1, <1>17, <2>1, WaysToEnd DEF Reorder
    <2>3. badOrder' = TRUE
        BY Zenon, <1>17 DEF Reorder
    <2> QED BY <2>1, <2>2, <2>3 DEF Ends, Keeps
<1> QED BY <1>4, <1>5, <1>6, <1>7, <1>8, <1>9, <1>10, <1>11, <1>12, <1>13, <1>14, <1>15,
           <1>16, <1>17

LEMMA HandlersKeepBuffer ==
    ASSUME BufferOK, Handle PROVE BufferOK'
<1>1. SUFFICES \/ Clean \/ Unlistable \/ UNCHANGED <<stale, foreign, failures>>
               \/ \E first, kinds : Fails(first, kinds)
    BY BufferKeeps
<1>2. CASE ShowLogin \/ Validate \/ ListUsers \/ DelUser \/ SaveUser \/ SendSong \/ Info
    BY <1>2 DEF ShowLogin, Validate, ListUsers, DelUser, SaveUser, SendSong, Info
<1>3. CASE Refuse \/ NoSession \/ SaveAborts \/ SavedAll \/ Files
    BY <1>3 DEF Refuse, NoSession, SaveAborts, SavedAll, Files, database
<1>4. CASE Xspf \/ SongRefused \/ Reorder \/ Index \/ Tree \/ BadArgument
    BY <1>4 DEF Xspf, SongRefused, Reorder, Index, Tree, BadArgument
<1>5. CASE ListSongs
    BY Zenon, <1>5 DEF ListSongs
<1>6. CASE HandlerFails
    BY <1>6 DEF HandlerFails
<1> QED BY <1>2, <1>3, <1>4, <1>5, <1>6 DEF Handle

\* The requests that end the process in a handler.
KnownEnd ==
    \/ /\ req.user = NoUser
       /\ req.page \in UserPages \cup {"xspf", "index.gif"}
    \/ /\ req.page = "users/save" /\ req.user.role = "admin"
       /\ req.rows[req.done + 1].role = "aborts"

\* Every handler answers, goes on with the next user to save, or dies of such a
\* request.
LEMMA HandlersEnd ==
    ASSUME FlowOK, BufferOK, TablesOK, Handle
    PROVE  /\ phase = "handle" /\ BufferOK'
           /\ Keeps \/ LogsIn \/ Deletes \/ Saves \/ (Die /\ KnownEnd)
<1>1. phase = "handle"
    <2>1. CASE ShowLogin \/ Refuse \/ NoSession \/ HandlerFails
        BY <2>1 DEF ShowLogin, Refuse, NotAllowed, NoSession, HandlerFails, Queries
    <2>2. CASE Validate \/ Xspf \/ SongRefused \/ SendSong \/ ListSongs \/ Reorder
                  \/ Index \/ Info \/ Tree \/ Files
        BY <2>2 DEF Validate, Xspf, SongRefused, SendSong, SongAsked, ListSongs, Reorder,
                    Index, Info, Tree, Files, Asked
    <2>3. CASE ListUsers \/ DelUser \/ SaveUser \/ SaveAborts \/ SavedAll \/ BadArgument
        BY <2>3 DEF ListUsers, DelUser, SaveUser, SaveAborts, SavedAll, BadArgument, Allowed,
                    Asked
    <2> QED BY <2>1, <2>2, <2>3 DEF Handle
<1>2. BufferOK'
    BY HandlersKeepBuffer
<1> SUFFICES Keeps \/ LogsIn \/ Deletes \/ Saves \/ (Die /\ KnownEnd)
    BY <1>1, <1>2
<1>3. rep = NewReply /\ badOrder \in BOOLEAN
    BY <1>1 DEF FlowOK
<1>4. ASSUME Ends, UNCHANGED session, badOrder' = badOrder PROVE Keeps
    BY <1>3, <1>4 DEF Ends, Keeps
<1>5. CASE Validate
    <2>1. req.page = "validate" /\ UNCHANGED badOrder
        BY <1>5 DEF Validate, Asked
    <2>2. CASE (Throws(404) \/ Throws(500)) /\ UNCHANGED session
        BY <1>3, <1>4, <2>1, <2>2, WaysToEnd
    <2>3. CASE /\ req.arg \in DOMAIN users /\ tickets < MaxTickets
               /\ users' = [users EXCEPT ![req.arg].ticket = NewTicket]
               /\ tickets' = tickets + 1
               /\ logins' = logins \cup {<<req.b, req.arg, NewTicket>>}
               /\ Answer(SetTo([rep EXCEPT !.user = Given], 302))
        <3> DEFINE r == SetTo([NewReply EXCEPT !.user = Given], 302)
        <3>1. Answered(r) /\ r.user = Given
            BY <2>3, LoginReply
        <3>2. Answer(r)
            BY <1>3, <2>3
        <3> HIDE DEF r
        <3>3. Replies /\ rep'.user = Given
            BY <3>1, <3>2 DEF Answer, Replies
        <3> QED BY <2>1, <2>3, <3>3 DEF LogsIn
    <2> QED BY <1>5, <2>2, <2>3 DEF Validate, Given
<1>6. CASE DelUser
    <2>1. req.page = "users/del" /\ MayChange
        BY <1>6 DEF DelUser, Allowed, Asked, HasSession, NotAllowed, MayChange, UserPages
    <2>2. Ends
        BY <1>3, <1>6, <2>1, WaysToEnd DEF DelUser
    <2> QED BY <1>6, <2>1, <2>2 DEF DelUser, Deletes, Ends
<1>7. CASE SaveUser
    <2>1. req.page = "users/save" /\ MayChange /\ req.done < Len(req.rows)
        BY <1>7 DEF SaveUser, Allowed, Asked, HasSession, NotAllowed, MayChange, UserPages
    <2> DEFINE row == req.rows[req.done + 1]
    <2>2. CASE (Throws(404) \/ Throws(500)) /\ UNCHANGED session
        BY <1>3, <1>4, <1>7, <2>2, WaysToEnd DEF SaveUser
    <2>3. CASE /\ row.id \in DOMAIN users /\ row.role \in Roles
               /\ users' = [users EXCEPT ![row.id].role = row.role]
               /\ req' = [req EXCEPT !.done = @ + 1]
               /\ UNCHANGED <<up, phase, rep, outside, tickets, logins>>
        BY <1>7, <2>1, <2>3 DEF SaveUser, Saves
    <2>4. CASE /\ row.id = 0 /\ row.role \in Roles
               /\ NewUser <= MaxUsers /\ tickets < MaxTickets
               /\ users' = WithUser(NewUser, [ticket |-> NewTicket, role |-> row.role])
               /\ tickets' = tickets + 1
               /\ req' = [req EXCEPT !.done = @ + 1]
               /\ UNCHANGED <<up, phase, rep, outside, logins>>
        BY <1>7, <2>1, <2>4 DEF SaveUser, Saves
    <2> HIDE DEF row
    <2> QED BY <1>7, <2>2, <2>3, <2>4 DEF SaveUser, row
<1>8. CASE Xspf
    <2>1. req.page = "xspf"
        BY <1>8 DEF Xspf, Asked
    <2>2. CASE Die /\ ~HasSession
        BY <2>1, <2>2 DEF HasSession, KnownEnd
    <2>3. CASE Throws(500) \/ Answer(Template(rep))
        BY <1>3, <1>4, <1>8, <2>1, <2>3, WaysToEnd DEF Xspf
    <2> QED BY <1>8, <2>2, <2>3 DEF Xspf
<1>9. CASE NoSession
    BY <1>9 DEF NoSession, HasSession, KnownEnd
<1>11. CASE SaveAborts
    BY <1>11 DEF SaveAborts, Allowed, Asked, NotAllowed, UserPages, KnownEnd
<1>10. CASE \/ ShowLogin \/ Refuse \/ ListUsers \/ SavedAll \/ SongRefused \/ SendSong
            \/ Index \/ Info \/ Tree \/ BadArgument \/ Files \/ HandlerFails
            \/ ListSongs \/ Reorder
    BY <1>1, <1>10, ReadersAnswer
<1> QED BY <1>5, <1>6, <1>7, <1>8, <1>9, <1>10, <1>11 DEF Handle

------------------------------------------------------------------------------
(* The invariant.                                                          *)

LEMMA IInvInit == Init => IInv
<1>1. SUFFICES ASSUME Init PROVE IInv
    OBVIOUS
<1>2. NoReq \in Requests /\ NoReq.done <= Len(NoReq.rows) /\ NoReq.page # "users/save"
    <2>1. <<>> \in Seq(RowsToSave) /\ Len(<<>>) = 0
        OBVIOUS
    <2> QED BY <2>1, FirstReply DEF NoReq, Requests
<1>3. TablesOK
    <2>1. /\ tickets = 2 /\ DOMAIN users = 1..2
          /\ users[1] = [ticket |-> 1, role |-> "admin"]
          /\ users[2] = [ticket |-> 2, role |-> "reader"]
        BY <1>1 DEF Init
    <2>2. \A u \in DOMAIN users : users[u] \in [ticket : 1..tickets, role : Roles]
        BY <2>1 DEF Roles
    <2> QED BY <2>1, <2>2, BoundsFit DEF TablesOK
<1>4. BufferOK
    BY <1>1 DEF Init, BufferOK
<1>5. FlowOK
    BY <1>1, <1>2, FirstReply DEF Init, FlowOK
<1>6. LoginsOK
    BY <1>1 DEF Init, LoginsOK
<1>7. CookiesOK
    BY <1>1 DEF Init, CookiesOK
<1>8. SessionOK
    BY <1>1 DEF Init, SessionOK, NoReq, NewReply, NoUser
<1>9. SavedOK
    BY <1>1, <1>2 DEF Init, SavedOK
<1>10. LengthOK
    BY <1>1 DEF Init, LengthOK, PagesHaveTheirLength
<1> QED BY <1>3, <1>4, <1>5, <1>6, <1>7, <1>8, <1>9, <1>10 DEF IInv

\* Nothing about users and tickets changes.
LEMMA SessionKept ==
    ASSUME TablesOK, LoginsOK, UNCHANGED session
    PROVE  /\ TablesOK' /\ LoginsOK'
           /\ \A b, t : Earned(b, t)' <=> Earned(b, t)
BY DEF TablesOK, LoginsOK, Earned, session

LEMMA CookiesKept ==
    ASSUME CookiesOK, UNCHANGED <<held, replies>>,
           \A b, t : Earned(b, t) => Earned(b, t)'
    PROVE  CookiesOK'
BY DEF CookiesOK

\* The thread is left or takes to no request.
LEMMA IdleInv ==
    ASSUME IInv, UNCHANGED <<session, held, replies>>, BufferOK',
           badOrder' \in BOOLEAN, up' \in BOOLEAN,
           phase' = "idle", req' = NoReq, rep' = NewReply
    PROVE  IInv'
<1>1. NoReq \in Requests /\ NoReq.done <= Len(NoReq.rows) /\ NoReq.page # "users/save"
    <2>1. <<>> \in Seq(RowsToSave) /\ Len(<<>>) = 0
        OBVIOUS
    <2> QED BY <2>1, FirstReply DEF NoReq, Requests
<1>2. TablesOK' /\ LoginsOK' /\ CookiesOK'
    BY SessionKept, CookiesKept DEF IInv
<1>3. FlowOK'
    BY <1>1, FirstReply DEF FlowOK
<1>4. SessionOK'
    BY DEF SessionOK, NoReq, NewReply, NoUser
<1>5. SavedOK'
    BY <1>1 DEF SavedOK
<1>6. LengthOK'
    BY DEF LengthOK, PagesHaveTheirLength
<1> QED BY <1>2, <1>3, <1>4, <1>5, <1>6 DEF IInv

\* A request comes with a cookie of its browser.
LEMMA ReceiveInv ==
    ASSUME IInv, NEW b \in Browsers, NEW page \in Pages, NEW arg \in Nat,
           NEW rows \in Seq(RowsToSave), Receive(b, page, arg, rows)
    PROVE  IInv'
<1>1. PICK t \in held[b] :
          /\ req' = [b |-> b, page |-> page, arg |-> arg, rows |-> rows, done |-> 0,
                     ticket |-> t, user |-> NoUser]
          /\ phase' = IF t = 0 THEN "handle" ELSE "ticket"
    BY DEF Receive
<1>2. /\ UNCHANGED <<up, session, database, replies, held>>
      /\ rep' = NewReply
    BY DEF Receive
<1>3. t \in Nat /\ (t = 0 \/ Earned(b, t))
    BY DEF IInv, CookiesOK
<1>4. TablesOK' /\ LoginsOK' /\ \A c, x : Earned(c, x)' <=> Earned(c, x)
    BY <1>2, SessionKept DEF IInv
<1>5. CookiesOK'
    BY <1>2, <1>4, CookiesKept DEF IInv
<1>6. BufferOK' /\ badOrder' = badOrder /\ up' = up
    BY <1>2 DEF database, IInv, BufferOK
<1>7. FlowOK'
    <2>1. req' \in Requests
        BY <1>1, <1>3, FirstReply DEF Requests
    <2>2. req'.done <= Len(req'.rows)
        BY <1>1
    <2>3. phase' \in {"ticket", "handle"}
        BY <1>1
    <2>4. req'.b = b /\ req'.page = page
        BY <1>1
    <2>5. up' \in BOOLEAN /\ badOrder' \in BOOLEAN
        BY <1>6 DEF IInv, FlowOK
    <2> QED BY <1>2, <2>1, <2>2, <2>3, <2>4, <2>5, FirstReply DEF FlowOK
<1>8. SessionOK'
    <2>1. req'.ticket = t /\ req'.b = b /\ req'.user = NoUser
        BY <1>1
    <2>2. rep'.user = NoUser /\ rep'.ticket = 0
        BY <1>2 DEF NewReply
    <2> QED BY <1>3, <1>4, <2>1, <2>2 DEF SessionOK
<1>9. SavedOK' /\ LengthOK'
    BY <1>1 DEF SavedOK, LengthOK, PagesHaveTheirLength
<1> QED BY <1>4, <1>5, <1>6, <1>7, <1>8, <1>9 DEF IInv

\* Whoever has the ticket of the request is who logged in for it.
LEMMA LookUpInv ==
    ASSUME IInv, LookUp PROVE IInv'
<1>1. /\ phase = "ticket" /\ phase' = "handle" /\ Clean
      /\ UNCHANGED <<up, session, badOrder, rep, outside>>
    BY DEF LookUp
<1>2. BufferOK'
    BY <1>1, BufferKeeps DEF IInv
<1>3. TablesOK' /\ LoginsOK' /\ \A c, x : Earned(c, x)' <=> Earned(c, x)
    BY <1>1, SessionKept DEF IInv
<1>4. CookiesOK'
    BY <1>1, <1>3, CookiesKept DEF IInv, outside
<1>5. req \in Requests /\ req.b \in Browsers /\ req.page \in Pages /\ req.user \in Users
      /\ req.done <= Len(req.rows) /\ rep = NewReply
    BY <1>1 DEF IInv, FlowOK, Requests
<1>6. /\ req'.b = req.b /\ req'.page = req.page /\ req'.ticket = req.ticket
      /\ req'.done = req.done /\ req'.rows = req.rows
      /\ req' \in Requests
      /\ req'.user # NoUser => req'.user = req.user \/
            \E u \in WhoHas(req.ticket) : req'.user = Row(u)
    <2>1. CASE UNCHANGED req
        BY <1>5, <2>1
    <2>2. ASSUME NEW u \in WhoHas(req.ticket), req' = [req EXCEPT !.user = Row(u)]
          PROVE  /\ req'.b = req.b /\ req'.page = req.page /\ req'.ticket = req.ticket
                 /\ req'.done = req.done /\ req'.rows = req.rows
                 /\ req' \in Requests /\ req'.user = Row(u)
        <3>1. Row(u) \in Users
            BY BoundsFit DEF IInv, TablesOK, WhoHas, Row, Users
        <3> QED BY <1>5, <2>2, <3>1 DEF Requests
    <2> QED BY <2>1, <2>2 DEF LookUp
<1>7. FlowOK'
    BY <1>1, <1>5, <1>6 DEF IInv, FlowOK
<1>8. SessionOK'
    <2>1. req.ticket # 0 => Earned(req.b, req.ticket)
        BY DEF IInv, SessionOK
    <2>2. ASSUME NEW u \in WhoHas(req.ticket), req'.user = Row(u)
          PROVE  /\ req'.user.ticket = req'.ticket /\ req'.ticket # 0
                 /\ <<req'.b, req'.user.id, req'.ticket>> \in logins'
        <3>1. users[u].ticket = req.ticket /\ u \in DOMAIN users /\ req.ticket \in 1..tickets
            BY DEF WhoHas, IInv, TablesOK
        <3>2. PICK v \in 1..MaxUsers : <<req.b, v, req.ticket>> \in logins
            BY <2>1, <3>1 DEF Earned
        <3>3. u = v
            BY <1>5, <3>1, <3>2 DEF IInv, LoginsOK
        <3>4. req'.user.id = u /\ req'.user.ticket = req.ticket
            BY <2>2, <3>1 DEF Row
        <3> QED BY <1>1, <1>6, <3>1, <3>2, <3>3, <3>4 DEF session
    <2>3. req.user # NoUser =>
              /\ req.user.ticket = req.ticket /\ req.ticket # 0
              /\ <<req.b, req.user.id, req.ticket>> \in logins
        BY DEF IInv, SessionOK
    <2>4. rep'.user = NoUser /\ rep'.ticket = 0
        BY <1>1, <1>5 DEF NewReply
    <2>5. logins' = logins
        BY <1>1 DEF session
    <2> QED BY <1>3, <1>6, <2>1, <2>2, <2>3, <2>4, <2>5 DEF SessionOK
<1>9. SavedOK'
    <2>1. users' = users
        BY <1>1 DEF session
    <2> QED BY <1>1, <1>6, <2>1 DEF IInv, SavedOK, Again
<1>10. LengthOK'
    BY <1>1 DEF LengthOK, PagesHaveTheirLength
<1> QED BY <1>2, <1>3, <1>4, <1>7, <1>8, <1>9, <1>10 DEF IInv


\* What every handler's answer leaves true; who is logged in is left to show.
LEMMA AnsweredInv ==
    ASSUME IInv, phase = "handle", Replies, BufferOK', badOrder' \in BOOLEAN
    PROVE  FlowOK' /\ LengthOK' /\ (UNCHANGED users \/ req.page # "users/save" => SavedOK')
<1>1. /\ phase' = "renew" /\ Answered(rep') /\ up' = up /\ req' = req
    BY DEF Replies
<1>2. rep' \in ReplyTypes
    BY <1>1 DEF Answered
<1>3. FlowOK'
    BY <1>1, <1>2 DEF IInv, FlowOK
<1>4. LengthOK'
    BY <1>1 DEF LengthOK, PagesHaveTheirLength, Answered, Measured
<1>5. ASSUME UNCHANGED users \/ req.page # "users/save" PROVE SavedOK'
    BY <1>1, <1>5 DEF IInv, SavedOK, Again, Answered
<1> QED BY <1>3, <1>4, <1>5

LEMMA KeepsInv ==
    ASSUME IInv, phase = "handle", Keeps, BufferOK'
    PROVE  IInv'
<1>1. TablesOK' /\ LoginsOK' /\ \A c, x : Earned(c, x)' <=> Earned(c, x)
    BY SessionKept DEF IInv, Keeps
<1>2. CookiesOK'
    BY <1>1, CookiesKept DEF IInv, Keeps, Replies, outside
<1>3. FlowOK' /\ LengthOK' /\ SavedOK'
    BY AnsweredInv DEF Keeps, session
<1>4. SessionOK'
    <2>1. req' = req /\ logins' = logins /\ rep'.user = NoUser /\ rep'.ticket = 0
        BY DEF Keeps, Replies, Answered, session
    <2> QED BY <1>1, <2>1 DEF IInv, SessionOK
<1> QED BY <1>1, <1>2, <1>3, <1>4 DEF IInv

\* The ticket of a login is nobody else's and was never given before.
LEMMA LogsInInv ==
    ASSUME IInv, phase = "handle", LogsIn, BufferOK'
    PROVE  IInv'
<1>1. /\ req.page = "validate" /\ req' = req /\ badOrder' = badOrder
      /\ req.arg \in DOMAIN users /\ tickets < MaxTickets
      /\ users' = [users EXCEPT ![req.arg].ticket = tickets + 1]
      /\ tickets' = tickets + 1
      /\ logins' = logins \cup {<<req.b, req.arg, tickets + 1>>}
      /\ rep'.user = Given /\ rep'.ticket = 0
      /\ UNCHANGED <<held, replies>>
    BY DEF LogsIn, Replies, Answered, NewTicket, outside
<1>2. tickets \in Nat /\ req.arg \in 1..MaxUsers /\ req.b \in Browsers
    BY <1>1, BoundsFit DEF IInv, TablesOK, FlowOK
<1>3. TablesOK'
    <2>1. tickets' \in 2..MaxTickets
        BY <1>1, <1>2, BoundsFit DEF IInv, TablesOK
    <2>2. DOMAIN users' = DOMAIN users
        BY <1>1
    <2>3. ASSUME NEW u \in DOMAIN users'
          PROVE  users'[u] \in [ticket : 1..tickets', role : Roles]
        <3>1. users[u] \in [ticket : 1..tickets, role : Roles]
            BY <2>2 DEF IInv, TablesOK
        <3>2. CASE u = req.arg
            <4>1. users'[u] = [users[u] EXCEPT !.ticket = tickets + 1]
                BY <1>1, <2>2, <3>2
            <4>2. tickets + 1 \in 1..tickets'
                BY <1>1, <1>2
            <4> QED BY <3>1, <4>1, <4>2
        <3>3. CASE u # req.arg
            BY <1>1, <1>2, <2>2, <3>1, <3>3
        <3> QED BY <3>2, <3>3
    <2> QED BY <2>1, <2>2, <2>3 DEF IInv, TablesOK
<1>4. LoginsOK'
    <2>1. logins' \subseteq Browsers \X (1..MaxUsers) \X (1..tickets')
        BY <1>1, <1>2 DEF IInv, LoginsOK
    <2>2. ASSUME NEW b \in Browsers, NEW u \in 1..MaxUsers, NEW t \in 1..tickets',
                 NEW v \in DOMAIN users', <<b, u, t>> \in logins', users'[v].ticket = t
          PROVE  v = u
        <3>1. users[v] \in [ticket : 1..tickets, role : Roles] /\ v \in DOMAIN users
            BY <1>1 DEF IInv, TablesOK
        <3>2. users'[v].ticket = IF v = req.arg THEN tickets + 1 ELSE users[v].ticket
            BY <1>1, <3>1
        <3>3. CASE t = tickets + 1
            <4>1. users[v].ticket \in 1..tickets
                BY <3>1
            <4>2. users[v].ticket # tickets + 1
                BY <1>2, <4>1
            <4>3. v = req.arg
                BY <2>2, <3>2, <3>3, <4>2
            <4>4. <<b, u, t>> \notin logins
                BY <1>2, <3>3 DEF IInv, LoginsOK
            <4> QED BY <1>1, <2>2, <4>3, <4>4
        <3>4. CASE t # tickets + 1
            BY <1>1, <1>2, <2>2, <3>1, <3>2, <3>4 DEF IInv, LoginsOK
        <3> QED BY <3>3, <3>4
    <2> QED BY <2>1, <2>2 DEF LoginsOK
<1>5. \A c, x : Earned(c, x) => Earned(c, x)'
    BY <1>1, <1>2 DEF Earned
<1>6. CookiesOK'
    BY <1>1, <1>5, CookiesKept DEF IInv
<1>7. FlowOK' /\ LengthOK' /\ SavedOK'
    BY <1>1, AnsweredInv DEF LogsIn, IInv, FlowOK
<1>8. SessionOK'
    <2>1. Given.id = req.arg /\ Given.ticket = tickets + 1
        BY DEF Given, Row, NewTicket
    <2> QED BY <1>1, <1>5, <2>1 DEF IInv, SessionOK
<1> QED BY <1>3, <1>4, <1>6, <1>7, <1>8 DEF IInv

LEMMA DeletesInv ==
    ASSUME IInv, phase = "handle", Deletes, BufferOK'
    PROVE  IInv'
<1>1. /\ req.page = "users/del" /\ req' = req /\ badOrder' = badOrder
      /\ DOMAIN users' \subseteq DOMAIN users
      /\ \A u \in DOMAIN users' : users'[u] = users[u]
      /\ tickets' = tickets /\ logins' = logins
      /\ rep'.user = NoUser /\ rep'.ticket = 0
      /\ UNCHANGED <<held, replies>>
    BY DEF Deletes, Replies, Answered, Restrict, outside
<1>2. TablesOK'
    BY <1>1 DEF IInv, TablesOK
<1>3. LoginsOK'
    BY <1>1 DEF IInv, LoginsOK
<1>4. \A c, x : Earned(c, x) => Earned(c, x)'
    BY <1>1 DEF Earned
<1>5. CookiesOK'
    BY <1>1, <1>4, CookiesKept DEF IInv
<1>6. FlowOK' /\ LengthOK' /\ SavedOK'
    BY <1>1, AnsweredInv DEF Deletes, IInv, FlowOK
<1>7. SessionOK'
    BY <1>1, <1>4 DEF IInv, SessionOK
<1> QED BY <1>2, <1>3, <1>5, <1>6, <1>7 DEF IInv

\* One more user of /users/save: a role that is changed, or a user whose rowid
\* and ticket are new.
LEMMA SavesInv ==
    ASSUME IInv, phase = "handle", Saves, BufferOK'
    PROVE  IInv'
<1> DEFINE row == req.rows[req.done + 1]
<1>1. /\ req.page = "users/save" /\ req.done < Len(req.rows)
      /\ req' = [req EXCEPT !.done = req.done + 1]
      /\ UNCHANGED <<up, phase, rep, held, replies, logins, badOrder>>
      /\ row.role \in Roles
    BY DEF Saves, outside
<1>2. /\ req \in Requests /\ req.done \in Nat /\ req.rows \in Seq(RowsToSave)
      /\ Len(req.rows) \in Nat /\ tickets \in Nat
    BY DEF IInv, FlowOK, Requests, TablesOK
<1>3. /\ req' \in Requests /\ req'.done = req.done + 1 /\ req'.rows = req.rows
      /\ req'.page = req.page /\ req'.b = req.b /\ req'.user = req.user
      /\ req'.ticket = req.ticket
    BY <1>1, <1>2, SMTT(30) DEF Requests
<1>4. \/ /\ row.id \in DOMAIN users
         /\ users' = [users EXCEPT ![row.id].role = row.role]
         /\ UNCHANGED tickets
      \/ /\ row.id = 0 /\ NewUser <= MaxUsers /\ tickets < MaxTickets
         /\ users' = WithUser(NewUser, [ticket |-> tickets + 1, role |-> row.role])
         /\ tickets' = tickets + 1
    BY DEF Saves, NewTicket
<1>5. NewUser \in Nat \ {0} /\ \A u \in DOMAIN users : u # NewUser
    <2>1. Bounded(users)
        BY BoundsFit DEF IInv, TablesOK, Bounded
    <2> QED BY <2>1, NextRowid DEF NewUser
<1> HIDE DEF row
<1>6. /\ tickets <= tickets' /\ tickets' \in Nat
      /\ \A u \in DOMAIN users :
            /\ u \in DOMAIN users'
            /\ users'[u].ticket = users[u].ticket
            /\ users'[u].role = IF u = row.id THEN row.role ELSE users[u].role
            /\ users'[u] \in [ticket : 1..tickets, role : Roles]
      /\ \A u \in DOMAIN users' \ DOMAIN users :
            /\ u = NewUser /\ NewUser <= MaxUsers /\ tickets' = tickets + 1
            /\ tickets < MaxTickets
            /\ users'[u] = [ticket |-> tickets + 1, role |-> row.role]
      /\ row.id = 0 \/ row.id \in DOMAIN users
    <2>1. \A u \in DOMAIN users : users[u] \in [ticket : 1..tickets, role : Roles]
        BY DEF IInv, TablesOK
    <2>2. CASE /\ row.id \in DOMAIN users
               /\ users' = [users EXCEPT ![row.id].role = row.role]
               /\ UNCHANGED tickets
        BY SMTT(30), <1>1, <1>2, <2>1, <2>2
    <2>3. CASE /\ row.id = 0 /\ NewUser <= MaxUsers /\ tickets < MaxTickets
               /\ users' = WithUser(NewUser, [ticket |-> tickets + 1, role |-> row.role])
               /\ tickets' = tickets + 1
        <3>1. 0 \notin DOMAIN users
            BY DEF IInv, TablesOK
        <3>2. \A u \in DOMAIN users : u \in DOMAIN users' /\ users'[u] = users[u]
            BY <1>5, <2>3 DEF WithUser
        <3>3. \A u \in DOMAIN users' \ DOMAIN users :
                  u = NewUser /\ users'[u] = [ticket |-> tickets + 1, role |-> row.role]
            BY <2>3 DEF WithUser
        <3> QED BY <1>2, <2>1, <2>3, <3>1, <3>2, <3>3
    <2> QED BY <1>4, <2>2, <2>3
<1>7. TablesOK'
    <2>1. tickets' \in 2..MaxTickets
        BY <1>2, <1>4, BoundsFit DEF IInv, TablesOK
    <2>2. DOMAIN users' \subseteq 1..MaxUsers
        BY <1>5, <1>6, BoundsFit DEF IInv, TablesOK
    <2>3. ASSUME NEW u \in DOMAIN users'
          PROVE  users'[u] \in [ticket : 1..tickets', role : Roles]
        <3>1. CASE u \in DOMAIN users
            BY <1>2, <1>6, <3>1
        <3>2. CASE u \notin DOMAIN users
            BY <1>1, <1>2, <1>6, <3>2
        <3> QED BY <3>1, <3>2
    <2> QED BY <2>1, <2>2, <2>3 DEF TablesOK
<1>8. LoginsOK'
    <2>1. logins' \subseteq Browsers \X (1..MaxUsers) \X (1..tickets')
        BY <1>1, <1>2, <1>6 DEF IInv, LoginsOK
    <2>2. ASSUME NEW b \in Browsers, NEW u \in 1..MaxUsers, NEW t \in 1..tickets',
                 NEW v \in DOMAIN users', <<b, u, t>> \in logins', users'[v].ticket = t
          PROVE  v = u
        <3>1. <<b, u, t>> \in logins /\ t \in 1..tickets
            BY <1>1, <2>2 DEF IInv, LoginsOK
        <3>2. v \in DOMAIN users /\ users[v].ticket = t
            BY <1>2, <1>6, <2>2, <3>1
        <3> QED BY <3>1, <3>2 DEF IInv, LoginsOK
    <2> QED BY <2>1, <2>2 DEF LoginsOK
<1>9. \A c, x : Earned(c, x) => Earned(c, x)'
    <2>1. tickets \in Nat /\ tickets' \in Nat /\ tickets <= tickets' /\ logins' = logins
        BY <1>1, <1>2, <1>6
    <2> QED BY <2>1 DEF Earned
<1>10. CookiesOK'
    BY <1>1, <1>9, CookiesKept DEF IInv
<1>11. FlowOK'
    <2>1. req'.done <= Len(req'.rows)
        BY <1>1, <1>2, <1>3
    <2>2. FlowOK
        BY DEF IInv
    <2> QED BY <1>1, <1>3, <2>1, <2>2 DEF FlowOK
<1>12. SessionOK'
    BY <1>1, <1>3, <1>9 DEF IInv, SessionOK
<1>13. SavedOK'
    <2>1. ASSUME NEW i \in 1..req'.done
          PROVE  \/ req.rows[i].id = 0
                 \/ \E j \in DOMAIN req.rows : j > i /\ req.rows[j].id = req.rows[i].id
                 \/ /\ req.rows[i].id \in DOMAIN users'
                    /\ users'[req.rows[i].id].role = req.rows[i].role
        <3>1. CASE i = req.done + 1
            BY <1>6, <3>1 DEF row
        <3>2. CASE i \in 1..req.done /\ req.rows[i].id = row.id
            <4>1. req.done + 1 \in DOMAIN req.rows /\ req.done + 1 > i
                BY <1>1, <1>2, <3>2
            <4> QED BY <3>2, <4>1 DEF row
        <3>3. CASE i \in 1..req.done /\ req.rows[i].id # row.id
            BY <1>1, <1>6, <3>3 DEF IInv, SavedOK, Again
        <3> QED BY <1>2, <1>3, <3>1, <3>2, <3>3
    <2>2. phase' = "handle"
        BY <1>1
    <2> QED BY <1>3, <2>1, <2>2 DEF SavedOK, Again
<1>14. LengthOK'
    BY <1>1 DEF LengthOK, PagesHaveTheirLength
<1> QED BY <1>7, <1>8, <1>10, <1>11, <1>12, <1>13, <1>14 DEF IInv


LEMMA NoUserHasNoTicket == NoUser.ticket = 0
BY DEF NoUser

\* The cookie is of who the reply or else the request is of.
LEMMA RenewInv ==
    ASSUME IInv, Renew PROVE IInv'
<1>1. /\ phase = "renew" /\ phase' = "send"
      /\ rep' = [rep EXCEPT !.user = RepUser, !.ticket = RepUser.ticket]
      /\ UNCHANGED <<up, session, badOrder, req, outside>>
    BY DEF Renew
<1>2. BufferOK'
    BY BufferKeeps DEF Renew, IInv
<1>3. TablesOK' /\ LoginsOK' /\ \A c, x : Earned(c, x)' <=> Earned(c, x)
    BY <1>1, SessionKept DEF IInv
<1>4. CookiesOK'
    BY <1>1, <1>3, CookiesKept DEF IInv, outside
<1>5. rep \in ReplyTypes /\ req \in Requests /\ req.b \in Browsers
    BY <1>1 DEF IInv, FlowOK
<1>6. RepUser \in Users /\ RepUser.ticket \in Nat
    BY <1>5 DEF RepUser, ReplyTypes, Requests, Users
<1> DEFINE named == [rep EXCEPT !.user = RepUser]
<1>7. named \in ReplyTypes
    BY <1>5, <1>6, SetField
<1>8. rep' = [named EXCEPT !.ticket = RepUser.ticket]
    BY <1>1
<1>9. rep' \in ReplyTypes
    <2> HIDE DEF named
    <2> QED BY <1>6, <1>7, <1>8, SetField
<1>10. /\ rep'.user = RepUser /\ rep'.ticket = RepUser.ticket
       /\ rep'.status = rep.status /\ rep'.content = rep.content
       /\ rep'.length = rep.length
    BY <1>1, <1>5 DEF ReplyTypes
<1>11. rep'.template = rep.template
    BY Zenon, <1>1, <1>5 DEF ReplyTypes
<1>12. FlowOK'
    BY <1>1, <1>9 DEF IInv, FlowOK
<1>13. SessionOK'
    <2>1. RepUser # NoUser => <<req.b, RepUser.id, RepUser.ticket>> \in logins
        BY DEF RepUser, IInv, SessionOK
    <2>2. RepUser.ticket # 0 => Earned(req.b, RepUser.ticket)
        <3>1. SUFFICES ASSUME RepUser.ticket # 0 PROVE Earned(req.b, RepUser.ticket)
            OBVIOUS
        <3>2. RepUser # NoUser
            BY <3>1, NoUserHasNoTicket
        <3> QED BY <2>1, <3>2 DEF Earned, IInv, LoginsOK
    <2>3. req' = req /\ logins' = logins
        BY <1>1 DEF session
    <2> HIDE DEF named
    <2> QED BY <1>3, <1>10, <2>1, <2>2, <2>3 DEF IInv, SessionOK
<1>14. SavedOK'
    BY <1>1, <1>10 DEF IInv, SavedOK, Again, session
<1>15. LengthOK'
    <2>1. rep.status = 200 /\ Measured => rep.template \/ rep.length = rep.content
        BY <1>1 DEF IInv, LengthOK
    <2>2. rep'.status = 200 /\ Measured' => rep'.template \/ rep'.length = rep'.content
        BY <1>1, <1>10, <1>11, <2>1 DEF Measured
    <2> QED BY <1>1, <2>2 DEF LengthOK, PagesHaveTheirLength
<1> QED BY <1>2, <1>3, <1>4, <1>12, <1>13, <1>14, <1>15 DEF IInv

\* What is sent has the length of what it is.
LEMMA ToBuffersInv ==
    ASSUME IInv, ToBuffers PROVE IInv'
<1>1. /\ phase = "send" /\ phase' = "write"
      /\ UNCHANGED <<up, session, badOrder, stale, foreign, req, outside>>
    BY DEF ToBuffers
<1>2. BufferOK'
    BY DEF ToBuffers, IInv, BufferOK
<1>3. TablesOK' /\ LoginsOK' /\ \A c, x : Earned(c, x)' <=> Earned(c, x)
    BY <1>1, SessionKept DEF IInv
<1>4. CookiesOK'
    BY <1>1, <1>3, CookiesKept DEF IInv, outside
<1>5. rep \in ReplyTypes /\ Line \in Statuses /\ "page" \in Texts /\ "part" \in Texts
    <2>1. rep \in ReplyTypes
        BY DEF IInv, FlowOK
    <2>2. rep.status \in Statuses
        BY <2>1 DEF ReplyTypes
    <2>3. 500 \in Statuses /\ "page" \in Texts /\ "part" \in Texts
        BY DEF Statuses, Texts
    <2> QED BY <2>1, <2>2, <2>3 DEF Line
<1>6. /\ rep' \in ReplyTypes
      /\ rep'.user = rep.user
      /\ rep'.ticket = rep.ticket \/ rep'.ticket = 0
      /\ rep'.line = 200 /\ rep'.content # "stock" /\ Measured => rep'.length = rep'.content
    <2>1. CASE Rendered /\ rep' = [Render(rep) EXCEPT !.line = Line]
        <3> DEFINE r1 == [rep EXCEPT !.content = "page"]
                   r2 == [r1 EXCEPT !.length = "page"]
        <3>1. r1 \in ReplyTypes
            BY <1>5, SetField
        <3>2. Render(rep) = r2
            BY DEF Render
        <3>3. r2 \in ReplyTypes /\ r2.length = r2.content /\ r2.user = rep.user
                 /\ r2.ticket = rep.ticket
            <4>1. r2 \in ReplyTypes
                <5> HIDE DEF r1
                <5> QED BY <1>5, <3>1, SetField
            <4> QED BY <1>5, <4>1 DEF ReplyTypes
        <3> HIDE DEF r2
        <3>4. [r2 EXCEPT !.line = Line] \in ReplyTypes
            BY <1>5, <3>3, SetField
        <3> QED BY <2>1, <3>2, <3>3, <3>4 DEF ReplyTypes
    <2>2. CASE ~Rendered /\ rep' = [rep EXCEPT !.line = Line]
        <3>1. rep' \in ReplyTypes
            BY <1>5, <2>2, SetField
        <3>2. /\ rep'.user = rep.user /\ rep'.ticket = rep.ticket /\ rep'.line = Line
              /\ rep'.length = rep.length /\ rep'.content = rep.content
            BY <1>5, <2>2 DEF ReplyTypes
        <3>3. Line = 200 => rep.status = 200
            BY DEF Line
        <3>4. rep.status = 200 /\ Measured => rep.template \/ rep.length = rep.content
            BY <1>1 DEF IInv, LengthOK
        <3>5. rep.status = 200 /\ Measured => rep.length = rep.content
            BY <2>2, <3>4 DEF Rendered
        <3> QED BY <3>1, <3>2, <3>3, <3>5
    <2>3. ASSUME NEW left \in {rep.content, "part"},
                 rep' = SetTo([rep EXCEPT !.content = left, !.line = Line], 500)
          PROVE  /\ rep' \in ReplyTypes /\ rep'.user = rep.user /\ rep'.ticket = 0
                 /\ rep'.content = "stock"
        <3> DEFINE r1 == [rep EXCEPT !.content = left]
                   r2 == [r1 EXCEPT !.line = Line]
        <3>1. left \in Texts /\ 500 \in Statuses \ {200}
            <4>1. rep.content \in Texts
                BY <1>5 DEF ReplyTypes
            <4>2. 500 \in Statuses \ {200}
                BY DEF Statuses
            <4> QED BY <1>5, <4>1, <4>2
        <3>2. r1 \in ReplyTypes
            <4>1. \A text \in Texts : [rep EXCEPT !.content = text] \in ReplyTypes
                BY <1>5, SetField
            <4> QED BY <3>1, <4>1
        <3>3. r2 \in ReplyTypes
            <4> HIDE DEF r1
            <4> QED BY <1>5, <3>2, SetField
        <3>4. r2.user = rep.user
            BY <1>5 DEF ReplyTypes
        <3>5. rep' = SetTo(r2, 500)
            BY <2>3
        <3> HIDE DEF r2
        <3> QED BY <3>1, <3>3, <3>4, <3>5, StockReply
    <2> QED BY <2>1, <2>2, <2>3 DEF ToBuffers
<1>7. FlowOK'
    BY <1>1, <1>6 DEF IInv, FlowOK
<1>8. SessionOK'
    <2>1. req' = req /\ logins' = logins
        BY <1>1 DEF session
    <2> QED BY <1>3, <1>6, <2>1 DEF IInv, SessionOK
<1>9. SavedOK'
    BY <1>1 DEF IInv, SavedOK, Again, session
<1>10. LengthOK'
    BY <1>1, <1>6 DEF LengthOK, PagesHaveTheirLength, Measured
<1> QED BY <1>2, <1>3, <1>4, <1>7, <1>8, <1>9, <1>10 DEF IInv

\* The cookie is on its way to the browser that the request came from.
LEMMA WriteInv ==
    ASSUME IInv, Write PROVE IInv'
<1>1. /\ phase = "write"
      /\ replies' = replies \cup {<<req.b, t>> : t \in {rep.ticket} \ {0}}
      /\ phase' = "idle" /\ req' = NoReq /\ rep' = NewReply
      /\ UNCHANGED <<up, session, database, held>>
    BY DEF Write
<1>2. TablesOK' /\ LoginsOK' /\ \A c, x : Earned(c, x)' <=> Earned(c, x)
    BY <1>1, SessionKept DEF IInv
<1>3. BufferOK' /\ up' \in BOOLEAN /\ badOrder' \in BOOLEAN
    BY <1>1 DEF IInv, BufferOK, FlowOK, database
<1>4. CookiesOK'
    <2>1. req.b \in Browsers /\ rep.ticket \in Nat
        BY <1>1 DEF IInv, FlowOK, ReplyTypes
    <2>2. rep.ticket # 0 => Earned(req.b, rep.ticket)
        BY DEF IInv, SessionOK
    <2>3. replies' \subseteq Browsers \X Nat
        BY <1>1, <2>1 DEF IInv, CookiesOK
    <2>4. ASSUME NEW b \in Browsers, NEW t \in Nat, <<b, t>> \in replies'
          PROVE  Earned(b, t)
        BY <1>1, <2>2, <2>4 DEF IInv, CookiesOK
    <2> QED BY <1>1, <1>2, <2>3, <2>4 DEF IInv, CookiesOK
<1>5. NoReq \in Requests /\ NoReq.done <= Len(NoReq.rows) /\ NoReq.page # "users/save"
    <2>1. <<>> \in Seq(RowsToSave) /\ Len(<<>>) = 0
        OBVIOUS
    <2> QED BY <2>1, FirstReply DEF NoReq, Requests
<1>6. FlowOK'
    BY <1>1, <1>3, <1>5, FirstReply DEF FlowOK
<1>7. SessionOK'
    BY <1>1 DEF SessionOK, NoReq, NewReply, NoUser
<1>8. SavedOK' /\ LengthOK'
    BY <1>1, <1>5 DEF SavedOK, LengthOK, PagesHaveTheirLength
<1> QED BY <1>2, <1>3, <1>4, <1>6, <1>7, <1>8 DEF IInv

\* Neither the arrival of a reply nor a start touches the request in hand.
LEMMA UntouchedInv ==
    ASSUME IInv, UNCHANGED <<session, phase, req, rep>>, BufferOK', CookiesOK',
           up' \in BOOLEAN, badOrder' \in BOOLEAN
    PROVE  IInv'
<1>1. TablesOK' /\ LoginsOK' /\ \A c, x : Earned(c, x)' <=> Earned(c, x)
    BY SessionKept DEF IInv
<1>2. FlowOK'
    BY DEF IInv, FlowOK
<1>3. SessionOK'
    BY <1>1 DEF IInv, SessionOK, session
<1>4. SavedOK'
    BY DEF IInv, SavedOK, Again, session
<1>5. LengthOK'
    BY DEF IInv, LengthOK, PagesHaveTheirLength, Measured
<1> QED BY <1>1, <1>2, <1>3, <1>4, <1>5 DEF IInv

LEMMA DeliverInv ==
    ASSUME IInv, NEW r \in replies, Deliver(r[1], r[2]) PROVE IInv'
<1>1. PICK b \in Browsers, t \in Nat : r = <<b, t>>
    BY DEF IInv, CookiesOK
<1>2. /\ replies' = replies \ {<<b, t>>}
      /\ held' = [held EXCEPT ![b] = held[b] \cup {t}]
      /\ UNCHANGED <<up, session, database, phase, req, rep>>
    BY <1>1 DEF Deliver
<1>3. \A c, x : Earned(c, x)' <=> Earned(c, x)
    BY <1>2, SessionKept DEF IInv
<1>4. Earned(b, t)
    BY <1>1 DEF IInv, CookiesOK
<1>5. CookiesOK'
    BY <1>2, <1>3, <1>4 DEF IInv, CookiesOK
<1>6. BufferOK' /\ up' \in BOOLEAN /\ badOrder' \in BOOLEAN
    BY <1>2 DEF IInv, BufferOK, FlowOK, database
<1> QED BY <1>2, <1>5, <1>6, UntouchedInv

LEMMA RestartInv ==
    ASSUME IInv, Restart PROVE IInv'
<1>1. UNCHANGED <<session, phase, req, rep, held, replies>>
    BY DEF Restart, outside
<1>2. CookiesOK'
    BY <1>1, SessionKept, CookiesKept DEF IInv
<1>3. BufferOK'
    BY DEF Restart, IInv, BufferOK
<1>4. up' = TRUE /\ badOrder' \in {badOrder, FALSE}
    BY Zenon DEF Restart
<1>5. up' \in BOOLEAN /\ badOrder' \in BOOLEAN
    BY <1>4 DEF IInv, FlowOK
<1> QED BY <1>1, <1>2, <1>3, <1>5, UntouchedInv

\* The web thread dies of what fails before or behind the handlers.
LEMMA DieInv ==
    ASSUME IInv, Die, BufferOK' PROVE IInv'
<1>1. badOrder' \in BOOLEAN /\ up' \in BOOLEAN
    BY DEF Die, IInv, FlowOK
<1> QED BY <1>1, IdleInv DEF Die, outside

LEMMA IInvNext ==
    ASSUME IInv, [Next]_vars PROVE IInv'
<1>1. CASE UNCHANGED vars
    <2>1. CookiesOK' /\ BufferOK' /\ up' \in BOOLEAN /\ badOrder' \in BOOLEAN
        BY <1>1 DEF vars, session, database, outside, IInv, CookiesOK, BufferOK, FlowOK, Earned
    <2> QED BY <1>1, <2>1, UntouchedInv DEF vars
<1>2. ASSUME NEW b \in Browsers, NEW page \in Pages,
             \/ /\ page \in {"validate", "users/del"}
                /\ \E u \in 0..MaxUsers : Receive(b, page, u, <<>>)
             \/ /\ page \in {"song/dl", "song/img"}
                /\ \E t \in 0..MaxTickets : Receive(b, page, t, <<>>)
             \/ /\ page = "users/save"
                /\ \E n \in 0..MaxRows : \E rows \in [1..n -> RowsToSave] :
                      Receive(b, page, 0, rows)
             \/ /\ page \notin {"validate", "users/del", "song/dl", "song/img", "users/save"}
                /\ Receive(b, page, 0, <<>>)
      PROVE  IInv'
    <2>1. \E arg \in Nat : \E rows \in Seq(RowsToSave) : Receive(b, page, arg, rows)
        <3>1. <<>> \in Seq(RowsToSave)
            OBVIOUS
        <3>2. \A n \in 0..MaxRows : n \in Nat /\ [1..n -> RowsToSave] \subseteq Seq(RowsToSave)
            BY BoundsFit, SeqDef
        <3>3. 0 \in Nat /\ 0..MaxUsers \subseteq Nat /\ 0..MaxTickets \subseteq Nat
            BY BoundsFit
        <3>4. CASE \E n \in 0..MaxRows : \E rows \in [1..n -> RowsToSave] :
                      Receive(b, page, 0, rows)
            BY <3>2, <3>3, <3>4
        <3>5. CASE \E arg \in (0..MaxUsers) \cup (0..MaxTickets) \cup {0} :
                      Receive(b, page, arg, <<>>)
            BY <3>1, <3>3, <3>5
        <3> QED BY Zenon, <1>2, <3>4, <3>5
    <2> QED BY <2>1, ReceiveInv
<1>3. CASE LookUp
    BY <1>3, LookUpInv
<1>4. CASE LookUpFails \/ RenewFails
    <2>1. Die /\ BufferOK'
        BY <1>4, BufferKeeps DEF LookUpFails, RenewFails, IInv
    <2> QED BY <2>1, DieInv
<1>5. CASE Handle
    <2>1. /\ phase = "handle" /\ BufferOK'
          /\ Keeps \/ LogsIn \/ Deletes \/ Saves \/ (Die /\ KnownEnd)
        BY <1>5, HandlersEnd DEF IInv
    <2> QED BY <2>1, KeepsInv, LogsInInv, DeletesInv, SavesInv, DieInv
<1>6. CASE Renew
    BY <1>6, RenewInv
<1>7. CASE ToBuffers
    BY <1>7, ToBuffersInv
<1>8. CASE Write
    BY <1>8, WriteInv
<1>9. CASE \E r \in replies : Deliver(r[1], r[2])
    BY <1>9, DeliverInv
<1>10. CASE Restart
    BY <1>10, RestartInv
<1>11. CASE LengthNoNumber
    BY <1>11, BufferKeeps, DieInv DEF LengthNoNumber, IInv
<1> QED BY <1>1, <1>2, <1>3, <1>4, <1>5, <1>6, <1>7, <1>8, <1>9, <1>10, <1>11 DEF Next

LEMMA IInvHolds == Spec => []IInv
BY IInvInit, IInvNext, PTL DEF Spec

------------------------------------------------------------------------------
(* The theorems.                                                           *)

\* Users have tickets that were generated and roles that there are, and the thread
\* is at a request exactly when it has one.
THEOREM TypeCorrect == Spec => []TypeOK
<1>1. IInv => TypeOK
    <2> SUFFICES ASSUME IInv PROVE TypeOK
        OBVIOUS
    <2>2. ASSUME NEW b \in Browsers PROVE held[b] \subseteq 0..tickets
        <3>1. \A t \in held[b] : t = 0 \/ t \in 1..tickets
            BY DEF IInv, CookiesOK, Earned
        <3>2. tickets \in Nat
            BY BoundsFit DEF IInv, TablesOK
        <3> QED BY <3>1, <3>2
    <2>3. phase # "idle" => req # NoReq
        <3>1. "none" \notin Pages /\ NoReq.page = "none"
            BY PagesKnown DEF NoReq, AllPages, Guarded, UserPages
        <3> QED BY <3>1 DEF IInv, FlowOK
    <2>4. req.user.id \in 0..MaxUsers
        BY DEF IInv, FlowOK, Requests, Users
    <2>5. {rep.status, rep.line} \subseteq Statuses
        BY DEF IInv, FlowOK, ReplyTypes
    <2>6. up \in BOOLEAN /\ badOrder \in BOOLEAN /\ stale \in BOOLEAN /\ foreign \in BOOLEAN
        BY DEF IInv, FlowOK, BufferOK
    <2>7. {up, badOrder, stale, foreign} \subseteq BOOLEAN
        BY Zenon, <2>6
    <2>8. \A u \in DOMAIN users : users[u].ticket \in 1..tickets /\ users[u].role \in Roles
        BY DEF IInv, TablesOK
    <2>9. /\ DOMAIN users \subseteq 1..MaxUsers /\ tickets \in 2..MaxTickets
          /\ phase \in {"idle", "ticket", "handle", "renew", "send", "write"}
          /\ phase = "idle" <=> req = NoReq
          /\ req.done <= Len(req.rows)
        BY <2>3 DEF IInv, TablesOK, FlowOK
    <2> QED BY <2>2, <2>4, <2>5, <2>7, <2>8, <2>9 DEF TypeOK, Statuses
<1> QED BY <1>1, IInvHolds, PTL

\* A browser acts as a user only by a ticket it logged in for as that user, whatever
\* replies arrive and whoever is created or deleted.
THEOREM SessionsAreEarnedHolds == Spec => []SessionsAreEarned
<1>1. ASSUME IInv, NEW b \in Browsers, NEW t \in 1..tickets, NEW u \in DOMAIN users,
             t \in held[b], users[u].ticket = t
      PROVE  <<b, u, t>> \in logins
    <2>1. Earned(b, t)
        <3>1. t # 0
            OBVIOUS
        <3> QED BY <1>1, <3>1 DEF IInv, CookiesOK
    <2>2. PICK v \in 1..MaxUsers : <<b, v, t>> \in logins
        BY <2>1 DEF Earned
    <2>3. u = v
        BY <1>1, <2>2 DEF IInv, LoginsOK
    <2> QED BY <2>2, <2>3
<1>2. IInv => SessionsAreEarned
    BY <1>1 DEF SessionsAreEarned
<1> QED BY <1>2, IInvHolds, PTL

\* A 200 from /users/save means that what it was asked for is in the table.
THEOREM SavedAsAskedHolds == Spec => []SavedAsAsked
<1>1. IInv => SavedAsAsked
    <2>1. SUFFICES ASSUME IInv, phase = "send", req.page = "users/save", rep.status = 200,
                          NEW i \in DOMAIN req.rows
                   PROVE  \/ req.rows[i].id = 0
                          \/ Again(i)
                          \/ users[req.rows[i].id].role = req.rows[i].role
        BY DEF SavedAsAsked, Again
    <2>2. i \in 1..req.done
        BY <2>1 DEF IInv, SavedOK, FlowOK, Requests
    <2> QED BY <2>1, <2>2 DEF IInv, SavedOK
<1> QED BY <1>1, IInvHolds, PTL

\* Content-Length is the length of what a handler made and a 200 carries, but for
\* /users/list and /song/img; stock and error pages are not spoken of.
THEOREM LengthsHold == Spec => []PagesHaveTheirLength
BY IInvHolds, PTL DEF IInv, LengthOK

\* Accounts are created, deleted and given roles only by an administrator who logged
\* in from the browser that asks.
THEOREM AdminsChangeAccountsHolds == Spec => AdminsChangeAccounts
<1>1. ASSUME IInv, [Next]_vars, Accounts' # Accounts
      PROVE  req.user.role = "admin" /\ <<req.b, req.user.id, req.ticket>> \in logins
    <2>1. ASSUME UNCHANGED users PROVE FALSE
        BY <1>1, <2>1 DEF Accounts
    <2>2. CASE Handle
        <3>1. Keeps \/ LogsIn \/ Deletes \/ Saves \/ (Die /\ KnownEnd)
            BY <1>1, <2>2, HandlersEnd DEF IInv
        <3>2. CASE Keeps \/ Die
            BY <2>1, <3>2 DEF Keeps, Die, session
        <3>3. CASE LogsIn
            <4>1. /\ DOMAIN users' = DOMAIN users
                  /\ \A u \in DOMAIN users : users'[u].role = users[u].role
                BY <1>1, <3>3 DEF LogsIn, IInv, TablesOK
            <4> QED BY <1>1, <4>1 DEF Accounts
        <3>4. CASE Deletes \/ Saves
            BY <1>1, <3>4 DEF Deletes, Saves, MayChange, IInv, SessionOK
        <3> QED BY <3>1, <3>2, <3>3, <3>4
    <2>3. CASE UNCHANGED vars
        BY <2>1, <2>3 DEF vars, session
    <2>4. CASE LookUp \/ Renew \/ ToBuffers \/ Write \/ Restart
        BY <2>1, <2>4 DEF LookUp, Renew, ToBuffers, Write, Restart, session
    <2>5. CASE LookUpFails \/ RenewFails \/ LengthNoNumber
        BY <2>1, <2>5 DEF LookUpFails, RenewFails, LengthNoNumber, Die, session
    <2>6. CASE \E r \in replies : Deliver(r[1], r[2])
        BY <2>1, <2>6 DEF Deliver, session
    <2>7. CASE \E b, page, arg, rows : Receive(b, page, arg, rows)
        BY <2>1, <2>7 DEF Receive, session
    <2> QED BY <1>1, <2>2, <2>3, <2>4, <2>5, <2>6, <2>7 DEF Next
<1> QED BY <1>1, IInvHolds, PTL DEF Spec, AdminsChangeAccounts

\* The process ends of a length that is no number, of a statement that fails while
\* the session is looked up or renewed, and in a handler of the requests that
\* KnownEnd names: of nothing else.
THEOREM KnownEndsHolds == Spec => KnownEnds
<1>1. ASSUME IInv, [Next]_vars, up, ~up'
      PROVE  \/ phase = "idle"
             \/ phase \in {"ticket", "renew"} /\ (stale \/ failures' > failures)
             \/ phase = "handle" /\ KnownEnd
    <2>1. failures \in Nat
        BY <1>1 DEF IInv, BufferOK
    <2>2. CASE Handle
        <3>1. phase = "handle" /\ (Keeps \/ LogsIn \/ Deletes \/ Saves
                                     \/ (Die /\ KnownEnd))
            BY <1>1, <2>2, HandlersEnd DEF IInv
        <3>2. ~UNCHANGED up
            BY Zenon, <1>1
        <3> QED BY <3>1, <3>2 DEF Keeps, LogsIn, Deletes, Saves, Replies
    <2>3. CASE LookUpFails \/ RenewFails
        <3>1. PICK first, kinds : Fails(first, kinds)
            BY <2>3 DEF LookUpFails, RenewFails
        <3>2. stale \/ failures' = failures + 1
            BY Zenon, <3>1 DEF Fails
        <3>3. failures' = failures + 1 => failures' > failures
            BY <2>1
        <3>4. phase \in {"ticket", "renew"}
            BY <2>3 DEF LookUpFails, RenewFails
        <3> QED BY Zenon, <3>2, <3>3, <3>4
    <2>4. UNCHANGED up => FALSE
        BY Zenon, <1>1
    <2>5. CASE LookUp \/ Renew \/ ToBuffers \/ Write \/ UNCHANGED vars
        BY <2>4, <2>5 DEF LookUp, Renew, ToBuffers, Write, vars
    <2>6. CASE Restart
        BY Zenon, <1>1, <2>6 DEF Restart
    <2>7. CASE \E r \in replies : Deliver(r[1], r[2])
        BY <2>4, <2>7 DEF Deliver
    <2>8. CASE \E b, page, arg, rows : Receive(b, page, arg, rows)
        BY <2>4, <2>8 DEF Receive
    <2>9. CASE LengthNoNumber
        BY Zenon, <2>9 DEF LengthNoNumber
    <2> QED BY <1>1, <2>2, <2>3, <2>5, <2>6, <2>7, <2>8, <2>9 DEF Next
<1>2. IInv /\ [Next]_vars => (up /\ ~up' =>
            \/ phase = "idle"
            \/ phase \in {"ticket", "renew"} /\ (stale \/ failures' > failures)
            \/ phase = "handle" /\ KnownEnd)
    BY <1>1
<1> QED BY <1>2, IInvHolds, PTL DEF Spec, KnownEnds, KnownEnd
==============================================================================
