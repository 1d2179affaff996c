---------------------------- MODULE RequestParser ----------------------------
(***************************************************************************)
(* RequestParser: ews::request_parser, fed one character after the other,  *)
(* and the decoding of what it has read.  The parser keeps its state       *)
(* between reads, so that a read is a run of Consume steps of any length.  *)
(*                                                                         *)
(* A symbol stands for a character, or for a text whose characters the     *)
(* parser treats alike ("length" for Content-Length, "LENGTH" for that in  *)
(* capitals).  "w" is any other text but a sign, "hi" a byte above 127,    *)
(* "ctl" one below 32.  The client sends one of Requests; one symbol of it *)
(* may be lost, doubled or changed.                                        *)
(***************************************************************************)
EXTENDS Naturals, Sequences, FiniteSets, SequencesExt

CONSTANTS
    Requests,   \* what clients send
    Noise,      \* symbols that a symbol is changed into
    CharMax,    \* the largest signed char, 127 in the build
    UintMax     \* the largest unsigned int, 2^32 - 1 in the build

ASSUME CharsCountToFive == CharMax \in Nat /\ 5 <= CharMax
ASSUME UintsCount == UintMax \in Nat

Digits == {"0", "1", "2", "3", "4", "5", "6", "7", "8", "9"}
Words == {"POST", "GET", "length", "LENGTH", "cookie", "COOKIE", "name", "NAME",
          "ticket", "w", "e", "o"}
Blanks == {"sp", "tab"}
Ctl == {"cr", "lf", "tab", "ctl"}
Chars == Digits \cup Words \cup Blanks \cup Ctl \cup
         {"H", "T", "P", "/", ".", ":", "?", "=", "&", "%", "hi"}

\* is_char, but neither is_ctl nor is_tspecial
Token == Digits \cup Words \cup {"H", "T", "P", ".", "&", "%"}

VARIABLES
    sent, wire, pos,             \* the request, its text, how much of it is read
    garbled,                     \* a symbol was lost, doubled or changed
    state, verdict,              \* the parser's state, and what consume returned
    method, uri, headers, body,  \* the request object
    name, value,                 \* its current_header_name and _value
    length,                      \* its content_length
    final                        \* what perform_final_decode made of it

client == <<sent, wire, garbled>>
line == <<method, uri>>
current == <<name, value>>
vars == <<client, pos, state, verdict, line, headers, body, current, length, final>>

------------------------------------------------------------------------------
(* Decoding.                                                               *)

\* Two digits after "%", as a hexadecimal number; "%21" is the code of "e".
Hex(a, b) == IF <<a, b>> = <<"2", "1">> THEN <<"e">>
             ELSE IF a \in Digits \/ (a \in Blanks /\ b \in Digits) THEN <<"o">> ELSE <<>>

\* decode_str: an escape that is cut off ends the text.
Decode(s) ==
    LET from[i \in 1..(Len(s) + 3)] ==
            IF i > Len(s) THEN <<>>
            ELSE IF s[i] # "%" THEN <<s[i]>> \o from[i + 1]
            ELSE IF i + 2 <= Len(s) THEN Hex(s[i + 1], s[i + 2]) \o from[i + 3]
            ELSE <<>>
    IN  from[1]

Capital == [length |-> "LENGTH", cookie |-> "COOKIE", name |-> "NAME"]
Upper(s) == [i \in DOMAIN s |-> IF s[i] \in DOMAIN Capital THEN Capital[s[i]] ELSE s[i]]

\* get_header: empty when there is none.
Header(hs, n) == IF <<n>> \in DOMAIN hs THEN hs[<<n>>] ELSE <<>>

Number(s) == FoldLeft(LAMBDA n, d : 10 * n + CHOOSE k \in 0..9 : ToString(k) = d, 0, s)

\* lexical_cast takes s; a number that is too large is none.
IsNumber(s) == s # <<>> /\ (\A i \in DOMAIN s : s[i] \in Digits) /\ Number(s) <= UintMax

NoPair == [pairs |-> <<>>, name |-> <<>>, value |-> <<>>, named |-> FALSE]

\* parse_form_elements: what [?]?([^?=]*)=([^&]*)&? matches, one after the other.
\* The "&" that is appended here ends the last value.
FormElements(s) ==
    LET Extend(f, c) ==
            IF f.named /\ c # "&" THEN [f EXCEPT !.value = Append(@, c)]
            ELSE IF f.named THEN [NoPair EXCEPT !.pairs =
                                    Append(f.pairs, <<Decode(f.name), Decode(f.value)>>)]
            ELSE IF c = "=" THEN [f EXCEPT !.named = TRUE]
            ELSE [f EXCEPT !.name = IF c = "?" THEN <<>> ELSE Append(@, c)]
    IN  FoldLeft(Extend, NoPair, Append(s, "&")).pairs

\* boost::split at "/", adjacent ones taken as one.
Elements(s) ==
    LET Extend(es, c) ==
            IF c # "/" THEN [es EXCEPT ![Len(es)] = Append(@, c)]
            ELSE IF Len(es) > 1 /\ Last(es) = <<>> THEN es ELSE Append(es, <<>>)
    IN  FoldLeft(Extend, << <<>> >>, s)

BeforeQuery(s) ==
    IF Contains(s, "?") THEN SubSeq(s, 1, Min({i \in DOMAIN s : s[i] = "?"}) - 1) ELSE s

\* num_url_elements, of n elements: their number becomes a signed char, so that there
\* are none above CharMax, and some again when that has gone around.
Kept(n) == LET c == n % (2 * (CharMax + 1)) IN IF c > CharMax THEN 0 ELSE Min({c, 5})

\* perform_final_decode: the elements u1 to u5, the variables in the order in which
\* they were found, and the value of the first one named Ticket.
FinalDecode(hs, b) ==
    LET elements == Tail(Elements(BeforeQuery(Decode(uri))))
        cookies == Header(hs, "COOKIE")
        pairs == FormElements(uri) \o FormElements(b) \o FormElements(cookies)
        tickets == {i \in DOMAIN pairs : pairs[i][1] = <<"ticket">>}
    IN  [elements |-> SubSeq(elements, 1, Kept(Len(elements))),
         variables |-> pairs,
         ticket |-> IF cookies = <<>> \/ tickets = {} THEN <<>> ELSE pairs[Min(tickets)][2]]

NotDecoded == [elements |-> <<>>, variables |-> <<>>, ticket |-> <<>>]

------------------------------------------------------------------------------
(* What the client sends.                                                  *)

Crlf == <<"cr", "lf">>
Joined(pieces) == FlattenSeq(pieces)

Escaped(s) == Joined([i \in DOMAIN s |-> IF s[i] = "e" THEN <<"%", "2", "1">> ELSE <<s[i]>>])

FormText(pairs) ==
    Joined([i \in DOMAIN pairs |->
              (IF i = 1 THEN <<>> ELSE <<"&">>)
              \o Escaped(pairs[i][1]) \o <<"=">> \o Escaped(pairs[i][2])])

\* A header is a name, whether a space follows the colon, and the lines of its value.
HeaderText(h) ==
    <<h.name, ":">> \o (IF h.spaced THEN <<"sp">> ELSE <<>>)
    \o Joined([i \in DOMAIN h.lines |-> (IF i = 1 THEN <<>> ELSE <<"tab", "sp">>)
                                         \o h.lines[i] \o Crlf])

UriText(r) ==
    (IF r.path = <<>> THEN <<"/">> ELSE Joined([i \in DOMAIN r.path |-> <<"/">> \o Escaped(r.path[i])]))
    \o IF r.query = <<>> THEN <<>> ELSE <<"?">> \o FormText(r.query)

Text(r) ==
    <<r.method, "sp">> \o UriText(r) \o <<"sp", "H", "T", "T", "P", "/", "1", ".", "1">> \o Crlf
    \o Joined([i \in DOMAIN r.headers |-> HeaderText(r.headers[i])]) \o Crlf
    \o FormText(r.form)

\* The last header of a name, and its value with all its lines.
LastOf(r, n) == Max({0} \cup {i \in DOMAIN r.headers : Upper(<<r.headers[i].name>>) = <<n>>})
ValueOf(r, n) == Joined(r.headers[LastOf(r, n)].lines)

\* What stands for itself in a form, but for "e"; a value may have "=" as well.
Plain == Token \ {"&", "%"}
Pairs == Seq(Plain) \X Seq(Plain \cup {"="})
HeaderLines == [name : Words, spaced : BOOLEAN, lines : Seq(Seq(Chars \ Ctl)) \ {<<>>}]

\* A value is set off by a space or starts with something else, and so does each line
\* that continues it.  The first header is one line: see FoldHeader.
IsHeader(h) ==
    /\ h.spaced \/ (h.lines[1] # <<>> /\ h.lines[1][1] # "sp")
    /\ \A i \in 2..Len(h.lines) : h.lines[i] # <<>> => h.lines[i][1] \notin Blanks

\* A request as a browser writes it: a form has its length, a cookie its header.
IsRequest(r) ==
    /\ r.method \in Plain /\ r.path \in Seq(Seq(Plain) \ {<<>>})
    /\ r.query \in Seq(Pairs) /\ r.form \in Seq(Pairs) /\ r.cookie \in Seq(Pairs)
    /\ r.headers \in Seq(HeaderLines) /\ \A i \in DOMAIN r.headers : IsHeader(r.headers[i])
    /\ r.headers # <<>> => Len(r.headers[1].lines) = 1
    /\ IF r.method = "POST" /\ LastOf(r, "LENGTH") # 0
       THEN LET said == Decode(ValueOf(r, "LENGTH"))
            IN  IsNumber(said) /\ Number(said) = Len(FormText(r.form))
       ELSE r.form = <<>>
    /\ IF LastOf(r, "COOKIE") # 0 THEN ValueOf(r, "COOKIE") = FormText(r.cookie)
       ELSE r.cookie = <<>>
    /\ r.cookie # <<>> => r.cookie[1][1] = <<"ticket">>

ASSUME RequestTexts == \A r \in Requests : Text(r) \in Seq(Chars)
ASSUME RequestsAreWritten == \A r \in Requests : IsRequest(r)
ASSUME NoiseIsChars == Noise \subseteq Chars

Init ==
    /\ sent \in Requests /\ wire = Text(sent) /\ pos = 0 /\ garbled = FALSE
    /\ state = "method_start" /\ verdict = "more"
    /\ method = <<>> /\ uri = <<>> /\ headers = <<>> /\ body = <<>>
    /\ name = <<>> /\ value = <<>> /\ length = 0
    /\ final = NotDecoded

\* The next symbol is lost, doubled or changed.
Garble ==
    /\ ~garbled /\ verdict = "more" /\ pos < Len(wire)
    /\ garbled' = TRUE
    /\ \E there \in {<<>>, <<wire[pos + 1], wire[pos + 1]>>} \cup {<<c>> : c \in Noise} :
          wire' = SubSeq(wire, 1, pos) \o there \o SubSeq(wire, pos + 2, Len(wire))
    /\ UNCHANGED <<sent, pos, state, verdict, line, headers, body, current, length, final>>

------------------------------------------------------------------------------
(* consume.                                                                *)

\* From one state to the next on any of these characters.
Moves ==
    {<<"method_start", Token, "method">>,
     <<"method", {"sp"}, "uri">>,
     <<"method", Token, "method">>,
     <<"uri", {"sp"}, "http_version_h">>,
     <<"uri", Chars \ (Ctl \cup {"sp"}), "uri">>,
     <<"http_version_h", {"H"}, "http_version_t_1">>,
     <<"http_version_t_1", {"T"}, "http_version_t_2">>,
     <<"http_version_t_2", {"T"}, "http_version_p">>,
     <<"http_version_p", {"P"}, "http_version_slash">>,
     <<"http_version_slash", {"/"}, "http_version_major_start">>,
     <<"http_version_major_start", Digits, "http_version_major">>,
     <<"http_version_major", {"."}, "http_version_minor_start">>,
     <<"http_version_major", Digits, "http_version_major">>,
     <<"http_version_minor_start", Digits, "http_version_minor">>,
     <<"http_version_minor", {"cr"}, "expecting_newline_1">>,
     <<"http_version_minor", Digits, "http_version_minor">>,
     <<"expecting_newline_1", {"lf"}, "header_line_start">>,
     <<"header_line_start", {"cr"}, "expecting_newline_3">>,
     <<"header_lws", {"cr"}, "expecting_newline_2">>,
     <<"header_lws", Blanks, "header_lws">>,
     <<"header_lws", Chars \ (Ctl \cup Blanks), "header_value">>,
     <<"header_name", {":"}, "space_before_header_value">>,
     <<"header_name", Token, "header_name">>,
     <<"space_before_header_value", Chars, "header_value">>,
     <<"header_value", {"cr"}, "expecting_newline_2">>,
     <<"header_value", Chars \ Ctl, "header_value">>,
     <<"expecting_newline_2", {"lf"}, "header_line_start">>}

\* consume's argument
input == wire[pos + 1]
Consumes == verdict = "more" /\ pos < Len(wire) /\ pos' = pos + 1

\* The character goes to the part that the state it leads to is about.
Move ==
    \E m \in Moves :
        /\ Consumes /\ state = m[1] /\ input \in m[2] /\ state' = m[3]
        /\ method' = IF m[3] = "method" THEN Append(method, input) ELSE method
        /\ uri' = IF m[1] = "uri" /\ m[3] = "uri" THEN Append(uri, input) ELSE uri
        /\ name' = IF m[3] = "header_name" THEN Append(name, input) ELSE name
        /\ value' = IF m[3] = "header_value" /\ ~(m[1] = "space_before_header_value" /\ input = "sp")
                    THEN Append(value, input) ELSE value
        /\ UNCHANGED <<client, verdict, headers, body, length, final>>

\* headers, with the one that has been read.
Stored == [n \in DOMAIN headers \cup {Upper(Decode(name))} |->
              IF n = Upper(Decode(name)) THEN Decode(value) ELSE headers[n]]

\* Mistaken variant: clear_current_header is not called.
StartHeaderUncleared ==
    /\ Consumes /\ state = "header_line_start" /\ input \in Token
    /\ headers' = IF name = <<>> THEN headers ELSE Stored
    /\ name' = <<input>>
    /\ state' = "header_name"
    /\ UNCHANGED <<client, verdict, line, body, value, length, final>>

\* Only the next line shows that the last header was not continued.
StartHeader ==
    /\ Consumes /\ state = "header_line_start" /\ input \in Token
    /\ headers' = IF name = <<>> THEN headers ELSE Stored
    /\ name' = <<input>> /\ value' = <<>>
    /\ state' = "header_name"
    /\ UNCHANGED <<client, verdict, line, body, length, final>>

\* A line that continues the last header; it is not taken after the first header,
\* which is not in headers yet.
FoldHeader ==
    /\ Consumes /\ state = "header_line_start" /\ input \in Blanks
    /\ headers # <<>>
    /\ state' = "header_lws"
    /\ UNCHANGED <<client, verdict, line, headers, body, current, length, final>>

Ends(hs, b, decided) ==
    /\ verdict' = decided
    /\ final' = IF decided = "complete" THEN FinalDecode(hs, b) ELSE NotDecoded

\* Mistaken variant: the length is looked up before the last header is stored.
EndHeadersBeforeStoring ==
    /\ Consumes /\ state = "expecting_newline_3" /\ input = "lf"
    /\ headers' = Stored
    /\ LET said == Header(headers, "LENGTH")
           needed == method = <<"POST">> /\ <<"LENGTH">> \in DOMAIN headers
       IN  /\ length' = IF needed /\ IsNumber(said) THEN Number(said) ELSE 0
           /\ Ends(headers', body, IF needed /\ ~IsNumber(said) THEN "throws"
                                   ELSE IF length' = 0 THEN "complete" ELSE "more")
    /\ name' = <<>> /\ value' = <<>>
    /\ state' = IF verdict' = "more" THEN "reading_body" ELSE state
    /\ UNCHANGED <<client, line, body>>

\* lexical_cast throws when Content-Length is no number, and nothing catches that.
EndHeaders ==
    /\ Consumes /\ state = "expecting_newline_3" /\ input = "lf"
    /\ headers' = Stored
    /\ LET said == Header(headers', "LENGTH")
           needed == method = <<"POST">> /\ <<"LENGTH">> \in DOMAIN headers'
       IN  /\ length' = IF needed /\ IsNumber(said) THEN Number(said) ELSE 0
           /\ Ends(headers', body, IF needed /\ ~IsNumber(said) THEN "throws"
                                   ELSE IF length' = 0 THEN "complete" ELSE "more")
    /\ name' = <<>> /\ value' = <<>>
    /\ state' = IF verdict' = "more" THEN "reading_body" ELSE state
    /\ UNCHANGED <<client, line, body>>

ReadBody ==
    /\ Consumes /\ state = "reading_body"
    /\ body' = Append(body, input)
    /\ Ends(headers, body', IF Len(body') = length THEN "complete" ELSE "more")
    /\ UNCHANGED <<client, state, line, headers, current, length>>

Accepts ==
    \/ \E m \in Moves : state = m[1] /\ input \in m[2]
    \/ state = "header_line_start" /\ (input \in Token \/ (input \in Blanks /\ headers # <<>>))
    \/ state = "expecting_newline_3" /\ input = "lf"
    \/ state = "reading_body"

Refuse ==
    /\ Consumes /\ ~Accepts
    /\ verdict' = "refused"
    /\ UNCHANGED <<client, state, line, headers, body, current, length, final>>

\* What follows a request that is complete is never read.
Next == Garble \/ Move \/ StartHeader \/ FoldHeader \/ EndHeaders \/ ReadBody \/ Refuse

Spec == Init /\ [][Next]_vars

------------------------------------------------------------------------------
(* Properties.                                                             *)

\* A request that arrives as it was sent is complete with its last character and no
\* earlier, and is what was sent: method, variables, body and ticket, the value of
\* each header with all its lines, and of a path that a signed char counts the first
\* five elements.
ReadsAsSent ==
    ~garbled =>
        /\ verdict = IF pos = Len(wire) THEN "complete" ELSE "more"
        /\ verdict = "complete" =>
              /\ method = <<sent.method>> /\ body = FormText(sent.form)
              /\ Len(sent.path) <= CharMax =>
                    final.elements = IF sent.path = <<>> THEN << <<>> >>
                                     ELSE SubSeq(sent.path, 1, Min({Len(sent.path), 5}))
              /\ final.variables = sent.query \o sent.form \o sent.cookie
              /\ sent.cookie # <<>> /\ sent.query \o sent.form = <<>>
                    => final.ticket = sent.cookie[1][2]
              /\ \A i \in DOMAIN sent.headers :
                    LET n == Upper(<<sent.headers[i].name>>)
                    IN  headers[n] = Decode(ValueOf(sent, n[1]))

\* The text that was read, as lines that RFC 2616 unfolds.
Read == SubSeq(wire, 1, pos)
IsAt(t, i, s) == i + Len(s) - 1 <= Len(t) /\ SubSeq(t, i, i + Len(s) - 1) = s
HeadEnd(t) == 3 + Min({i \in DOMAIN t : IsAt(t, i, Crlf \o Crlf)})
InFold(t, i) ==
    \E j \in 1..i : /\ IsAt(t, j, Crlf) /\ j + 2 <= Len(t) /\ t[j + 2] \in Blanks
                    /\ \A k \in (j + 2)..i : t[k] \in Blanks
Unfolded(t) ==
    LET kept[n \in 0..Len(t)] == IF n = 0 THEN <<>>
                                 ELSE IF InFold(t, n) THEN kept[n - 1] ELSE Append(kept[n - 1], t[n])
    IN  kept[Len(t)]

\* The header whose line starts at i of an unfolded head.
LineAt(t, i) == SubSeq(t, i, Min({j \in i..Len(t) : IsAt(t, j, Crlf)}) - 1)
NameIn(l) == Upper(Decode(SubSeq(l, 1, Min({j \in DOMAIN l : l[j] = ":"}) - 1)))
ValueIn(l) ==
    LET colon == Min({j \in DOMAIN l : l[j] = ":"})
    IN  Decode(SubSeq(l, IF IsAt(l, colon + 1, <<"sp">>) THEN colon + 2 ELSE colon + 1, Len(l)))
HeaderStarts(t) == {i \in 3..(Len(t) - 2) : IsAt(t, i - 2, Crlf)}

\* Whatever arrives: the headers of a complete request are those its text has, the
\* last of a name counting, and it ends where the length among them says.
EndsWhereItSays ==
    verdict = "complete" =>
        LET head == Unfolded(SubSeq(Read, 1, HeadEnd(Read)))
            LastStart(n) == Max({i \in HeaderStarts(head) : NameIn(LineAt(head, i)) = n})
            names == {NameIn(LineAt(head, i)) : i \in HeaderStarts(head)}
        IN  /\ DOMAIN headers = IF names = {} THEN {<<>>} ELSE names
            /\ \A n \in names : headers[n] = ValueIn(LineAt(head, LastStart(n)))
            /\ pos = HeadEnd(Read) + IF IsAt(Read, 1, <<"POST", "sp">>) /\ <<"LENGTH">> \in names
                                     THEN Number(headers[<<"LENGTH">>]) ELSE 0
==============================================================================
