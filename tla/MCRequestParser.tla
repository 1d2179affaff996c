--------------------------- MODULE MCRequestParser ---------------------------
(***************************************************************************)
(* An instance of RequestParser for TLC: every path with every query, form *)
(* and list of headers below.                                              *)
(***************************************************************************)
EXTENDS RequestParser

H(n, spaced, lines) == [name |-> n, spaced |-> spaced, lines |-> lines]

\* A header in two lines, one without a space, and one with an empty value.
Folded == H("NAME", TRUE, << <<"w", "sp", "w">>, <<"%", "2", "1">> >>)
Cookie == H("cookie", FALSE, << <<"ticket", "=", "w">> >>)
Empty == H("name", TRUE, << <<>> >>)

LengthText(n) == IF n < 10 THEN <<ToString(n)>> ELSE <<ToString(n \div 10), ToString(n % 10)>>
Length(form) == H("length", FALSE, <<LengthText(Len(FormText(form)))>>)

\* No element, two, one more than the request keeps, and two more than CharMax.
Paths == {<<>>, << <<"w">>, <<"w", "e">> >>} \cup {[i \in 1..n |-> <<"w">>] : n \in {6, 9}}
Forms == {<<>>, << <<<<"w">>, <<"e", "=">>>>, <<<<"name">>, <<>>>> >>}

HeaderLists == {<<>>, <<Cookie>>, <<Empty, Folded>>, <<Cookie, Folded>>}

Get(p, q, hs) ==
    [method |-> "GET", path |-> p, query |-> q, headers |-> hs, form |-> <<>>]

\* The length comes before or after the other headers.
Posts(p, form, hs) ==
    {[method |-> "POST", path |-> p, query |-> <<>>, headers |-> l, form |-> form] :
        l \in {<<Length(form)>> \o hs, hs \o <<Length(form)>>}}

\* What the client's cookie says goes with the header that says it.
WithCookie(r) ==
    r @@ [cookie |-> IF Cookie \in Range(r.headers) THEN << <<<<"ticket">>, <<"w">>>> >> ELSE <<>>]

Sample ==
    {WithCookie(r) : r \in
        {Get(p, q, hs) : p \in Paths, q \in Forms, hs \in HeaderLists}
        \cup UNION {Posts(p, f, hs) : p \in Paths, f \in Forms, hs \in HeaderLists}}
==============================================================================
