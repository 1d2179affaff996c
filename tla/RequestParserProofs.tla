------------------------- MODULE RequestParserProofs -------------------------
(***************************************************************************)
(* Whatever arrives, a request that consume calls complete has the headers *)
(* that its text has, and ends where the text says (EndsWhereItSays).  And *)
(* what arrives as a browser wrote it is read as it was sent (ReadsAsSent).*)
(*                                                                         *)
(* For the first, the invariant IInv says, of each state of the parser,    *)
(* what the text it has read looks like: how it ends (Marks), that it      *)
(* starts with the method (MethodRead), that the request line is one line  *)
(* (LineRead), and that, once unfolded, it is lines that headers describes,*)
(* followed by what current_header_name and current_header_value hold      *)
(* (HeadersRead); while the body is read, that the head is over and how    *)
(* much of the body has come (BodyRead).  Appending a character to a text  *)
(* is what the lemmas before it are about, from IsAt to Unfolded, so that  *)
(* each action needs only the lemmas of the states it leaves and reaches.  *)
(*                                                                         *)
(* For the second, the invariant OnTheWay looks ahead: in each state, what *)
(* is left on the wire is what the request has still to say there (Ahead,  *)
(* which also says how much of it the parser has kept), or the rest of the *)
(* body.  That perform_final_decode undoes the writing is what the lemmas  *)
(* on Escaped, FormText and UriText are about: the folds that read pairs   *)
(* and elements, one symbol and then one pair or element at a time.        *)
(***************************************************************************)
EXTENDS RequestParser, NumberFacts, SequenceTheorems

------------------------------------------------------------------------------
(* Texts at an index.                                                      *)

EndsCrlf(t) == Len(t) >= 2 /\ t[Len(t) - 1] = "cr" /\ t[Len(t)] = "lf"

LEMMA OneAt ==
    ASSUME NEW t \in Seq(Chars), NEW i \in Nat \ {0}, NEW a
    PROVE  IsAt(t, i, <<a>>) <=> i <= Len(t) /\ t[i] = a
<1>1. IsAt(t, i, <<a>>) <=> i <= Len(t) /\ SubSeq(t, i, i) = <<a>>
    BY DEF IsAt
<1>2. ASSUME i <= Len(t)
      PROVE  /\ SubSeq(t, i, i) \in Seq(Chars)
             /\ Len(SubSeq(t, i, i)) = 1 /\ SubSeq(t, i, i)[1] = t[i]
    BY <1>2, SubSeqProperties
<1>3. ASSUME NEW s \in Seq(Chars), Len(s) = 1 PROVE s = <<s[1]>>
    BY <1>3
<1>4. ASSUME i <= Len(t) PROVE SubSeq(t, i, i) = <<a>> <=> t[i] = a
    BY <1>2, <1>3, <1>4
<1> QED BY <1>1, <1>4

LEMMA TwoAt ==
    ASSUME NEW t \in Seq(Chars), NEW i \in Nat \ {0}, NEW a, NEW b
    PROVE  IsAt(t, i, <<a, b>>) <=> i + 1 <= Len(t) /\ t[i] = a /\ t[i + 1] = b
<1>1. IsAt(t, i, <<a, b>>) <=> i + 1 <= Len(t) /\ SubSeq(t, i, i + 1) = <<a, b>>
    BY DEF IsAt
<1>2. ASSUME i + 1 <= Len(t)
      PROVE  /\ SubSeq(t, i, i + 1) \in Seq(Chars) /\ Len(SubSeq(t, i, i + 1)) = 2
             /\ SubSeq(t, i, i + 1)[1] = t[i] /\ SubSeq(t, i, i + 1)[2] = t[i + 1]
    <2>1. \A j \in i..(i + 1) : t[j] \in Chars
        BY <1>2
    <2> QED BY <1>2, <2>1, SubSeqProperties
<1>3. ASSUME NEW s \in Seq(Chars), Len(s) = 2 PROVE s = <<s[1], s[2]>>
    BY <1>3
<1>4. ASSUME i + 1 <= Len(t)
      PROVE  SubSeq(t, i, i + 1) = <<a, b>> <=> t[i] = a /\ t[i + 1] = b
    BY <1>2, <1>3, <1>4
<1> QED BY <1>1, <1>4

LEMMA CrlfAt ==
    ASSUME NEW t \in Seq(Chars), NEW i \in Nat \ {0}
    PROVE  IsAt(t, i, Crlf) <=> i + 1 <= Len(t) /\ t[i] = "cr" /\ t[i + 1] = "lf"
BY TwoAt DEF Crlf

LEMMA CrlfCrlfAt ==
    ASSUME NEW t \in Seq(Chars), NEW i \in Nat \ {0}
    PROVE  IsAt(t, i, Crlf \o Crlf) <=> /\ i + 3 <= Len(t) /\ t[i] = "cr" /\ t[i + 1] = "lf"
                                        /\ t[i + 2] = "cr" /\ t[i + 3] = "lf"
<1> DEFINE four == Crlf \o Crlf
           part == SubSeq(t, i, i + 3)
<1>1. four \in Seq(Chars) /\ Len(four) = 4
      /\ four[1] = "cr" /\ four[2] = "lf" /\ four[3] = "cr" /\ four[4] = "lf"
    BY DEF Crlf, Chars, Ctl
<1>2. IsAt(t, i, four) <=> i + 3 <= Len(t) /\ part = four
    <2> HIDE DEF four
    <2> QED BY <1>1 DEF IsAt
<1>3. ASSUME i + 3 <= Len(t)
      PROVE  /\ part \in Seq(Chars) /\ Len(part) = 4
             /\ part[1] = t[i] /\ part[2] = t[i + 1] /\ part[3] = t[i + 2] /\ part[4] = t[i + 3]
    <2>1. \A j \in i..(i + 3) : t[j] \in Chars
        BY <1>3
    <2> QED BY <1>3, <2>1, SubSeqProperties
<1>4. ASSUME i + 3 <= Len(t), part[1] = "cr", part[2] = "lf", part[3] = "cr", part[4] = "lf"
      PROVE  part = four
    <2> HIDE DEF four, part
    <2>1. \A j \in 1..4 : part[j] = four[j]
        <3>1. \A j \in 1..4 : j = 1 \/ j = 2 \/ j = 3 \/ j = 4
            OBVIOUS
        <3> QED BY <1>1, <1>4, <3>1
    <2> QED BY <1>1, <1>3, <1>4, <2>1, SeqEqual
<1> HIDE DEF four, part
<1>5. IsAt(t, i, four) <=> /\ i + 3 <= Len(t) /\ t[i] = "cr" /\ t[i + 1] = "lf"
                           /\ t[i + 2] = "cr" /\ t[i + 3] = "lf"
    BY <1>1, <1>2, <1>3, <1>4
<1> QED BY <1>5 DEF four

LEMMA AppendedText ==
    ASSUME NEW t \in Seq(Chars), NEW c \in Chars
    PROVE  /\ Append(t, c) \in Seq(Chars) /\ Len(Append(t, c)) = Len(t) + 1 /\ Len(t) \in Nat
           /\ \A i \in 1..Len(t) : Append(t, c)[i] = t[i]
           /\ Append(t, c)[Len(t) + 1] = c
BY AppendProperties, LenProperties

------------------------------------------------------------------------------
(* Folds, character by character.                                          *)

LEMMA FoldIndex ==
    ASSUME NEW t \in Seq(Chars), NEW i \in Nat
    PROVE  InFold(t, i) <=>
              \E j \in 1..i : /\ j + 2 <= Len(t) /\ t[j] = "cr" /\ t[j + 1] = "lf" /\ t[j + 2] \in Blanks
                              /\ \A k \in (j + 2)..i : t[k] \in Blanks
<1>1. Len(t) \in Nat
    BY LenProperties
<1>2. \A j \in 1..i : IsAt(t, j, Crlf) <=> j + 1 <= Len(t) /\ t[j] = "cr" /\ t[j + 1] = "lf"
    BY CrlfAt
<1> QED BY <1>1, <1>2 DEF InFold

LEMMA FoldAppend ==
    ASSUME NEW t \in Seq(Chars), NEW c \in Chars
    PROVE  LET u == Append(t, c)
               n == Len(t)
           IN  /\ ~(c \in Blanks /\ EndsCrlf(t)) => \A i \in 1..n : InFold(u, i) <=> InFold(t, i)
               /\ c \in Blanks /\ EndsCrlf(t) =>
                     /\ \A i \in 1..(n - 2) : InFold(u, i) <=> InFold(t, i)
                     /\ InFold(u, n - 1) /\ InFold(u, n)
                     /\ ~InFold(t, n - 1) /\ ~InFold(t, n)
               /\ InFold(u, n + 1) <=> c \in Blanks /\ (InFold(t, n) \/ EndsCrlf(t))
<1> DEFINE u == Append(t, c)
           n == Len(t)
           Fold(s, j, i) == /\ j + 2 <= Len(s) /\ s[j] = "cr" /\ s[j + 1] = "lf" /\ s[j + 2] \in Blanks
                            /\ \A k \in (j + 2)..i : s[k] \in Blanks
<1>1. /\ u \in Seq(Chars) /\ Len(u) = n + 1 /\ n \in Nat
      /\ \A i \in 1..n : u[i] = t[i]
      /\ u[n + 1] = c
    BY AppendedText
<1>2. "cr" \notin Blanks /\ "lf" \notin Blanks
    BY DEF Blanks
<1> HIDE DEF u, n
<1>3. \A i \in Nat : InFold(t, i) <=> \E j \in 1..i : Fold(t, j, i)
    <2> TAKE i \in Nat
    <2> QED BY FoldIndex
<1>4. \A i \in Nat : InFold(u, i) <=> \E j \in 1..i : Fold(u, j, i)
    <2> TAKE i \in Nat
    <2> QED BY <1>1, FoldIndex
<1>5. ASSUME NEW i \in 1..n, NEW j \in 1..i, Fold(t, j, i) PROVE Fold(u, j, i)
    BY <1>1, <1>5, SMTT(30) DEF n
<1>6. ASSUME NEW i \in 1..n, NEW j \in 1..i, Fold(u, j, i), j # n - 1 \/ ~(c \in Blanks /\ EndsCrlf(t))
      PROVE  Fold(t, j, i)
    <2>1. j + 2 <= n
        BY <1>1, <1>6 DEF n, EndsCrlf
    <2> QED BY <1>1, <1>6, <2>1, SMTT(30) DEF n
<1>7. ASSUME ~(c \in Blanks /\ EndsCrlf(t)), NEW i \in 1..n
      PROVE  InFold(u, i) <=> InFold(t, i)
    <2>1. i \in Nat
        BY <1>1
    <2> HIDE DEF Fold
    <2> QED BY <1>3, <1>4, <1>5, <1>6, <1>7, <2>1
<1>8. ASSUME c \in Blanks, EndsCrlf(t)
      PROVE  /\ \A i \in 1..(n - 2) : InFold(u, i) <=> InFold(t, i)
             /\ InFold(u, n - 1) /\ InFold(u, n)
             /\ ~InFold(t, n - 1) /\ ~InFold(t, n)
    <2>1. n - 1 \in Nat \ {0} /\ n \in Nat /\ t[n - 1] = "cr" /\ t[n] = "lf"
        BY <1>1, <1>8 DEF EndsCrlf, n
    <2>2. ASSUME NEW i \in 1..(n - 2) PROVE InFold(u, i) <=> InFold(t, i)
        <3>1. i \in 1..n /\ i \in Nat /\ \A j \in 1..i : j # n - 1
            BY <2>1
        <3> HIDE DEF Fold
        <3> QED BY <1>3, <1>4, <1>5, <1>6, <3>1
    <2>3. Fold(u, n - 1, n - 1) /\ Fold(u, n - 1, n)
        BY <1>1, <1>8, <2>1
    <2>4. InFold(u, n - 1) /\ InFold(u, n)
        <3>1. n - 1 \in 1..(n - 1) /\ n - 1 \in 1..n
            BY <2>1
        <3> HIDE DEF Fold
        <3> QED BY <1>4, <2>1, <2>3, <3>1
    <2>5. ASSUME NEW i \in {n - 1, n}, NEW j \in 1..i, Fold(t, j, i) PROVE FALSE
        <3>1. j + 2 <= n /\ t[j + 2] \in Blanks /\ j \in Nat
            BY <2>1, <2>5 DEF n
        <3>2. j + 2 # n
            BY <1>2, <2>1, <3>1
        <3>3. n - 1 \in (j + 2)..i
            BY <2>1, <3>1, <3>2
        <3> QED BY <1>2, <2>1, <2>5, <3>3
    <2>6. ~InFold(t, n - 1) /\ ~InFold(t, n)
        <3> HIDE DEF Fold
        <3> QED BY <1>3, <2>1, <2>5
    <2> QED BY <2>2, <2>4, <2>6
<1>9. InFold(u, n + 1) <=> c \in Blanks /\ (InFold(t, n) \/ EndsCrlf(t))
    <2>1. ASSUME NEW j \in 1..(n + 1), Fold(u, j, n + 1)
          PROVE  c \in Blanks /\ (InFold(t, n) \/ EndsCrlf(t))
        <3>1. j + 2 <= n + 1 /\ j \in 1..n
            BY <1>1, <2>1
        <3>2. c \in Blanks
            BY <1>1, <2>1, <3>1
        <3>3. CASE j = n - 1
            BY <1>1, <2>1, <3>2, <3>3 DEF EndsCrlf, n
        <3>4. CASE j # n - 1
            <4>1. n \in 1..n /\ Fold(u, j, n)
                BY <1>1, <2>1, <3>1
            <4>2. Fold(t, j, n)
                <5> HIDE DEF Fold
                <5> QED BY <1>6, <3>1, <3>4, <4>1
            <4> HIDE DEF Fold
            <4> QED BY <1>1, <1>3, <3>1, <3>2, <4>2
        <3> QED BY <3>3, <3>4
    <2>2. ASSUME c \in Blanks, EndsCrlf(t) PROVE InFold(u, n + 1)
        <3>1. n - 1 \in 1..(n + 1) /\ Fold(u, n - 1, n + 1)
            BY <1>1, <2>2 DEF EndsCrlf, n
        <3> HIDE DEF Fold
        <3> QED BY <1>1, <1>4, <3>1
    <2>3. ASSUME c \in Blanks, InFold(t, n) PROVE InFold(u, n + 1)
        <3>1. PICK j \in 1..n : Fold(t, j, n)
            <4> HIDE DEF Fold
            <4> QED BY <1>1, <1>3, <2>3
        <3>2. Fold(u, j, n + 1)
            BY <1>1, <2>3, <3>1, SMTT(30) DEF n
        <3>3. j \in 1..(n + 1)
            BY <1>1, <3>1
        <3> HIDE DEF Fold
        <3> QED BY <1>1, <1>4, <3>2, <3>3
    <2>4. InFold(u, n + 1) <=> \E j \in 1..(n + 1) : Fold(u, j, n + 1)
        <3> HIDE DEF Fold
        <3> QED BY <1>1, <1>4
    <2> HIDE DEF Fold
    <2> QED BY <2>1, <2>2, <2>3, <2>4
<1> QED BY <1>7, <1>8, <1>9 DEF u, n

------------------------------------------------------------------------------
(* Unfolding, character by character.                                      *)

\* What Unfolded keeps of the first characters of a text.
KeptOf(t) ==
    LET kept[n \in 0..Len(t)] == IF n = 0 THEN <<>>
                                 ELSE IF InFold(t, n) THEN kept[n - 1] ELSE Append(kept[n - 1], t[n])
    IN  kept

LEMMA KeptUnfolds ==
    ASSUME NEW t \in Seq(Chars)
    PROVE  /\ KeptOf(t) \in [0..Len(t) -> Seq(Chars)]
           /\ KeptOf(t)[0] = <<>>
           /\ \A n \in 1..Len(t) :
                 KeptOf(t)[n] = IF InFold(t, n) THEN KeptOf(t)[n - 1] ELSE Append(KeptOf(t)[n - 1], t[n])
           /\ Unfolded(t) = KeptOf(t)[Len(t)]
<1> DEFINE m == Len(t)
           X == Seq(Chars)
           Extended(n, s) == IF InFold(t, n) THEN s ELSE Append(s, t[n])
           step == [p \in (1..m) \X X |-> Extended(p[1], p[2])]
           Def(f) == f = [n \in 0..m |-> IF n = 0 THEN <<>> ELSE Extended(n, f[n - 1])]
<1>1. m \in Nat /\ <<>> \in X
    BY LenProperties
<1>2. step \in [(1..m) \X X -> X]
    <2>1. ASSUME NEW p \in (1..m) \X X PROVE Extended(p[1], p[2]) \in X
        <3>1. t[p[1]] \in Chars /\ p[2] \in Seq(Chars)
            BY LenProperties
        <3> QED BY <3>1, AppendProperties
    <2> QED BY <2>1
<1>3. PICK f \in [0..m -> X] : IsRecursive(f, <<>>, step, m)
    <2> HIDE DEF m, X, step
    <2> QED BY <1>1, <1>2, Recursion
<1>4. f[0] = <<>> /\ \A n \in 1..m : f[n] = Extended(n, f[n - 1])
    <2>1. ASSUME NEW n \in 1..m PROVE f[n] = Extended(n, f[n - 1])
        <3>1. n - 1 \in 0..m
            BY <1>1
        <3>2. f[n - 1] \in X
            <4> HIDE DEF X
            <4> QED BY <1>3, <3>1
        <3>3. <<n, f[n - 1]>> \in (1..m) \X X
            BY <3>2
        <3>4. f[n] = step[<<n, f[n - 1]>>]
            BY <1>3 DEF IsRecursive
        <3> HIDE DEF Extended
        <3> QED BY <3>3, <3>4
    <2> QED BY <1>3, <2>1 DEF IsRecursive
<1>5. Def(f)
    <2> HIDE DEF Extended, X, m
    <2>1. \A n \in 0..m : n = 0 \/ n \in 1..m
        BY <1>1
    <2> QED BY <1>3, <1>4, <2>1
<1> DEFINE k == KeptOf(t)
<1>6. k = CHOOSE g : Def(g)
    BY DEF KeptOf
<1>7. Def(k)
    <2> HIDE DEF Def, k
    <2> QED BY <1>5, <1>6
<1>8. k[0] = <<>> /\ \A n \in 1..m : k[n] = Extended(n, k[n - 1])
    <2> HIDE DEF Extended, k
    <2> QED BY <1>1, <1>7
<1>9. \A n \in Nat : n <= m => k[n] \in X
    <2> DEFINE Typed == {i \in Nat : i <= m => k[i] \in X}
    <2>1. 0 \in Typed
        BY <1>1, <1>8
    <2>2. ASSUME NEW n \in Nat, n \in Typed PROVE n + 1 \in Typed
        <3>1. SUFFICES ASSUME n + 1 <= m PROVE k[n + 1] \in X
            OBVIOUS
        <3>2. k[n] \in X /\ t[n + 1] \in Chars
            BY <1>1, <2>2, <3>1, LenProperties
        <3>3. k[n + 1] = Extended(n + 1, k[n])
            <4>1. n + 1 \in 1..m /\ (n + 1) - 1 = n
                BY <1>1, <3>1
            <4> HIDE DEF k, Extended
            <4> QED BY <1>8, <4>1
        <3> HIDE DEF k
        <3> QED BY <3>2, <3>3, AppendProperties
    <2>3. \A n \in Nat : n \in Typed
        <3> HIDE DEF Typed
        <3> QED BY <2>1, <2>2, InductiveSet
    <2> QED BY <2>3
<1>10. k \in [0..m -> X]
    <2> HIDE DEF X, Extended, k
    <2>1. \A n \in 0..m : k[n] \in X
        BY <1>1, <1>9
    <2> QED BY <1>7, <2>1
<1>11. Unfolded(t) = k[m]
    BY DEF Unfolded, KeptOf
<1> QED BY <1>8, <1>10, <1>11

LEMMA UnfoldedText ==
    ASSUME NEW t \in Seq(Chars) PROVE Unfolded(t) \in Seq(Chars)
BY KeptUnfolds, LenProperties

LEMMA KeptAgree ==
    ASSUME NEW t \in Seq(Chars), NEW u \in Seq(Chars), NEW m \in Nat, m <= Len(t), m <= Len(u),
           \A i \in 1..m : t[i] = u[i] /\ (InFold(t, i) <=> InFold(u, i))
    PROVE  KeptOf(t)[m] = KeptOf(u)[m]
<1> DEFINE Same == {n \in Nat : n <= m => KeptOf(t)[n] = KeptOf(u)[n]}
<1>1. 0 \in Same
    BY KeptUnfolds
<1>2. ASSUME NEW n \in Nat, n \in Same PROVE n + 1 \in Same
    <2>1. SUFFICES ASSUME n + 1 <= m PROVE KeptOf(t)[n + 1] = KeptOf(u)[n + 1]
        OBVIOUS
    <2>2. n + 1 \in 1..Len(t) /\ n + 1 \in 1..Len(u) /\ n + 1 \in 1..m /\ (n + 1) - 1 = n
        BY <2>1, LenProperties
    <2>3. KeptOf(t)[n] = KeptOf(u)[n]
        BY <1>2, <2>1
    <2>4. KeptOf(t)[n + 1] = IF InFold(t, n + 1) THEN KeptOf(t)[n] ELSE Append(KeptOf(t)[n], t[n + 1])
        BY <2>2, KeptUnfolds
    <2>5. KeptOf(u)[n + 1] = IF InFold(u, n + 1) THEN KeptOf(u)[n] ELSE Append(KeptOf(u)[n], u[n + 1])
        BY <2>2, KeptUnfolds
    <2> QED BY <2>2, <2>3, <2>4, <2>5
<1>3. m \in Same
    <2> HIDE DEF Same
    <2> QED BY <1>1, <1>2, InductiveSet
<1> QED BY <1>3

LEMMA UnfoldAppend ==
    ASSUME NEW t \in Seq(Chars), NEW c \in Chars
    PROVE  LET u == Append(t, c)
           IN  /\ c \notin Blanks \/ ~(EndsCrlf(t) \/ InFold(t, Len(t)))
                     => Unfolded(u) = Append(Unfolded(t), c)
               /\ c \in Blanks /\ ~EndsCrlf(t) /\ InFold(t, Len(t)) => Unfolded(u) = Unfolded(t)
               /\ c \in Blanks /\ EndsCrlf(t) =>
                     Unfolded(u) \in Seq(Chars) /\ Unfolded(t) = Unfolded(u) \o Crlf
<1> DEFINE u == Append(t, c)
           n == Len(t)
<1>1. /\ u \in Seq(Chars) /\ Len(u) = n + 1 /\ n \in Nat
      /\ \A i \in 1..n : u[i] = t[i]
      /\ u[n + 1] = c
    BY AppendedText
<1>2. /\ ~(c \in Blanks /\ EndsCrlf(t)) => \A i \in 1..n : InFold(u, i) <=> InFold(t, i)
      /\ c \in Blanks /\ EndsCrlf(t) =>
            /\ \A i \in 1..(n - 2) : InFold(u, i) <=> InFold(t, i)
            /\ InFold(u, n - 1) /\ InFold(u, n)
            /\ ~InFold(t, n - 1) /\ ~InFold(t, n)
      /\ InFold(u, n + 1) <=> c \in Blanks /\ (InFold(t, n) \/ EndsCrlf(t))
    BY FoldAppend
<1> HIDE DEF u
<1>3. KeptOf(u)[n + 1] = IF InFold(u, n + 1) THEN KeptOf(u)[n] ELSE Append(KeptOf(u)[n], c)
    <2>1. n + 1 \in 1..Len(u) /\ (n + 1) - 1 = n
        BY <1>1
    <2> QED BY <1>1, <2>1, KeptUnfolds
<1>4. Unfolded(u) = KeptOf(u)[n + 1] /\ Unfolded(t) = KeptOf(t)[n]
    BY <1>1, KeptUnfolds
<1>5. ASSUME ~(c \in Blanks /\ EndsCrlf(t)) PROVE KeptOf(u)[n] = KeptOf(t)[n]
    <2>1. n <= Len(t) /\ n <= Len(u)
        BY <1>1
    <2>2. \A i \in 1..n : t[i] = u[i] /\ (InFold(t, i) <=> InFold(u, i))
        BY <1>1, <1>2, <1>5
    <2> QED BY <1>1, <2>1, <2>2, KeptAgree
<1>6. ASSUME c \in Blanks, EndsCrlf(t)
      PROVE  Unfolded(u) \in Seq(Chars) /\ Unfolded(t) = Unfolded(u) \o Crlf
    <2> DEFINE w == KeptOf(t)[n - 2]
    <2>1. n - 2 \in Nat /\ n - 1 \in 1..n /\ n \in 1..n /\ t[n - 1] = "cr" /\ t[n] = "lf"
        BY <1>1, <1>6 DEF EndsCrlf
    <2>2. KeptOf(u)[n - 2] = w
        <3>1. n - 2 <= Len(t) /\ n - 2 <= Len(u)
            BY <1>1
        <3>2. \A i \in 1..(n - 2) : t[i] = u[i] /\ (InFold(t, i) <=> InFold(u, i))
            BY <1>1, <1>2, <1>6
        <3> QED BY <1>1, <2>1, <3>1, <3>2, KeptAgree
    <2>3. KeptOf(u)[n - 1] = w
        <3>1. n - 1 \in 1..Len(u) /\ (n - 1) - 1 = n - 2
            BY <1>1, <2>1
        <3> QED BY <1>1, <1>2, <1>6, <2>2, <3>1, KeptUnfolds
    <2>4. KeptOf(u)[n] = w
        <3>1. n \in 1..Len(u)
            BY <1>1, <2>1
        <3> QED BY <1>1, <1>2, <1>6, <2>3, <3>1, KeptUnfolds
    <2>5. Unfolded(u) = w
        BY <1>2, <1>3, <1>4, <1>6, <2>4
    <2>6. KeptOf(t)[n - 1] = Append(w, "cr")
        <3>1. n - 1 \in 1..Len(t) /\ (n - 1) - 1 = n - 2
            BY <2>1
        <3> QED BY <1>2, <1>6, <2>1, <3>1, KeptUnfolds
    <2>7. KeptOf(t)[n] = Append(Append(w, "cr"), "lf")
        BY <1>2, <1>6, <2>1, <2>6, KeptUnfolds
    <2>8. w \in Seq(Chars)
        <3>1. n - 2 \in 0..Len(t)
            BY <1>1, <2>1
        <3> QED BY <3>1, KeptUnfolds
    <2>9. Append(Append(w, "cr"), "lf") = w \o Crlf
        <3> HIDE DEF w
        <3>1. "cr" \in Chars /\ "lf" \in Chars
            BY DEF Chars, Ctl
        <3> QED BY <2>8, <3>1 DEF Crlf
    <2> QED BY <1>4, <2>5, <2>7, <2>8, <2>9
<1>7. ASSUME c \notin Blanks \/ ~(EndsCrlf(t) \/ InFold(t, n))
      PROVE  Unfolded(u) = Append(Unfolded(t), c)
    BY <1>2, <1>3, <1>4, <1>5, <1>7
<1>8. ASSUME c \in Blanks, ~EndsCrlf(t), InFold(t, n) PROVE Unfolded(u) = Unfolded(t)
    BY <1>2, <1>3, <1>4, <1>5, <1>8
<1> QED BY <1>6, <1>7, <1>8 DEF u

------------------------------------------------------------------------------
(* Texts of whole lines.                                                   *)

\* Where a line starts that is not the first and not empty.
Starts(t) == {i \in 3..Len(t) : IsAt(t, i - 2, Crlf)}

\* The headers of a text of whole lines, the last of a name counting.
Describes(X, hs) ==
    /\ EndsCrlf(X)
    /\ DOMAIN hs = {NameIn(LineAt(X, i)) : i \in Starts(X)}
    /\ \A n \in DOMAIN hs : \E i \in Starts(X) :
          /\ NameIn(LineAt(X, i)) = n /\ hs[n] = ValueIn(LineAt(X, i))
          /\ \A k \in Starts(X) : NameIn(LineAt(X, k)) = n => k <= i

\* The line of a header whose name and value have been read.  The character after
\* the colon may be any.
IsLine(l, n, v) ==
    /\ n \in Seq(Token) /\ n # <<>>
    /\ \E rest \in Seq(Chars) : /\ rest # <<>> /\ l = (n \o <<":">>) \o rest
                                /\ \A i \in 2..Len(rest) : rest[i] \notin Ctl
                                /\ v = IF rest[1] = "sp" THEN Tail(rest) ELSE rest

LEMMA TokenFacts ==
    /\ Token \subseteq Chars
    /\ \A c \in Token : c \notin Blanks /\ c \notin Ctl /\ c # ":" /\ c # "cr" /\ c # "lf" /\ c # "sp"
    /\ "cr" \in Chars /\ "lf" \in Chars /\ ":" \in Chars /\ "sp" \in Chars
    /\ "cr" \notin Blanks /\ "lf" \notin Blanks /\ ":" \notin Blanks
    /\ Crlf \in Seq(Chars) /\ Len(Crlf) = 2 /\ Crlf[1] = "cr" /\ Crlf[2] = "lf"
BY DEF Token, Chars, Ctl, Blanks, Digits, Words, Crlf

LEMMA MinIs ==
    ASSUME NEW S \in SUBSET Nat, NEW m \in S, \A k \in S : m <= k
    PROVE  Min(S) = m
<1>1. \A x \in S : (\A y \in S : x <= y) => x = m
    OBVIOUS
<1> QED BY <1>1 DEF Min

LEMMA OldLines ==
    ASSUME NEW X \in Seq(Chars), NEW Z \in Seq(Chars), EndsCrlf(X)
    PROVE  /\ \A i \in 3..Len(X) : IsAt(X \o Z, i - 2, Crlf) <=> i \in Starts(X)
           /\ \A i \in Starts(X) : LineAt(X \o Z, i) = LineAt(X, i)
<1> DEFINE Y == X \o Z
<1>1. /\ Y \in Seq(Chars) /\ Len(Y) = Len(X) + Len(Z) /\ Len(X) \in Nat /\ Len(Z) \in Nat
      /\ \A i \in 1..Len(X) : Y[i] = X[i]
    <2>1. Len(X) \in Nat /\ Len(Z) \in Nat
        BY LenProperties
    <2> QED BY <2>1, ConcatProperties
<1> HIDE DEF Y
<1>2. \A i \in 1..(Len(X) - 1) : IsAt(Y, i, Crlf) <=> IsAt(X, i, Crlf)
    <2> TAKE i \in 1..(Len(X) - 1)
    <2>1. i \in Nat \ {0} /\ i \in 1..Len(X) /\ i + 1 \in 1..Len(X)
        BY <1>1
    <2>2. IsAt(Y, i, Crlf) <=> i + 1 <= Len(Y) /\ Y[i] = "cr" /\ Y[i + 1] = "lf"
        BY <1>1, <2>1, CrlfAt
    <2>3. IsAt(X, i, Crlf) <=> i + 1 <= Len(X) /\ X[i] = "cr" /\ X[i + 1] = "lf"
        BY <2>1, CrlfAt
    <2> QED BY <1>1, <2>1, <2>2, <2>3
<1>3. ASSUME NEW i \in 3..Len(X) PROVE IsAt(Y, i - 2, Crlf) <=> i \in Starts(X)
    <2>1. i - 2 \in 1..(Len(X) - 1)
        BY <1>1
    <2> QED BY <1>2, <2>1 DEF Starts
<1>4. ASSUME NEW i \in Starts(X) PROVE LineAt(Y, i) = LineAt(X, i)
    <2> DEFINE SX == {j \in i..Len(X) : IsAt(X, j, Crlf)}
               SY == {j \in i..Len(Y) : IsAt(Y, j, Crlf)}
    <2>1. i \in 3..Len(X) /\ X[i - 1] = "lf" /\ i - 1 # Len(X) - 1
        <3>1. i \in 3..Len(X) /\ IsAt(X, i - 2, Crlf) /\ i - 2 \in Nat \ {0}
            BY <1>1 DEF Starts
        <3>2. X[(i - 2) + 1] = "lf"
            BY <3>1, CrlfAt
        <3>3. (i - 2) + 1 = i - 1
            BY <1>1, <3>1
        <3> QED BY <3>1, <3>2, <3>3 DEF EndsCrlf
    <2>2. Len(X) - 1 \in SX
        <3>1. Len(X) - 1 \in Nat \ {0} /\ Len(X) - 1 \in i..Len(X)
            BY <1>1, <2>1
        <3>2. IsAt(X, Len(X) - 1, Crlf)
            BY <1>1, <3>1, CrlfAt DEF EndsCrlf
        <3> QED BY <3>1, <3>2
    <2>3. SX \in SUBSET Nat /\ SY \in SUBSET Nat
        BY <1>1, <2>1
    <2>4. PICK m \in SX : \A k \in SX : m <= k
        <3> HIDE DEF SX
        <3> QED BY <2>2, <2>3, LeastOfNaturals
    <2>5. m \in i..Len(X) /\ IsAt(X, m, Crlf) /\ m \in 1..(Len(X) - 1)
        <3>1. m \in Nat \ {0}
            BY <1>1, <2>1
        <3>2. m + 1 <= Len(X)
            BY <3>1, CrlfAt
        <3> QED BY <1>1, <3>1, <3>2
    <2>6. m \in SY
        BY <1>1, <1>2, <2>1, <2>5
    <2>7. \A k \in SY : m <= k
        <3>1. SUFFICES ASSUME NEW k \in SY, k < m PROVE FALSE
            BY <2>3, <2>5
        <3>2. k \in 1..(Len(X) - 1) /\ k \in i..Len(X)
            BY <1>1, <2>1, <2>5, <3>1
        <3>3. k \in SX
            BY <1>2, <3>2
        <3>4. m <= k
            <4> HIDE DEF SX
            <4> QED BY <2>4, <3>3
        <3> QED BY <2>5, <3>1, <3>2, <3>4
    <2>8. Min(SX) = m /\ Min(SY) = m
        <3> HIDE DEF SX, SY
        <3> QED BY <2>3, <2>4, <2>6, <2>7, MinIs
    <2>9. SubSeq(Y, i, m - 1) = SubSeq(X, i, m - 1)
        <3>1. i \in 1..Len(X) /\ m - 1 \in 1..Len(X)
            BY <1>1, <2>1, <2>5
        <3> QED BY <3>1, SubSeqOfConcat1 DEF Y
    <2> QED BY <2>8, <2>9 DEF LineAt
<1> QED BY <1>3, <1>4 DEF Y

LEMMA LineAdded ==
    ASSUME NEW X \in Seq(Chars), NEW l \in Seq(Chars)
    PROVE  LET Y == (X \o l) \o Crlf
               n == Len(X) + Len(l)
           IN  /\ Y \in Seq(Chars) /\ Y = X \o (l \o Crlf) /\ l \o Crlf \in Seq(Chars)
               /\ Len(X) \in Nat /\ Len(l) \in Nat /\ Len(Y) = n + 2 /\ EndsCrlf(Y)
               /\ \A i \in 1..Len(X) : Y[i] = X[i]
               /\ \A i \in 1..Len(l) : Y[Len(X) + i] = l[i]
               /\ Y[n + 1] = "cr" /\ Y[n + 2] = "lf"
<1> DEFINE Z == X \o l
           Y == Z \o Crlf
           n == Len(X) + Len(l)
<1>1. Len(X) \in Nat /\ Len(l) \in Nat
    BY LenProperties
<1>2. Crlf \in Seq(Chars) /\ Len(Crlf) = 2 /\ Crlf[1] = "cr" /\ Crlf[2] = "lf"
    BY TokenFacts
<1>3. /\ Z \in Seq(Chars) /\ Len(Z) = n
      /\ \A i \in 1..n : Z[i] = IF i <= Len(X) THEN X[i] ELSE l[i - Len(X)]
    BY <1>1, ConcatProperties
<1>4. /\ Y \in Seq(Chars) /\ Len(Y) = n + 2
      /\ \A i \in 1..(n + 2) : Y[i] = IF i <= n THEN Z[i] ELSE Crlf[i - n]
    <2> HIDE DEF Z
    <2>1. /\ Z \o Crlf \in Seq(Chars) /\ Len(Z \o Crlf) = Len(Z) + Len(Crlf)
          /\ \A i \in 1..(Len(Z) + Len(Crlf)) :
                (Z \o Crlf)[i] = IF i <= Len(Z) THEN Z[i] ELSE Crlf[i - Len(Z)]
        <3>1. Len(Z) \in Nat /\ Len(Crlf) \in Nat
            BY <1>1, <1>2, <1>3
        <3> HIDE DEF n
        <3> QED BY <1>2, <1>3, <3>1, ConcatProperties
    <2>2. Len(Z) = n /\ Len(Crlf) = 2
        BY <1>2, <1>3
    <2> HIDE DEF n
    <2> QED BY <2>1, <2>2
<1>5. Y = X \o (l \o Crlf) /\ l \o Crlf \in Seq(Chars)
    <2>1. Crlf \in Seq(Chars) /\ l \in Seq(Chars)
        BY <1>2, TokenFacts
    <2>2. l \o Crlf \in Seq(Chars)
        BY <2>1, ConcatProperties
    <2>3. (X \o l) \o Crlf = X \o (l \o Crlf)
        BY <2>1, ConcatAssociative
    <2> QED BY <2>2, <2>3
<1> HIDE DEF Y, Z
<1>6. \A i \in 1..Len(X) : Y[i] = X[i]
    BY <1>1, <1>3, <1>4
<1>7. \A i \in 1..Len(l) : Y[Len(X) + i] = l[i]
    <2> TAKE i \in 1..Len(l)
    <2>1. Len(X) + i \in 1..n /\ ~(Len(X) + i <= Len(X)) /\ (Len(X) + i) - Len(X) = i
        BY <1>1
    <2> QED BY <1>1, <1>3, <1>4, <2>1
<1>8. Y[n + 1] = "cr" /\ Y[n + 2] = "lf"
    <2>1. (n + 1) - n = 1 /\ (n + 2) - n = 2 /\ n + 1 \in 1..(n + 2) /\ n + 2 \in 1..(n + 2)
          /\ ~(n + 1 <= n) /\ ~(n + 2 <= n)
        BY <1>1
    <2> HIDE DEF n
    <2> QED BY <1>2, <1>4, <2>1
<1>9. EndsCrlf(Y)
    <2>1. Len(Y) - 1 = n + 1 /\ Len(Y) >= 2
        BY <1>1, <1>4
    <2> HIDE DEF n
    <2> QED BY <1>4, <1>8, <2>1 DEF EndsCrlf
<1> QED BY <1>1, <1>4, <1>5, <1>6, <1>7, <1>8, <1>9 DEF Y, Z

\* A header's line, and the line end after it, make one line more.
LEMMA NewLine ==
    ASSUME NEW X \in Seq(Chars), NEW l \in Seq(Chars), EndsCrlf(X), l # <<>>,
           \A i \in 1..(Len(l) - 1) : ~(l[i] = "cr" /\ l[i + 1] = "lf")
    PROVE  LET Y == (X \o l) \o Crlf
           IN  /\ Starts(Y) = Starts(X) \cup {Len(X) + 1}
               /\ LineAt(Y, Len(X) + 1) = l
               /\ \A i \in Starts(X) : LineAt(Y, i) = LineAt(X, i) /\ i < Len(X) + 1
<1> DEFINE Y == (X \o l) \o Crlf
           Z == l \o Crlf
           n == Len(X) + Len(l)
<1>1. /\ Y \in Seq(Chars) /\ Y = X \o Z /\ Z \in Seq(Chars)
      /\ Len(X) \in Nat /\ Len(l) \in Nat /\ Len(Y) = n + 2
      /\ \A i \in 1..Len(X) : Y[i] = X[i]
      /\ \A i \in 1..Len(l) : Y[Len(X) + i] = l[i]
      /\ Y[n + 1] = "cr" /\ Y[n + 2] = "lf"
    BY LineAdded
<1>2. Len(l) >= 1 /\ n + 1 \in Nat \ {0}
    BY <1>1, EmptySeq
<1> HIDE DEF Y, Z
<1>a. Y \in Seq(Chars)
    BY <1>1
<1>b. Len(X) \in Nat /\ Len(l) \in Nat /\ n \in Nat /\ Len(Y) = n + 2 /\ n = Len(X) + Len(l)
    BY <1>1
<1>3. /\ \A i \in 3..Len(X) : IsAt(Y, i - 2, Crlf) <=> i \in Starts(X)
      /\ \A i \in Starts(X) : LineAt(Y, i) = LineAt(X, i)
    BY <1>1, OldLines
<1>4. ASSUME NEW j \in Nat, j >= Len(X), IsAt(Y, j, Crlf) PROVE j = n + 1
    <2>1. j \in Nat \ {0}
        BY <1>4 DEF EndsCrlf
    <2>2. j + 1 <= n + 2 /\ Y[j] = "cr" /\ Y[j + 1] = "lf"
        <3>1. j + 1 <= Len(Y) /\ Y[j] = "cr" /\ Y[j + 1] = "lf"
            BY <1>a, <1>4, <2>1, CrlfAt
        <3> QED BY <1>1, <3>1
    <2>3. j # Len(X)
        BY <1>1, <2>2 DEF EndsCrlf
    <2>4. ASSUME j < n PROVE FALSE
        <3> DEFINE i == j - Len(X)
        <3>1. i \in 1..(Len(l) - 1) /\ i \in 1..Len(l) /\ i + 1 \in 1..Len(l)
              /\ Len(X) + i = j /\ Len(X) + (i + 1) = j + 1
            BY <1>1, <1>4, <2>3, <2>4
        <3>2. l[i] = Y[j] /\ l[i + 1] = Y[j + 1]
            <4> HIDE DEF i, n
            <4> QED BY <1>1, <3>1
        <3> QED BY <2>2, <3>1, <3>2
    <2>5. j # n
        BY <1>1, <2>2
    <2>6. j + 1 <= n + 2 /\ ~(j < n)
        BY <2>2, <2>4
    <2> HIDE DEF n
    <2> QED BY <1>b, <1>4, <2>5, <2>6, SMTT(30)
<1>5. IsAt(Y, n + 1, Crlf)
    <2>1. (n + 1) + 1 <= Len(Y) /\ Y[n + 1] = "cr" /\ Y[(n + 1) + 1] = "lf"
        <3>1. (n + 1) + 1 = n + 2
            BY <1>1
        <3> HIDE DEF n
        <3> QED BY <1>1, <1>2, <3>1
    <2> HIDE DEF n
    <2> QED BY <1>2, <1>a, <2>1, CrlfAt
<1>6. Len(X) >= 2 /\ IsAt(Y, Len(X) - 1, Crlf)
    <2>1. Len(X) - 1 \in Nat \ {0} /\ (Len(X) - 1) + 1 = Len(X)
          /\ Len(X) - 1 \in 1..Len(X) /\ Len(X) \in 1..Len(X)
        BY <1>1 DEF EndsCrlf
    <2>2. Y[Len(X) - 1] = "cr" /\ Y[Len(X)] = "lf" /\ Len(X) <= Len(Y)
        BY <1>1, <2>1 DEF EndsCrlf
    <2>3. IsAt(Y, Len(X) - 1, Crlf)
        BY <1>a, <2>1, <2>2, CrlfAt
    <2> QED BY <2>3 DEF EndsCrlf
<1>7. Starts(Y) = Starts(X) \cup {Len(X) + 1}
    <2>1. ASSUME NEW i \in Starts(Y) PROVE i \in Starts(X) \cup {Len(X) + 1}
        <3>1. i \in 3..(n + 2) /\ IsAt(Y, i - 2, Crlf)
            BY <1>1 DEF Starts
        <3>2. CASE i <= Len(X)
            <4>1. i \in 3..Len(X)
                BY <1>b, <3>1, <3>2
            <4> QED BY <1>3, <3>1, <4>1
        <3>3. CASE i > Len(X) + 1
            <4>1. i - 2 \in Nat /\ i - 2 >= Len(X)
                BY <1>1, <3>1, <3>3
            <4>2. i - 2 = n + 1
                BY <1>4, <3>1, <4>1
            <4> QED BY <1>b, <3>1, <4>2
        <3>4. i <= Len(X) \/ i = Len(X) + 1 \/ i > Len(X) + 1
            BY <1>b, <3>1
        <3> QED BY <3>2, <3>3, <3>4
    <2>2. Len(X) + 1 \in Starts(Y)
        <3>1. Len(X) + 1 \in 3..Len(Y) /\ (Len(X) + 1) - 2 = Len(X) - 1
            BY <1>1, <1>2, <1>6
        <3> QED BY <1>6, <3>1 DEF Starts
    <2>3. ASSUME NEW i \in Starts(X) PROVE i \in Starts(Y)
        <3>1. i \in 3..Len(X)
            BY DEF Starts
        <3> QED BY <1>1, <1>3, <3>1 DEF Starts
    <2> QED BY <2>1, <2>2, <2>3
<1>8. LineAt(Y, Len(X) + 1) = l
    <2> DEFINE S == {j \in (Len(X) + 1)..Len(Y) : IsAt(Y, j, Crlf)}
    <2>1. S \in SUBSET Nat /\ n + 1 \in S
        BY <1>1, <1>2, <1>5
    <2>2. \A k \in S : n + 1 <= k
        <3> TAKE k \in S
        <3>1. k \in Nat /\ k >= Len(X) /\ IsAt(Y, k, Crlf)
            BY <1>b
        <3>2. k = n + 1
            <4> HIDE DEF S, n
            <4> QED BY <1>4, <3>1
        <3> QED BY <1>b, <3>2
    <2>3. Min(S) = n + 1
        <3> HIDE DEF S, n
        <3> QED BY <2>1, <2>2, MinIs
    <2>4. LineAt(Y, Len(X) + 1) = SubSeq(Y, Len(X) + 1, n)
        <3>1. (n + 1) - 1 = n
            BY <1>1
        <3> QED BY <2>3, <3>1 DEF LineAt
    <2>5. /\ SubSeq(Y, Len(X) + 1, n) \in Seq(Chars)
          /\ Len(SubSeq(Y, Len(X) + 1, n)) = Len(l)
          /\ \A i \in 1..Len(l) : SubSeq(Y, Len(X) + 1, n)[i] = Y[Len(X) + i]
        <3>1. \A i \in (Len(X) + 1)..n : Y[i] \in Chars
            BY <1>1
        <3>2. Len(X) + 1 \in Int /\ n \in Int /\ n - (Len(X) + 1) + 1 = Len(l) /\ Len(X) + 1 <= n
            BY <1>1, <1>2
        <3>3. \A i \in 1..Len(l) : (Len(X) + 1) + i - 1 = Len(X) + i
            BY <1>1
        <3>4. /\ SubSeq(Y, Len(X) + 1, n) \in Seq(Chars)
              /\ Len(SubSeq(Y, Len(X) + 1, n)) = n - (Len(X) + 1) + 1
              /\ \A i \in 1..(n - (Len(X) + 1) + 1) :
                    SubSeq(Y, Len(X) + 1, n)[i] = Y[(Len(X) + 1) + i - 1]
            <4> HIDE DEF n
            <4> QED BY <3>1, <3>2, SubSeqProperties
        <3> HIDE DEF n
        <3> QED BY <3>2, <3>3, <3>4
    <2>6. SubSeq(Y, Len(X) + 1, n) = l
        <3> DEFINE part == SubSeq(Y, Len(X) + 1, n)
        <3>1. \A i \in 1..Len(part) : part[i] = l[i]
            BY <1>1, <2>5
        <3> HIDE DEF part
        <3>2. part \in Seq(Chars) /\ Len(part) = Len(l)
            BY <2>5 DEF part
        <3>3. part = l
            BY <3>1, <3>2, SeqEqual
        <3> QED BY <3>3 DEF part
    <2> QED BY <2>4, <2>6
<1>9. \A i \in Starts(X) : i < Len(X) + 1
    BY <1>1 DEF Starts
<1> QED BY <1>3, <1>7, <1>8, <1>9 DEF Y

LEMMA LineParts ==
    ASSUME NEW l, NEW n, NEW v, IsLine(l, n, v)
    PROVE  /\ l \in Seq(Chars) /\ l # <<>>
           /\ \A i \in 1..(Len(l) - 1) : ~(l[i] = "cr" /\ l[i + 1] = "lf")
           /\ NameIn(l) = Upper(Decode(n)) /\ ValueIn(l) = Decode(v)
<1>1. PICK rest \in Seq(Chars) : /\ rest # <<>> /\ l = (n \o <<":">>) \o rest
                                 /\ \A i \in 2..Len(rest) : rest[i] \notin Ctl
                                 /\ v = IF rest[1] = "sp" THEN Tail(rest) ELSE rest
    BY DEF IsLine
<1> DEFINE a == n \o <<":">>
           k == Len(n)
<1>2. n \in Seq(Chars) /\ n \in Seq(Token) /\ k \in Nat /\ k >= 1 /\ Len(rest) \in Nat /\ Len(rest) >= 1
    <2>1. n \in Seq(Token) /\ n # <<>>
        BY DEF IsLine
    <2>2. n \in Seq(Chars)
        BY <2>1, TokenFacts, SeqMonotonic
    <2> QED BY <1>1, <2>1, <2>2, EmptySeq
<1>3. /\ a \in Seq(Chars) /\ Len(a) = k + 1 /\ a[k + 1] = ":"
      /\ \A i \in 1..k : a[i] = n[i]
    <2>1. <<":">> \in Seq(Chars) /\ Len(<<":">>) = 1 /\ ":" \in Chars
        BY TokenFacts
    <2> QED BY <1>2, <2>1, ConcatProperties
<1> HIDE DEF a
<1>4. l = a \o rest
    BY <1>1 DEF a
<1>5. /\ l \in Seq(Chars) /\ Len(l) = k + 1 + Len(rest)
      /\ \A i \in 1..(k + 1) : l[i] = a[i]
      /\ \A i \in 1..Len(rest) : l[k + 1 + i] = rest[i]
    <2>1. /\ l \in Seq(Chars) /\ Len(l) = Len(a) + Len(rest)
          /\ \A i \in 1..(Len(a) + Len(rest)) : l[i] = IF i <= Len(a) THEN a[i] ELSE rest[i - Len(a)]
        BY <1>2, <1>3, <1>4, ConcatProperties
    <2>2. \A i \in 1..(k + 1) : l[i] = a[i]
        BY <1>2, <1>3, <2>1
    <2>3. \A i \in 1..Len(rest) : l[k + 1 + i] = rest[i]
        <3> TAKE i \in 1..Len(rest)
        <3>1. k + 1 + i \in 1..(Len(a) + Len(rest)) /\ ~(k + 1 + i <= Len(a)) /\ k + 1 + i - Len(a) = i
            BY <1>2, <1>3
        <3> QED BY <2>1, <3>1
    <2> QED BY <1>3, <2>1, <2>2, <2>3
<1>6. \A i \in 1..k : l[i] \in Token
    <2> TAKE i \in 1..k
    <2>1. l[i] = n[i]
        BY <1>2, <1>3, <1>5
    <2> QED BY <1>2, <2>1, ElementOfSeq
<1>7. l[k + 1] = ":"
    BY <1>2, <1>3, <1>5
<1> HIDE DEF k
<1>8. ASSUME NEW i \in 1..(Len(l) - 1), l[i] = "cr", l[i + 1] = "lf" PROVE FALSE
    <2>1. ~(i <= k)
        BY <1>2, <1>6, <1>8, TokenFacts
    <2>2. i # k + 1
        BY <1>7, <1>8
    <2> DEFINE j == i - k
    <2>3. j \in 2..Len(rest) /\ k + 1 + j = i + 1
        BY <1>2, <1>5, <2>1, <2>2
    <2>4. rest[j] = "lf"
        <3>1. j \in 1..Len(rest)
            BY <2>3
        <3> HIDE DEF j
        <3> QED BY <1>5, <1>8, <2>3, <3>1
    <2> QED BY <1>1, <2>3, <2>4 DEF Ctl
<1>9. Min({j \in DOMAIN l : l[j] = ":"}) = k + 1
    <2> DEFINE S == {j \in DOMAIN l : l[j] = ":"}
    <2>1. DOMAIN l = 1..Len(l)
        BY <1>5, LenProperties
    <2>2. S \in SUBSET Nat /\ k + 1 \in S
        BY <1>2, <1>5, <1>7, <2>1
    <2>3. \A j \in S : k + 1 <= j
        BY <1>2, <1>5, <1>6, <2>1, TokenFacts
    <2> HIDE DEF S
    <2>4. Min(S) = k + 1
        BY <2>2, <2>3, MinIs
    <2> QED BY <2>4 DEF S
<1>10. NameIn(l) = Upper(Decode(n))
    <2>1. l = n \o (<<":">> \o rest) /\ <<":">> \o rest \in Seq(Chars)
        <3>1. <<":">> \in Seq(Chars)
            BY TokenFacts
        <3>2. <<":">> \o rest \in Seq(Chars)
            BY <1>1, <3>1, ConcatProperties
        <3>3. (n \o <<":">>) \o rest = n \o (<<":">> \o rest)
            BY <1>1, <1>2, <3>1, ConcatAssociative
        <3> QED BY <1>1, <3>2, <3>3
    <2>2. SubSeq(l, 1, k) = SubSeq(n, 1, k)
        <3>1. 1 \in 1..Len(n) /\ k \in 1..Len(n)
            BY <1>2 DEF k
        <3> QED BY <1>2, <2>1, <3>1, SubSeqOfConcat1
    <2>3. SubSeq(n, 1, k) = n
        BY <1>2, SubSeqFull DEF k
    <2>4. (k + 1) - 1 = k
        BY <1>2
    <2> QED BY <1>9, <2>2, <2>3, <2>4 DEF NameIn
<1>11. ValueIn(l) = Decode(v)
    <2>1. IsAt(l, (k + 1) + 1, <<"sp">>) <=> rest[1] = "sp"
        <3>1. (k + 1) + 1 \in Nat \ {0} /\ (k + 1) + 1 <= Len(l) /\ l[(k + 1) + 1] = rest[1]
            <4>1. k + 1 + 1 = (k + 1) + 1 /\ 1 \in 1..Len(rest)
                BY <1>2
            <4> QED BY <1>2, <1>5, <4>1
        <3> QED BY <1>5, <3>1, OneAt
    <2>2. \A i \in (k + 2)..Len(l) : SubSeq(l, i, Len(l)) = SubSeq(rest, i - (k + 1), Len(rest))
        <3> TAKE i \in (k + 2)..Len(l)
        <3>1. i \in Len(a)+1..Len(a)+Len(rest) /\ Len(l) \in Len(a)+1..Len(a)+Len(rest)
            BY <1>2, <1>3, <1>5 DEF k
        <3>2. SubSeq(a \o rest, i, Len(l)) = SubSeq(rest, i - Len(a), Len(l) - Len(a))
            BY <1>3, <3>1, SubSeqOfConcat2
        <3>3. i - Len(a) = i - (k + 1) /\ Len(l) - Len(a) = Len(rest)
            BY <1>2, <1>3, <1>5 DEF k
        <3> QED BY <1>4, <3>2, <3>3
    <2>3. CASE rest[1] # "sp"
        <3>1. k + 2 \in (k + 2)..Len(l) /\ (k + 2) - (k + 1) = 1
            BY <1>2, <1>5
        <3>2. SubSeq(l, k + 2, Len(l)) = rest
            BY <2>2, <3>1, SubSeqFull
        <3>3. (k + 1) + 1 = k + 2
            BY <1>2
        <3> QED BY <1>1, <1>9, <2>1, <2>3, <3>2, <3>3 DEF ValueIn
    <2>4. CASE rest[1] = "sp"
        <3>1. Tail(rest) = SubSeq(rest, 2, Len(rest))
            BY <1>1, TailIsSubSeq
        <3>2. SubSeq(l, k + 3, Len(l)) = SubSeq(rest, 2, Len(rest))
            <4>1. CASE Len(rest) = 1
                <5>1. Len(rest) < 2 /\ Len(l) < k + 3 /\ Len(l) \in Int /\ k + 3 \in Int
                    BY <1>2, <1>5, <4>1
                <5>2. SubSeq(l, k + 3, Len(l)) = <<>>
                    BY <5>1, SubSeqEmpty
                <5>3. SubSeq(rest, 2, Len(rest)) = <<>>
                    BY <1>2, <5>1, SubSeqEmpty
                <5> QED BY <5>2, <5>3
            <4>2. CASE Len(rest) >= 2
                <5>1. k + 3 \in (k + 2)..Len(l) /\ (k + 3) - (k + 1) = 2
                    <6>1. Len(rest) \in Nat /\ k \in Nat
                        BY <1>2
                    <6>2. Len(l) = k + 1 + Len(rest)
                        BY <1>5
                    <6> QED BY <4>2, <6>1, <6>2
                <5> QED BY <2>2, <5>1
            <4>3. Len(rest) = 1 \/ Len(rest) >= 2
                <5>1. \A i \in Nat : i >= 1 => i = 1 \/ i >= 2
                    OBVIOUS
                <5>2. Len(rest) \in Nat /\ Len(rest) >= 1
                    BY <1>2
                <5> QED BY <5>1, <5>2
            <4> QED BY <4>1, <4>2, <4>3
        <3>3. (k + 1) + 2 = k + 3
            BY <1>2
        <3> QED BY <1>1, <1>9, <2>1, <2>4, <3>1, <3>2, <3>3 DEF ValueIn
    <2> QED BY <2>3, <2>4
<1>12. l # <<>>
    BY <1>2, <1>5, EmptySeq
<1> QED BY <1>5, <1>8, <1>10, <1>11, <1>12

\* headers, with one more.
With(hs, n, v) ==
    [m \in DOMAIN hs \cup {Upper(Decode(n))} |-> IF m = Upper(Decode(n)) THEN Decode(v) ELSE hs[m]]

\* Storing the header that is pending keeps what describes the text.
LEMMA Stores ==
    ASSUME NEW X \in Seq(Chars), NEW hs, Describes(X, hs), NEW l, NEW n, NEW v, IsLine(l, n, v)
    PROVE  Describes((X \o l) \o Crlf, With(hs, n, v))
<1> DEFINE Y == (X \o l) \o Crlf
           N == Upper(Decode(n))
           V == Decode(v)
           new == [m \in DOMAIN hs \cup {N} |-> IF m = N THEN V ELSE hs[m]]
           last == Len(X) + 1
<1>1. EndsCrlf(X)
    BY DEF Describes
<1>2. /\ l \in Seq(Chars) /\ l # <<>>
      /\ \A i \in 1..(Len(l) - 1) : ~(l[i] = "cr" /\ l[i + 1] = "lf")
      /\ NameIn(l) = N /\ ValueIn(l) = V
    BY LineParts
<1>3. /\ Starts(Y) = Starts(X) \cup {last}
      /\ LineAt(Y, last) = l
      /\ \A i \in Starts(X) : LineAt(Y, i) = LineAt(X, i) /\ i < last
    BY <1>1, <1>2, NewLine
<1>4. EndsCrlf(Y)
    BY <1>2, LineAdded
<1>5. /\ DOMAIN new = {N} \cup DOMAIN hs
      /\ new[N] = V
      /\ \A m \in DOMAIN hs : m # N => new[m] = hs[m]
    OBVIOUS
<1>6. last \in Nat /\ \A i \in Starts(X) : i \in Nat /\ i <= last
    <2>1. Len(X) \in Nat
        BY LenProperties
    <2> QED BY <2>1 DEF Starts
<1> HIDE DEF Y, N, V, new, last
<1>7. DOMAIN new = {NameIn(LineAt(Y, i)) : i \in Starts(Y)}
    <2>1. DOMAIN hs = {NameIn(LineAt(X, i)) : i \in Starts(X)}
        BY DEF Describes
    <2>2. {NameIn(LineAt(Y, i)) : i \in Starts(Y)}
            = {NameIn(LineAt(X, i)) : i \in Starts(X)} \cup {N}
        BY <1>2, <1>3
    <2> QED BY <1>5, <2>1, <2>2
<1>8. ASSUME NEW m \in DOMAIN new
      PROVE  \E i \in Starts(Y) :
                /\ NameIn(LineAt(Y, i)) = m /\ new[m] = ValueIn(LineAt(Y, i))
                /\ \A k \in Starts(Y) : NameIn(LineAt(Y, k)) = m => k <= i
    <2>1. CASE m = N
        <3>1. last \in Starts(Y) /\ NameIn(LineAt(Y, last)) = m /\ new[m] = ValueIn(LineAt(Y, last))
            BY <1>2, <1>3, <1>5, <2>1
        <3>2. \A k \in Starts(Y) : k <= last
            BY <1>3, <1>6
        <3> QED BY <3>1, <3>2
    <2>2. CASE m # N
        <3>1. m \in DOMAIN hs /\ new[m] = hs[m]
            BY <1>5, <2>2
        <3>2. PICK i \in Starts(X) : /\ NameIn(LineAt(X, i)) = m /\ hs[m] = ValueIn(LineAt(X, i))
                                     /\ \A k \in Starts(X) : NameIn(LineAt(X, k)) = m => k <= i
            BY <3>1 DEF Describes
        <3>3. i \in Starts(Y) /\ LineAt(Y, i) = LineAt(X, i)
            BY <1>3
        <3>4. \A k \in Starts(Y) : NameIn(LineAt(Y, k)) = m => k <= i
            BY <1>2, <1>3, <2>2, <3>2
        <3> QED BY <3>1, <3>2, <3>3, <3>4
    <2> QED BY <2>1, <2>2
<1>9. Describes(Y, new)
    BY <1>4, <1>7, <1>8 DEF Describes
<1> QED BY <1>9 DEF Y, N, V, new, With

------------------------------------------------------------------------------
(* The head of a text, and the headers that are in it.                     *)

EndsCrlfCr(t) ==
    Len(t) >= 3 /\ t[Len(t) - 2] = "cr" /\ t[Len(t) - 1] = "lf" /\ t[Len(t)] = "cr"
HasHead(t) == \E i \in DOMAIN t : IsAt(t, i, Crlf \o Crlf)

\* What EndsWhereItSays says of the headers, of any text.
Head1(t) == Unfolded(SubSeq(t, 1, HeadEnd(t)))
NamesIn(t) == {NameIn(LineAt(Head1(t), i)) : i \in HeaderStarts(Head1(t))}
LastStartOf(t, n) == Max({i \in HeaderStarts(Head1(t)) : NameIn(LineAt(Head1(t), i)) = n})
AreHeaders(t, hs) ==
    /\ DOMAIN hs = IF NamesIn(t) = {} THEN {<<>>} ELSE NamesIn(t)
    /\ \A n \in NamesIn(t) : hs[n] = ValueIn(LineAt(Head1(t), LastStartOf(t, n)))

LEMMA CrlfCrlfAppend ==
    ASSUME NEW t \in Seq(Chars), NEW c \in Chars, NEW i \in Nat \ {0}
    PROVE  IsAt(Append(t, c), i, Crlf \o Crlf) <=>
              \/ IsAt(t, i, Crlf \o Crlf)
              \/ EndsCrlfCr(t) /\ c = "lf" /\ i = Len(t) - 2
<1> DEFINE u == Append(t, c)
<1>1. /\ u \in Seq(Chars) /\ Len(u) = Len(t) + 1 /\ Len(t) \in Nat
      /\ \A j \in 1..Len(t) : u[j] = t[j]
      /\ u[Len(t) + 1] = c
    BY AppendedText
<1> HIDE DEF u
<1>2. IsAt(u, i, Crlf \o Crlf) <=> /\ i + 3 <= Len(u) /\ u[i] = "cr" /\ u[i + 1] = "lf"
                                   /\ u[i + 2] = "cr" /\ u[i + 3] = "lf"
    BY <1>1, CrlfCrlfAt
<1>3. IsAt(t, i, Crlf \o Crlf) <=> /\ i + 3 <= Len(t) /\ t[i] = "cr" /\ t[i + 1] = "lf"
                                   /\ t[i + 2] = "cr" /\ t[i + 3] = "lf"
    BY CrlfCrlfAt
<1>4. CASE i + 3 <= Len(t)
    <2>1. u[i] = t[i] /\ u[i + 1] = t[i + 1] /\ u[i + 2] = t[i + 2] /\ u[i + 3] = t[i + 3]
        BY <1>1, <1>4
    <2>2. i # Len(t) - 2 /\ i + 3 <= Len(u)
        BY <1>1, <1>4
    <2> QED BY <1>2, <1>3, <1>4, <2>1, <2>2 DEF u
<1>5. CASE i + 3 = Len(t) + 1
    <2>1. i = Len(t) - 2 /\ i + 1 = Len(t) - 1 /\ i + 2 = Len(t) /\ i + 3 = Len(t) + 1 /\ Len(t) >= 3
        BY <1>1, <1>5
    <2>2. u[i] = t[i] /\ u[i + 1] = t[i + 1] /\ u[i + 2] = t[i + 2] /\ u[i + 3] = c
        BY <1>1, <2>1
    <2>3. ~(i + 3 <= Len(t)) /\ i + 3 <= Len(u)
        BY <1>1, <2>1
    <2> QED BY <1>2, <1>3, <2>1, <2>2, <2>3 DEF u, EndsCrlfCr
<1>6. CASE i + 3 > Len(t) + 1
    <2>1. ~(i + 3 <= Len(u)) /\ ~(i + 3 <= Len(t)) /\ i # Len(t) - 2
        BY <1>1, <1>6
    <2> QED BY <1>2, <1>3, <2>1 DEF u
<1>7. i + 3 <= Len(t) \/ i + 3 = Len(t) + 1 \/ i + 3 > Len(t) + 1
    BY <1>1
<1> QED BY <1>4, <1>5, <1>6, <1>7

\* The empty line ends the head.
LEMMA HeadFound ==
    ASSUME NEW t \in Seq(Chars), EndsCrlfCr(t), ~HasHead(t)
    PROVE  LET u == Append(t, "lf")
           IN  HasHead(u) /\ HeadEnd(u) = Len(u) /\ SubSeq(u, 1, HeadEnd(u)) = u
<1> DEFINE u == Append(t, "lf")
           S == {i \in DOMAIN u : IsAt(u, i, Crlf \o Crlf)}
           m == Len(t) - 2
<1>1. "lf" \in Chars
    BY TokenFacts
<1>2. /\ u \in Seq(Chars) /\ Len(u) = Len(t) + 1 /\ Len(t) \in Nat /\ DOMAIN u = 1..Len(u)
      /\ DOMAIN t = 1..Len(t)
    BY <1>1, AppendedText, LenProperties
<1>3. m \in Nat \ {0} /\ m \in DOMAIN u
    BY <1>2 DEF EndsCrlfCr
<1>4. \A i \in DOMAIN u : IsAt(u, i, Crlf \o Crlf) <=> i = m
    <2> TAKE i \in DOMAIN u
    <2>1. i \in Nat \ {0}
        BY <1>2
    <2>2. IsAt(u, i, Crlf \o Crlf) <=> IsAt(t, i, Crlf \o Crlf) \/ i = m
        BY <1>1, <2>1, CrlfCrlfAppend
    <2>3. ~IsAt(t, i, Crlf \o Crlf)
        <3>1. CASE i \in DOMAIN t
            BY <3>1 DEF HasHead
        <3>2. CASE i \notin DOMAIN t
            BY <1>2, <2>1, <3>2, CrlfCrlfAt
        <3> QED BY <3>1, <3>2
    <2> QED BY <2>2, <2>3
<1> HIDE DEF u, m
<1>5. HasHead(u)
    BY <1>3, <1>4 DEF HasHead
<1>6. S = {m} /\ S \in SUBSET Nat /\ m \in S /\ \A k \in S : m <= k
    BY <1>3, <1>4
<1>7. Min(S) = m
    <2> HIDE DEF S
    <2> QED BY <1>6, MinIs
<1>8. HeadEnd(u) = 3 + m
    BY <1>7 DEF HeadEnd
<1>9. HeadEnd(u) = Len(u)
    BY <1>2, <1>8 DEF m
<1>10. SubSeq(u, 1, HeadEnd(u)) = u
    BY <1>2, <1>9, SubSeqFull
<1> QED BY <1>5, <1>9, <1>10 DEF u

\* What follows the head does not change it.
LEMMA HeadStays ==
    ASSUME NEW t \in Seq(Chars), NEW c \in Chars, HasHead(t)
    PROVE  LET u == Append(t, c)
           IN  HasHead(u) /\ HeadEnd(u) = HeadEnd(t) /\ SubSeq(u, 1, HeadEnd(u)) = SubSeq(t, 1, HeadEnd(t))
<1> DEFINE u == Append(t, c)
           S == {i \in DOMAIN u : IsAt(u, i, Crlf \o Crlf)}
           T == {i \in DOMAIN t : IsAt(t, i, Crlf \o Crlf)}
<1>1. /\ u \in Seq(Chars) /\ Len(u) = Len(t) + 1 /\ Len(t) \in Nat /\ DOMAIN u = 1..Len(u)
      /\ DOMAIN t = 1..Len(t) /\ \A j \in 1..Len(t) : u[j] = t[j]
    BY AppendedText, LenProperties
<1>2. \A i \in Nat \ {0} : IsAt(u, i, Crlf \o Crlf) <=>
                              IsAt(t, i, Crlf \o Crlf) \/ (EndsCrlfCr(t) /\ c = "lf" /\ i = Len(t) - 2)
    BY CrlfCrlfAppend
<1>3. \A i \in Nat \ {0} : IsAt(t, i, Crlf \o Crlf) => i + 3 <= Len(t)
    BY CrlfCrlfAt
<1> HIDE DEF u
<1>4. S \in SUBSET Nat /\ T \in SUBSET Nat /\ T # {}
    BY <1>1 DEF HasHead
<1>5. PICK m \in T : \A k \in T : m <= k
    <2> HIDE DEF T
    <2> QED BY <1>4, LeastOfNaturals
<1>6. m \in Nat \ {0} /\ m + 3 <= Len(t) /\ m \in S
    <2>1. m \in 1..Len(t) /\ IsAt(t, m, Crlf \o Crlf)
        BY <1>1
    <2>2. m \in Nat \ {0}
        BY <2>1
    <2>3. m \in DOMAIN u /\ IsAt(u, m, Crlf \o Crlf)
        <3>1. IsAt(u, m, Crlf \o Crlf)
            BY <1>2, <2>1, <2>2
        <3>2. m \in 1..(Len(t) + 1)
            BY <1>1, <2>1
        <3> QED BY <1>1, <3>1, <3>2
    <2> QED BY <1>3, <2>1, <2>2, <2>3
<1>7. ASSUME NEW k \in S PROVE m <= k
    <2>1. k \in Nat \ {0} /\ IsAt(u, k, Crlf \o Crlf)
        BY <1>1
    <2>2. CASE IsAt(t, k, Crlf \o Crlf)
        <3>1. k \in T
            BY <1>1, <1>3, <2>1, <2>2
        <3> HIDE DEF T
        <3> QED BY <1>5, <3>1
    <2>3. CASE k = Len(t) - 2
        BY <1>1, <1>6, <2>3
    <2> QED BY <1>2, <2>1, <2>2, <2>3
<1>8. Min(S) = m /\ Min(T) = m
    <2> HIDE DEF S, T
    <2> QED BY <1>4, <1>5, <1>6, <1>7, MinIs
<1>9. HeadEnd(u) = 3 + m /\ HeadEnd(t) = 3 + m
    BY <1>8 DEF HeadEnd
<1>10. HasHead(u)
    BY <1>6 DEF HasHead
<1>11. SubSeq(u, 1, 3 + m) = SubSeq(t, 1, 3 + m)
    <2>1. u = t \o <<c>> /\ <<c>> \in Seq(Chars)
        BY AppendIsConcat DEF u
    <2>2. 1 \in 1..Len(t) /\ 3 + m \in 1..Len(t)
        BY <1>1, <1>6
    <2> QED BY <2>1, <2>2, SubSeqOfConcat1
<1> QED BY <1>9, <1>10, <1>11 DEF u

LEMMA MaxIs ==
    ASSUME NEW S \in SUBSET Nat, NEW m \in S, \A k \in S : k <= m
    PROVE  Max(S) = m
<1>1. \A x \in S : (\A y \in S : x >= y) => x = m
    OBVIOUS
<1> QED BY <1>1 DEF Max

\* The headers that describe the lines of the head are those of the text.
LEMMA HeadDescribed ==
    ASSUME NEW t, NEW Y \in Seq(Chars), Head1(t) = Y \o Crlf, NEW hs, Describes(Y, hs)
    PROVE  /\ NamesIn(t) = DOMAIN hs
           /\ DOMAIN hs # {} => AreHeaders(t, hs)
<1> DEFINE head == Y \o Crlf
<1>1. /\ head \in Seq(Chars) /\ Len(head) = Len(Y) + 2 /\ Len(Y) \in Nat
    <2>1. Crlf \in Seq(Chars) /\ Len(Crlf) = 2
        BY TokenFacts
    <2>2. Y \o Crlf \in Seq(Chars) /\ Len(Y \o Crlf) = Len(Y) + Len(Crlf)
        BY <2>1, ConcatProperties
    <2> QED BY <2>1, <2>2, LenProperties
<1>2. /\ \A i \in 3..Len(Y) : IsAt(head, i - 2, Crlf) <=> i \in Starts(Y)
      /\ \A i \in Starts(Y) : LineAt(head, i) = LineAt(Y, i)
    BY TokenFacts, OldLines DEF Describes
<1> HIDE DEF head
<1>3. HeaderStarts(head) = Starts(Y)
    <2>1. Len(head) - 2 = Len(Y)
        BY <1>1
    <2>2. HeaderStarts(head) = {i \in 3..Len(Y) : IsAt(head, i - 2, Crlf)}
        BY <2>1 DEF HeaderStarts
    <2>3. \A i \in Starts(Y) : i \in 3..Len(Y)
        BY DEF Starts
    <2> QED BY <1>2, <2>2, <2>3
<1>4. Head1(t) = head
    BY DEF head
<1>5. NamesIn(t) = DOMAIN hs
    BY <1>2, <1>3, <1>4 DEF NamesIn, Describes
<1>6. ASSUME NEW n \in DOMAIN hs PROVE hs[n] = ValueIn(LineAt(head, LastStartOf(t, n)))
    <2>1. PICK i \in Starts(Y) : /\ NameIn(LineAt(Y, i)) = n /\ hs[n] = ValueIn(LineAt(Y, i))
                                 /\ \A k \in Starts(Y) : NameIn(LineAt(Y, k)) = n => k <= i
        BY DEF Describes
    <2> DEFINE S == {k \in Starts(Y) : NameIn(LineAt(head, k)) = n}
    <2>2. S \in SUBSET Nat /\ i \in S /\ \A k \in S : k <= i
        BY <1>1, <1>2, <2>1 DEF Starts
    <2>3. LastStartOf(t, n) = Max(S)
        BY <1>3, <1>4 DEF LastStartOf
    <2> HIDE DEF S
    <2>4. Max(S) = i
        BY <2>2, MaxIs
    <2> QED BY <1>2, <2>1, <2>3, <2>4
<1> QED BY <1>4, <1>5, <1>6 DEF AreHeaders

------------------------------------------------------------------------------
(* What the states of the parser say of the text that was read.            *)

RequestLine ==
    {"method_start", "method", "uri", "http_version_h", "http_version_t_1", "http_version_t_2",
     "http_version_p", "http_version_slash", "http_version_major_start", "http_version_major",
     "http_version_minor_start", "http_version_minor", "expecting_newline_1"}

\* From one state to the next on a character, until the head ends.
Leads(s, c, next) ==
    \/ \E m \in Moves : s = m[1] /\ c \in m[2] /\ next = m[3]
    \/ s = "header_line_start" /\ c \in Token /\ next = "header_name"
    \/ s = "header_line_start" /\ c \in Blanks /\ next = "header_lws"

\* How the text ends.
Marks(t, s) ==
    /\ EndsCrlf(t) <=> s = "header_line_start"
    /\ EndsCrlfCr(t) <=> s = "expecting_newline_3"
    /\ InFold(t, Len(t)) <=> s = "header_lws"
    /\ s \in {"expecting_newline_1", "expecting_newline_2"} => Len(t) >= 1 /\ t[Len(t)] = "cr"
    /\ s = "space_before_header_value" => Len(t) >= 1 /\ t[Len(t)] = ":"
    /\ ~HasHead(t)

\* The method is how the text starts.
MethodRead(t, s, m) ==
    /\ m \in Seq(Token)
    /\ s = "method_start" => m = <<>> /\ t = <<>>
    /\ s = "method" => t = m
    /\ s \notin {"method_start", "method"} =>
          /\ Len(m) < Len(t) /\ t[Len(m) + 1] = "sp"
          /\ \A i \in 1..Len(m) : t[i] = m[i]

\* The request line is one line.
LineRead(t, s, hs, n, v) ==
    s \in RequestLine => /\ Unfolded(t) = t
                         /\ \A i \in 1..(Len(t) - 1) : ~(t[i] = "cr" /\ t[i + 1] = "lf")
                         /\ hs = <<>> /\ n = <<>> /\ v = <<>>

\* The headers describe the lines of Y but for the last one, which is pending.
Pending(Y, hs, n, v) ==
    \/ n = <<>> /\ v = <<>> /\ hs = <<>> /\ Describes(Y, hs)
    \/ \E X \in Seq(Chars) : \E l \in Seq(Chars) :
          Describes(X, hs) /\ IsLine(l, n, v) /\ Y = (X \o l) \o Crlf

\* The unfolded text is lines that the headers describe, and what has been read of
\* the next one.
HeadersRead(t, s, hs, n, v) ==
    LET U == Unfolded(t)
    IN  /\ s = "header_line_start" => Pending(U, hs, n, v)
        /\ s = "expecting_newline_3" =>
              \E Y \in Seq(Chars) : Pending(Y, hs, n, v) /\ U = Append(Y, "cr")
        /\ s = "header_name" =>
              /\ n \in Seq(Token) /\ n # <<>> /\ v = <<>>
              /\ \E X \in Seq(Chars) : Describes(X, hs) /\ U = X \o n
        /\ s = "space_before_header_value" =>
              /\ n \in Seq(Token) /\ n # <<>> /\ v = <<>>
              /\ \E X \in Seq(Chars) : Describes(X, hs) /\ U = X \o (n \o <<":">>)
        /\ s \in {"header_value", "header_lws"} =>
              \E X \in Seq(Chars) : \E l \in Seq(Chars) :
                  Describes(X, hs) /\ IsLine(l, n, v) /\ U = X \o l
        /\ s = "expecting_newline_2" =>
              \E X \in Seq(Chars) : \E l \in Seq(Chars) :
                  Describes(X, hs) /\ IsLine(l, n, v) /\ U = Append(X \o l, "cr")

\* The part of the move that the state machine leaves to the text.
LEMMA LeadsFacts ==
    ASSUME NEW s, NEW c \in Chars, NEW next, Leads(s, c, next)
    PROVE  /\ next = "header_line_start" <=> c = "lf" /\ s \in {"expecting_newline_1", "expecting_newline_2"}
           /\ c = "lf" => s \in {"expecting_newline_1", "expecting_newline_2", "space_before_header_value"}
           /\ next = "expecting_newline_3" <=> c = "cr" /\ s = "header_line_start"
           /\ next = "header_lws" <=> c \in Blanks /\ s \in {"header_lws", "header_line_start"}
           /\ next \in {"expecting_newline_1", "expecting_newline_2"} => c = "cr"
           /\ next = "space_before_header_value" => c = ":"
           /\ s # "expecting_newline_3" /\ next # "method_start"
           /\ next = "method" => s \in {"method_start", "method"} /\ c \in Token
           /\ s = "method_start" => next = "method"
           /\ s = "method" => next = "method" \/ c = "sp"
           /\ next \in RequestLine => s \in RequestLine
           /\ s \in RequestLine => next \in RequestLine \/ next = "header_line_start"
BY TokenFacts DEF Leads, Moves, RequestLine, Ctl, Blanks, Digits

LEMMA LeadsCases ==
    ASSUME NEW s, NEW c \in Chars, NEW next, Leads(s, c, next), next \notin RequestLine
    PROVE  \/ s = "expecting_newline_1" /\ c = "lf" /\ next = "header_line_start"
           \/ s = "header_line_start" /\ c = "cr" /\ next = "expecting_newline_3"
           \/ s = "header_line_start" /\ c \in Token /\ next = "header_name"
           \/ s = "header_line_start" /\ c \in Blanks /\ next = "header_lws"
           \/ s = "header_name" /\ c \in Token /\ next = "header_name"
           \/ s = "header_name" /\ c = ":" /\ next = "space_before_header_value"
           \/ s = "space_before_header_value" /\ next = "header_value"
           \/ s = "header_value" /\ c \notin Ctl /\ next = "header_value"
           \/ s = "header_lws" /\ c \notin Ctl /\ c \notin Blanks /\ next = "header_value"
           \/ s = "header_lws" /\ c \in Blanks /\ next = "header_lws"
           \/ s \in {"header_value", "header_lws"} /\ c = "cr" /\ next = "expecting_newline_2"
           \/ s = "expecting_newline_2" /\ c = "lf" /\ next = "header_line_start"
BY DEF Leads, Moves, RequestLine

LEMMA MarksKept ==
    ASSUME NEW t \in Seq(Chars), NEW c \in Chars, NEW s, NEW next, Leads(s, c, next), Marks(t, s)
    PROVE  Marks(Append(t, c), next)
<1> DEFINE u == Append(t, c)
           n == Len(t)
<1>1. /\ u \in Seq(Chars) /\ Len(u) = n + 1 /\ n \in Nat
      /\ \A i \in 1..n : u[i] = t[i]
      /\ u[n + 1] = c
    BY AppendedText
<1>2. InFold(u, n + 1) <=> c \in Blanks /\ (InFold(t, n) \/ EndsCrlf(t))
    BY FoldAppend
<1>3. \A i \in Nat \ {0} : IsAt(u, i, Crlf \o Crlf) <=>
                              IsAt(t, i, Crlf \o Crlf) \/ (EndsCrlfCr(t) /\ c = "lf" /\ i = Len(t) - 2)
    BY CrlfCrlfAppend
<1> HIDE DEF u, n
<1>4. EndsCrlf(u) <=> c = "lf" /\ n >= 1 /\ t[n] = "cr"
    <2>1. Len(u) - 1 = n /\ (Len(u) >= 2 <=> n >= 1) /\ u[Len(u)] = c
        BY <1>1
    <2>2. n >= 1 => u[n] = t[n]
        BY <1>1
    <2> QED BY <2>1, <2>2 DEF EndsCrlf
<1>5. EndsCrlfCr(u) <=> c = "cr" /\ EndsCrlf(t)
    <2>1. Len(u) - 1 = n /\ Len(u) - 2 = n - 1 /\ (Len(u) >= 3 <=> n >= 2) /\ u[Len(u)] = c
        BY <1>1
    <2>2. n >= 2 => u[n] = t[n] /\ u[n - 1] = t[n - 1]
        BY <1>1
    <2> QED BY <2>1, <2>2 DEF EndsCrlfCr, EndsCrlf, n
<1>6. /\ EndsCrlf(u) <=> next = "header_line_start"
      /\ EndsCrlfCr(u) <=> next = "expecting_newline_3"
    BY <1>4, <1>5, LeadsFacts DEF Marks, n
<1>7. InFold(u, Len(u)) <=> next = "header_lws"
    <2>1. InFold(u, Len(u)) <=> c \in Blanks /\ (InFold(t, n) \/ EndsCrlf(t))
        BY <1>1, <1>2
    <2>2. InFold(t, n) \/ EndsCrlf(t) <=> s \in {"header_lws", "header_line_start"}
        BY DEF Marks, n
    <2>3. next = "header_lws" <=> c \in Blanks /\ s \in {"header_lws", "header_line_start"}
        BY LeadsFacts
    <2> QED BY <2>1, <2>2, <2>3
<1>8. /\ next \in {"expecting_newline_1", "expecting_newline_2"} => Len(u) >= 1 /\ u[Len(u)] = "cr"
      /\ next = "space_before_header_value" => Len(u) >= 1 /\ u[Len(u)] = ":"
    <2>1. Len(u) >= 1 /\ u[Len(u)] = c
        BY <1>1
    <2>2. /\ next \in {"expecting_newline_1", "expecting_newline_2"} => c = "cr"
          /\ next = "space_before_header_value" => c = ":"
        BY LeadsFacts
    <2> QED BY <2>1, <2>2
<1>9. ~HasHead(u)
    <2>1. SUFFICES ASSUME NEW i \in DOMAIN u, IsAt(u, i, Crlf \o Crlf) PROVE FALSE
        BY DEF HasHead
    <2>2. i \in Nat \ {0}
        BY <1>1, LenProperties
    <2>3. ~EndsCrlfCr(t)
        BY LeadsFacts DEF Marks
    <2>4. IsAt(t, i, Crlf \o Crlf)
        BY <1>3, <2>1, <2>2, <2>3
    <2>5. i \in DOMAIN t
        <3>1. i + 3 <= Len(t)
            BY <2>2, <2>4, CrlfCrlfAt
        <3> QED BY <2>2, <3>1, LenProperties
    <2> QED BY <2>4, <2>5 DEF Marks, HasHead
<1>10. Marks(u, next)
    BY <1>6, <1>7, <1>8, <1>9 DEF Marks
<1> QED BY <1>10 DEF u

LEMMA MethodKept ==
    ASSUME NEW t \in Seq(Chars), NEW c \in Chars, NEW s, NEW next, Leads(s, c, next),
           NEW m, MethodRead(t, s, m)
    PROVE  MethodRead(Append(t, c), next, IF next = "method" THEN Append(m, c) ELSE m)
<1> DEFINE u == Append(t, c)
<1>1. /\ u \in Seq(Chars) /\ Len(u) = Len(t) + 1 /\ Len(t) \in Nat
      /\ \A i \in 1..Len(t) : u[i] = t[i]
      /\ u[Len(t) + 1] = c
    BY AppendedText
<1>2. m \in Seq(Token) /\ Len(m) \in Nat
    BY LenProperties DEF MethodRead
<1>3. next # "method_start" /\ (s = "method" => next = "method" \/ c = "sp")
    BY LeadsFacts
<1>4. CASE next = "method"
    <2>1. s \in {"method_start", "method"} /\ c \in Token
        BY <1>4, LeadsFacts
    <2>2. t = m
        BY <2>1 DEF MethodRead
    <2>3. Append(m, c) \in Seq(Token)
        BY <1>2, <2>1, AppendProperties
    <2> QED BY <1>4, <2>2, <2>3 DEF MethodRead
<1>5. CASE next # "method"
    <2> HIDE DEF u
    <2>1. Len(m) < Len(u) /\ u[Len(m) + 1] = "sp" /\ \A i \in 1..Len(m) : u[i] = m[i]
        <3>1. CASE s = "method"
            <4>1. t = m
                BY <3>1 DEF MethodRead
            <4>2. c = "sp"
                BY <1>3, <1>5, <3>1
            <4> QED BY <1>1, <4>1, <4>2
        <3>2. CASE s # "method"
            <4>1. s \notin {"method_start", "method"}
                BY <1>5, <3>2, LeadsFacts
            <4>2. Len(m) < Len(t) /\ t[Len(m) + 1] = "sp" /\ \A i \in 1..Len(m) : t[i] = m[i]
                BY <4>1 DEF MethodRead
            <4>3. Len(m) + 1 \in 1..Len(t) /\ \A i \in 1..Len(m) : i \in 1..Len(t)
                BY <1>1, <1>2, <4>2
            <4> QED BY <1>1, <1>2, <4>2, <4>3
        <3> QED BY <3>1, <3>2
    <2> QED BY <1>2, <1>3, <1>5, <2>1 DEF MethodRead, u
<1> QED BY <1>4, <1>5

\* A text starts with POST and a space just if that is its method.
LEMMA IsPost ==
    ASSUME NEW t \in Seq(Chars), NEW s, NEW m, MethodRead(t, s, m),
           s \notin {"method_start", "method"}
    PROVE  IsAt(t, 1, <<"POST", "sp">>) <=> m = <<"POST">>
<1>1. IsAt(t, 1, <<"POST", "sp">>) <=> 2 <= Len(t) /\ t[1] = "POST" /\ t[2] = "sp"
    BY TwoAt
<1>2. /\ m \in Seq(Token) /\ Len(m) \in Nat /\ Len(t) \in Nat
      /\ Len(m) < Len(t) /\ t[Len(m) + 1] = "sp" /\ \A i \in 1..Len(m) : t[i] = m[i]
    BY LenProperties DEF MethodRead
<1>3. ASSUME 2 <= Len(t), t[1] = "POST", t[2] = "sp" PROVE m = <<"POST">>
    <2>1. Len(m) # 0
        BY <1>2, <1>3
    <2>2. ~(Len(m) >= 2)
        <3>1. SUFFICES ASSUME Len(m) >= 2 PROVE FALSE
            OBVIOUS
        <3>2. m[2] = "sp" /\ m[2] \in Token
            BY <1>2, <1>3, <3>1
        <3> QED BY <3>2, TokenFacts
    <2>3. Len(m) = 1
        <3>1. \A i \in Nat : i # 0 /\ ~(i >= 2) => i = 1
            OBVIOUS
        <3>2. Len(m) \in Nat
            BY <1>2
        <3> QED BY <2>1, <2>2, <3>1, <3>2
    <2>4. m[1] = "POST"
        BY <1>2, <1>3, <2>3
    <2> QED BY <1>2, <2>3, <2>4
<1>4. ASSUME m = <<"POST">> PROVE 2 <= Len(t) /\ t[1] = "POST" /\ t[2] = "sp"
    <2>1. Len(m) = 1 /\ m[1] = "POST"
        BY <1>4
    <2> QED BY <1>2, <2>1
<1> QED BY <1>1, <1>3, <1>4

LEMMA LineKept ==
    ASSUME NEW t \in Seq(Chars), NEW c \in Chars, NEW s, NEW next, Leads(s, c, next), Marks(t, s),
           LineRead(t, s, <<>>, <<>>, <<>>), s \in RequestLine
    PROVE  /\ Unfolded(Append(t, c)) = Append(t, c)
           /\ next \in RequestLine => LineRead(Append(t, c), next, <<>>, <<>>, <<>>)
           /\ next \notin RequestLine =>
                 next = "header_line_start" /\ Describes(Append(t, c), <<>>)
<1> DEFINE u == Append(t, c)
           n == Len(t)
<1>1. /\ u \in Seq(Chars) /\ Len(u) = n + 1 /\ n \in Nat
      /\ \A i \in 1..n : u[i] = t[i]
      /\ u[n + 1] = c
    BY AppendedText
<1>2. Marks(u, next)
    BY MarksKept
<1>3. Unfolded(t) = t /\ \A i \in 1..(n - 1) : ~(t[i] = "cr" /\ t[i + 1] = "lf")
    BY DEF LineRead
<1>4. Unfolded(u) = u
    <2>1. ~EndsCrlf(t) /\ ~InFold(t, Len(t))
        BY DEF Marks, RequestLine
    <2> QED BY <1>3, <2>1, UnfoldAppend
<1> HIDE DEF u
<1>5. ASSUME next \in RequestLine PROVE LineRead(u, next, <<>>, <<>>, <<>>)
    <2>1. ~EndsCrlf(u)
        BY <1>2, <1>5 DEF Marks, RequestLine
    <2>2. ASSUME NEW i \in 1..(Len(u) - 1), u[i] = "cr", u[i + 1] = "lf" PROVE FALSE
        <3>1. CASE i = n
            BY <1>1, <2>1, <2>2, <3>1 DEF EndsCrlf
        <3>2. CASE i # n
            <4>1. i \in 1..(n - 1) /\ i \in 1..n /\ i + 1 \in 1..n
                BY <1>1, <3>2
            <4>2. t[i] = "cr" /\ t[i + 1] = "lf"
                BY <1>1, <2>2, <4>1
            <4> QED BY <1>3, <4>1, <4>2
        <3> QED BY <3>1, <3>2
    <2> QED BY <1>4, <2>2 DEF LineRead
<1>6. ASSUME next \notin RequestLine PROVE next = "header_line_start" /\ Describes(u, <<>>)
    <2>1. next = "header_line_start"
        BY <1>6, LeadsFacts
    <2>2. EndsCrlf(u)
        BY <1>2, <2>1 DEF Marks
    <2>3. ASSUME NEW i \in Starts(u) PROVE FALSE
        <3>1. i \in 3..(n + 1) /\ IsAt(u, i - 2, Crlf)
            BY <1>1 DEF Starts
        <3> DEFINE k == i - 2
        <3>2. k \in Nat \ {0} /\ k \in 1..(n - 1) /\ k \in 1..n /\ k + 1 \in 1..n
            BY <1>1, <3>1
        <3> HIDE DEF k
        <3>3. u[k] = "cr" /\ u[k + 1] = "lf"
            BY <1>1, <3>1, <3>2, CrlfAt DEF k
        <3> QED BY <1>1, <1>3, <3>2, <3>3
    <2>4. Starts(u) = {}
        BY <2>3
    <2>5. DOMAIN <<>> = {}
        OBVIOUS
    <2> QED BY <2>1, <2>2, <2>4, <2>5 DEF Describes
<1> QED BY <1>4, <1>5, <1>6 DEF u

\* A character more of the value.
LEMMA ValueGrows ==
    ASSUME NEW l \in Seq(Chars), NEW n, NEW v, IsLine(l, n, v), NEW c \in Chars, c \notin Ctl
    PROVE  IsLine(Append(l, c), n, Append(v, c))
<1>1. PICK rest \in Seq(Chars) : /\ rest # <<>> /\ l = (n \o <<":">>) \o rest
                                 /\ \A i \in 2..Len(rest) : rest[i] \notin Ctl
                                 /\ v = IF rest[1] = "sp" THEN Tail(rest) ELSE rest
    BY DEF IsLine
<1>2. n \in Seq(Token) /\ n # <<>> /\ n \in Seq(Chars)
    BY TokenFacts, SeqMonotonic DEF IsLine
<1> DEFINE more == Append(rest, c)
           a == n \o <<":">>
<1>3. /\ more \in Seq(Chars) /\ more # <<>> /\ Len(more) = Len(rest) + 1 /\ Len(rest) \in Nat
      /\ \A i \in 1..Len(rest) : more[i] = rest[i]
      /\ more[Len(rest) + 1] = c
    BY AppendProperties, LenProperties
<1>4. Len(rest) >= 1
    BY <1>1, <1>3, EmptySeq
<1>5. Append(l, c) = a \o more
    <2>1. a \in Seq(Chars) /\ <<c>> \in Seq(Chars)
        <3>1. <<":">> \in Seq(Chars)
            BY TokenFacts
        <3> QED BY <1>2, <3>1, ConcatProperties
    <2>2. Append(l, c) = l \o <<c>> /\ more = rest \o <<c>>
        BY AppendIsConcat
    <2> HIDE DEF a, more
    <2>3. l = a \o rest
        BY <1>1 DEF a
    <2> QED BY <2>1, <2>2, <2>3, ConcatAssociative
<1>6. \A i \in 2..Len(more) : more[i] \notin Ctl
    <2> TAKE i \in 2..Len(more)
    <2> HIDE DEF more
    <2>1. CASE i = Len(rest) + 1
        BY <1>3, <2>1
    <2>2. CASE i # Len(rest) + 1
        <3>1. i \in 2..Len(rest) /\ i \in 1..Len(rest)
            BY <1>3, <2>2
        <3> QED BY <1>1, <1>3, <3>1
    <2> QED BY <2>1, <2>2
<1>7. Append(v, c) = IF more[1] = "sp" THEN Tail(more) ELSE more
    <2>1. more[1] = rest[1]
        BY <1>3, <1>4
    <2>2. Tail(more) = Append(Tail(rest), c)
        BY <1>1, HeadTailAppend
    <2> QED BY <1>1, <2>1, <2>2
<1> QED BY <1>2, <1>3, <1>5, <1>6, <1>7 DEF IsLine

\* The first character after the colon.
LEMMA ValueStarts ==
    ASSUME NEW n \in Seq(Token), n # <<>>, NEW c \in Chars
    PROVE  IsLine((n \o <<":">>) \o <<c>>, n, IF c = "sp" THEN <<>> ELSE <<c>>)
<1>1. PICK rest : rest = <<c>>
    OBVIOUS
<1>2. rest \in Seq(Chars) /\ rest # <<>> /\ Len(rest) = 1 /\ rest[1] = c
    BY <1>1
<1>3. Tail(rest) = <<>>
    <2>1. Len(rest) < 2 /\ Len(rest) \in Int
        BY <1>2
    <2>2. Tail(rest) = SubSeq(rest, 2, Len(rest))
        BY <1>2, TailIsSubSeq
    <2>3. SubSeq(rest, 2, Len(rest)) = <<>>
        BY <2>1, SubSeqEmpty
    <2> QED BY <2>2, <2>3
<1>4. (IF c = "sp" THEN <<>> ELSE <<c>>) = IF rest[1] = "sp" THEN Tail(rest) ELSE rest
    BY <1>1, <1>2, <1>3
<1>5. \A i \in 2..Len(rest) : rest[i] \notin Ctl
    BY <1>2
<1> QED BY <1>1, <1>2, <1>4, <1>5 DEF IsLine

LEMMA AppendToConcat ==
    ASSUME NEW X \in Seq(Chars), NEW Y \in Seq(Chars), NEW c \in Chars
    PROVE  Append(X \o Y, c) = X \o Append(Y, c) /\ Append(Y, c) = Y \o <<c>>
           /\ X \o Y \in Seq(Chars) /\ Append(Y, c) \in Seq(Chars)
<1>1. <<c>> \in Seq(Chars) /\ X \o Y \in Seq(Chars)
    BY ConcatProperties
<1>2. Append(X \o Y, c) = (X \o Y) \o <<c>> /\ Append(Y, c) = Y \o <<c>>
    BY <1>1, AppendIsConcat
<1> QED BY <1>1, <1>2, ConcatAssociative, AppendProperties

\* The empty sequence is all that Move gives to the name and the value of a header.
LEMMA HeadersKept ==
    ASSUME NEW t \in Seq(Chars), NEW c \in Chars, NEW s, NEW next, Leads(s, c, next), Marks(t, s),
           NEW hs, NEW n \in Seq(Token), NEW v \in Seq(Chars),
           LineRead(t, s, hs, n, v), HeadersRead(t, s, hs, n, v), next \notin RequestLine,
           s # "header_line_start" \/ c = "cr"
    PROVE  HeadersRead(Append(t, c), next, hs,
                       IF next = "header_name" THEN Append(n, c) ELSE n,
                       IF next = "header_value" /\ ~(s = "space_before_header_value" /\ c = "sp")
                       THEN Append(v, c) ELSE v)
<1> DEFINE u == Append(t, c)
           U == Unfolded(t)
           V == Unfolded(u)
           n2 == IF next = "header_name" THEN Append(n, c) ELSE n
           v2 == IF next = "header_value" /\ ~(s = "space_before_header_value" /\ c = "sp")
                 THEN Append(v, c) ELSE v
<1>1. U \in Seq(Chars) /\ n \in Seq(Chars)
    BY UnfoldedText, TokenFacts, SeqMonotonic
<1>2. /\ c \notin Blanks \/ ~(EndsCrlf(t) \/ InFold(t, Len(t))) => V = Append(U, c)
      /\ c \in Blanks /\ ~EndsCrlf(t) /\ InFold(t, Len(t)) => V = U
    BY UnfoldAppend
<1>3. /\ EndsCrlf(t) <=> s = "header_line_start"
      /\ InFold(t, Len(t)) <=> s = "header_lws"
    BY DEF Marks
<1> HIDE DEF u, U, V
<1>4. SUFFICES HeadersRead(u, next, hs, n2, v2)
    BY DEF u
<1>5. CASE s = "expecting_newline_1" /\ c = "lf" /\ next = "header_line_start"
    <2>1. hs = <<>> /\ n = <<>> /\ v = <<>>
        BY <1>5 DEF LineRead, RequestLine
    <2>2. Describes(u, <<>>) /\ V = u
        <3>1. LineRead(t, s, <<>>, <<>>, <<>>) /\ s \in RequestLine
            BY <1>5, <2>1 DEF RequestLine
        <3> QED BY <3>1, LineKept DEF u, V
    <2>3. Pending(V, hs, n2, v2)
        BY <1>5, <2>1, <2>2 DEF Pending
    <2> QED BY <1>5, <2>3 DEF HeadersRead, V
<1>6. CASE s = "header_line_start" /\ c = "cr" /\ next = "expecting_newline_3"
    <2>1. Pending(U, hs, n, v)
        BY <1>6 DEF HeadersRead, U
    <2>2. V = Append(U, "cr")
        BY <1>2, <1>6, TokenFacts
    <2>3. \E Y \in Seq(Chars) : Pending(Y, hs, n2, v2) /\ V = Append(Y, "cr")
        BY <1>1, <1>6, <2>1, <2>2
    <2> QED BY <1>6, <2>3 DEF HeadersRead, V
<1>7. CASE s = "header_name" /\ c \in Token /\ next = "header_name"
    <2>1. PICK X \in Seq(Chars) : n # <<>> /\ v = <<>> /\ Describes(X, hs) /\ U = X \o n
        BY <1>7 DEF HeadersRead, U
    <2>2. V = Append(U, c)
        BY <1>2, <1>7, TokenFacts
    <2>3. Append(X \o n, c) = X \o Append(n, c)
        BY <1>1, AppendToConcat
    <2>4. Append(n, c) \in Seq(Token) /\ Append(n, c) # <<>>
        BY <1>7, AppendProperties
    <2>5. n2 = Append(n, c) /\ v2 = v
        BY <1>7
    <2> HIDE DEF n2, v2
    <2> QED BY <1>7, <2>1, <2>2, <2>3, <2>4, <2>5 DEF HeadersRead, V
<1>8. CASE s = "header_name" /\ c = ":" /\ next = "space_before_header_value"
    <2>1. PICK X \in Seq(Chars) : n # <<>> /\ v = <<>> /\ Describes(X, hs) /\ U = X \o n
        BY <1>8 DEF HeadersRead, U
    <2>2. V = Append(U, ":")
        BY <1>2, <1>8, TokenFacts
    <2>3. Append(X \o n, ":") = X \o Append(n, ":") /\ Append(n, ":") = n \o <<":">>
        <3>1. Append(X \o n, c) = X \o Append(n, c) /\ Append(n, c) = n \o <<c>>
            BY <1>1, AppendToConcat
        <3> QED BY <1>8, <3>1
    <2>4. n2 = n /\ v2 = v
        BY <1>8
    <2> HIDE DEF n2, v2
    <2> QED BY <1>8, <2>1, <2>2, <2>3, <2>4 DEF HeadersRead, V
<1>9. CASE s = "space_before_header_value" /\ next = "header_value"
    <2> DEFINE a == n \o <<":">>
    <2>1. PICK X \in Seq(Chars) : n # <<>> /\ v = <<>> /\ Describes(X, hs) /\ U = X \o a
        BY <1>9 DEF HeadersRead, U
    <2>2. V = Append(U, c)
        BY <1>2, <1>3, <1>9
    <2>3. a \in Seq(Chars)
        <3>1. <<":">> \in Seq(Chars)
            BY TokenFacts
        <3> QED BY <1>1, <3>1, ConcatProperties
    <2>4. V = X \o (a \o <<c>>) /\ a \o <<c>> \in Seq(Chars)
        <3> HIDE DEF a
        <3>1. Append(X \o a, c) = X \o Append(a, c) /\ Append(a, c) = a \o <<c>>
              /\ Append(a, c) \in Seq(Chars)
            BY <2>3, AppendToConcat
        <3> QED BY <2>1, <2>2, <3>1
    <2>5. IsLine(a \o <<c>>, n, IF c = "sp" THEN <<>> ELSE <<c>>)
        BY <2>1, ValueStarts
    <2>6. v2 = IF c = "sp" THEN <<>> ELSE <<c>>
        BY <1>9, <2>1
    <2>7. n2 = n
        BY <1>9
    <2> HIDE DEF a, n2, v2
    <2> QED BY <1>9, <2>1, <2>4, <2>5, <2>6, <2>7 DEF HeadersRead, V
<1>10. CASE s \in {"header_value", "header_lws"} /\ c \notin Ctl /\ next = "header_value"
            /\ (s = "header_lws" => c \notin Blanks)
    <2>1. PICK X \in Seq(Chars), l \in Seq(Chars) : Describes(X, hs) /\ IsLine(l, n, v) /\ U = X \o l
        BY <1>10 DEF HeadersRead, U
    <2>2. V = Append(U, c)
        BY <1>2, <1>3, <1>10
    <2>3. V = X \o Append(l, c) /\ Append(l, c) \in Seq(Chars)
        BY <2>1, <2>2, AppendToConcat
    <2>4. IsLine(Append(l, c), n, Append(v, c))
        BY <1>10, <2>1, ValueGrows
    <2>5. n2 = n /\ v2 = Append(v, c)
        BY <1>10
    <2> HIDE DEF n2, v2
    <2> QED BY <1>10, <2>1, <2>3, <2>4, <2>5 DEF HeadersRead, V
<1>11. CASE s = "header_lws" /\ c \in Blanks /\ next = "header_lws"
    <2>1. PICK X \in Seq(Chars), l \in Seq(Chars) : Describes(X, hs) /\ IsLine(l, n, v) /\ U = X \o l
        BY <1>11 DEF HeadersRead, U
    <2>2. V = U
        BY <1>2, <1>3, <1>11
    <2>3. n2 = n /\ v2 = v
        BY <1>11
    <2> HIDE DEF n2, v2
    <2> QED BY <1>11, <2>1, <2>2, <2>3 DEF HeadersRead, V
<1>12. CASE s \in {"header_value", "header_lws"} /\ c = "cr" /\ next = "expecting_newline_2"
    <2>1. PICK X \in Seq(Chars), l \in Seq(Chars) : Describes(X, hs) /\ IsLine(l, n, v) /\ U = X \o l
        BY <1>12 DEF HeadersRead, U
    <2>2. V = Append(X \o l, "cr")
        BY <1>2, <1>12, <2>1, TokenFacts
    <2>3. n2 = n /\ v2 = v
        BY <1>12
    <2> HIDE DEF n2, v2
    <2> QED BY <1>12, <2>1, <2>2, <2>3 DEF HeadersRead, V
<1>13. CASE s = "expecting_newline_2" /\ c = "lf" /\ next = "header_line_start"
    <2>1. PICK X \in Seq(Chars), l \in Seq(Chars) :
             Describes(X, hs) /\ IsLine(l, n, v) /\ U = Append(X \o l, "cr")
        BY <1>13 DEF HeadersRead, U
    <2>2. V = Append(Append(X \o l, "cr"), "lf")
        BY <1>2, <1>13, <2>1, TokenFacts
    <2>3. V = (X \o l) \o Crlf
        <3>1. X \o l \in Seq(Chars) /\ "cr" \in Chars /\ "lf" \in Chars
            BY ConcatProperties, TokenFacts
        <3>2. ASSUME NEW w \in Seq(Chars) PROVE Append(Append(w, "cr"), "lf") = w \o Crlf
            BY <3>1, SMTT(30) DEF Crlf
        <3> QED BY <2>2, <3>1, <3>2
    <2>4. n2 = n /\ v2 = v
        BY <1>13
    <2> HIDE DEF n2, v2
    <2>5. Pending(V, hs, n2, v2)
        BY <2>1, <2>3, <2>4 DEF Pending
    <2> QED BY <1>13, <2>5 DEF HeadersRead, V
<1>14. \/ s = "expecting_newline_1" /\ c = "lf" /\ next = "header_line_start"
       \/ s = "header_line_start" /\ c = "cr" /\ next = "expecting_newline_3"
       \/ s = "header_name" /\ c \in Token /\ next = "header_name"
       \/ s = "header_name" /\ c = ":" /\ next = "space_before_header_value"
       \/ s = "space_before_header_value" /\ next = "header_value"
       \/ s \in {"header_value", "header_lws"} /\ c \notin Ctl /\ next = "header_value"
            /\ (s = "header_lws" => c \notin Blanks)
       \/ s = "header_lws" /\ c \in Blanks /\ next = "header_lws"
       \/ s \in {"header_value", "header_lws"} /\ c = "cr" /\ next = "expecting_newline_2"
       \/ s = "expecting_newline_2" /\ c = "lf" /\ next = "header_line_start"
    BY LeadsCases, TokenFacts
<1> HIDE DEF n2, v2
<1> QED BY <1>5, <1>6, <1>7, <1>8, <1>9, <1>10, <1>11, <1>12, <1>13, <1>14

LEMMA PendingStored ==
    ASSUME NEW Y \in Seq(Chars), NEW hs, NEW n, NEW v, Pending(Y, hs, n, v)
    PROVE  Describes(Y, IF n = <<>> THEN hs ELSE With(hs, n, v))
<1>1. CASE n = <<>>
    <2>1. \A l : ~IsLine(l, n, v)
        BY <1>1 DEF IsLine
    <2> QED BY <1>1, <2>1 DEF Pending
<1>2. CASE n # <<>>
    <2>1. PICK X \in Seq(Chars), l \in Seq(Chars) :
             Describes(X, hs) /\ IsLine(l, n, v) /\ Y = (X \o l) \o Crlf
        BY <1>2 DEF Pending
    <2>2. Describes(Y, With(hs, n, v))
        BY <2>1, Stores
    <2> QED BY <1>2, <2>2
<1> QED BY <1>1, <1>2

LEMMA HeaderStarted ==
    ASSUME NEW t \in Seq(Chars), NEW c \in Token, Marks(t, "header_line_start"),
           NEW hs, NEW n, NEW v, HeadersRead(t, "header_line_start", hs, n, v)
    PROVE  HeadersRead(Append(t, c), "header_name", IF n = <<>> THEN hs ELSE With(hs, n, v), <<c>>, <<>>)
<1> DEFINE U == Unfolded(t)
           V == Unfolded(Append(t, c))
           new == IF n = <<>> THEN hs ELSE With(hs, n, v)
<1>1. c \in Chars /\ c \notin Blanks /\ U \in Seq(Chars)
    BY TokenFacts, UnfoldedText
<1>2. V = Append(U, c)
    BY <1>1, UnfoldAppend
<1>3. V = U \o <<c>>
    BY <1>1, <1>2, AppendIsConcat
<1>4. Pending(U, hs, n, v)
    BY DEF HeadersRead
<1>5. Describes(U, new)
    BY <1>1, <1>4, PendingStored
<1>6. <<c>> \in Seq(Token) /\ <<c>> # <<>>
    OBVIOUS
<1> HIDE DEF U, new
<1> QED BY <1>1, <1>3, <1>5, <1>6 DEF HeadersRead, new

LEMMA HeaderFolded ==
    ASSUME NEW t \in Seq(Chars), NEW c \in Blanks, Marks(t, "header_line_start"),
           NEW hs, hs # <<>>, NEW n, NEW v, HeadersRead(t, "header_line_start", hs, n, v)
    PROVE  HeadersRead(Append(t, c), "header_lws", hs, n, v)
<1> DEFINE U == Unfolded(t)
           V == Unfolded(Append(t, c))
<1>1. c \in Chars
    BY DEF Chars
<1>2. V \in Seq(Chars) /\ U = V \o Crlf
    BY <1>1, UnfoldAppend DEF Marks
<1>3. PICK X \in Seq(Chars), l \in Seq(Chars) :
         Describes(X, hs) /\ IsLine(l, n, v) /\ U = (X \o l) \o Crlf
    BY DEF HeadersRead, Pending
<1>4. V = X \o l
    <2>1. X \o l \in Seq(Chars) /\ Crlf \in Seq(Chars)
        BY ConcatProperties, TokenFacts
    <2> HIDE DEF U, V
    <2> QED BY <1>2, <1>3, <2>1, ConcatSimplifications
<1> HIDE DEF U
<1> QED BY <1>3, <1>4 DEF HeadersRead

LEMMA NothingDecoded == Decode(<<>>) = <<>> /\ Upper(<<>>) = <<>>
<1> DEFINE s == <<>>
           Value(f, i) == IF i > Len(s) THEN <<>>
                          ELSE IF s[i] # "%" THEN <<s[i]>> \o f[i + 1]
                          ELSE IF i + 2 <= Len(s) THEN Hex(s[i + 1], s[i + 2]) \o f[i + 3]
                          ELSE <<>>
           Def(f) == f = [i \in 1..(Len(s) + 3) |-> Value(f, i)]
           from == CHOOSE f : Def(f)
<1>1. Decode(s) = from[1]
    BY DEF Decode
<1>2. Len(s) = 0
    OBVIOUS
<1>3. \A f : [i \in 1..(Len(s) + 3) |-> Value(f, i)] = [i \in 1..(Len(s) + 3) |-> <<>>]
    BY <1>2
<1>4. \A f : Def(f) <=> f = [i \in 1..(Len(s) + 3) |-> <<>>]
    <2> HIDE DEF Value
    <2> QED BY <1>3
<1>5. Def([i \in 1..(Len(s) + 3) |-> <<>>])
    BY <1>4
<1>6. Def(from)
    <2> HIDE DEF Def
    <2> QED BY <1>5
<1>7. from[1] = <<>>
    BY <1>2, <1>4, <1>6
<1>8. Upper(<<>>) = <<>>
    BY DEF Upper
<1> QED BY <1>1, <1>7, <1>8

\* The empty line: what is then stored is what the text has.
LEMMA HeadersEnd ==
    ASSUME NEW t \in Seq(Chars), Marks(t, "expecting_newline_3"),
           NEW hs, NEW n, NEW v, HeadersRead(t, "expecting_newline_3", hs, n, v)
    PROVE  LET u == Append(t, "lf")
           IN  /\ HasHead(u) /\ HeadEnd(u) = Len(u)
               /\ AreHeaders(u, With(hs, n, v))
<1> DEFINE u == Append(t, "lf")
           U == Unfolded(t)
           new == With(hs, n, v)
<1>1. "lf" \in Chars /\ "lf" \notin Blanks /\ "cr" \in Chars
    BY TokenFacts
<1>2. HasHead(u) /\ HeadEnd(u) = Len(u) /\ SubSeq(u, 1, HeadEnd(u)) = u
    BY HeadFound DEF Marks
<1>3. PICK Y \in Seq(Chars) : Pending(Y, hs, n, v) /\ U = Append(Y, "cr")
    BY DEF HeadersRead
<1>4. Unfolded(u) = Append(Append(Y, "cr"), "lf")
    BY <1>1, <1>3, UnfoldAppend
<1>5. Append(Append(Y, "cr"), "lf") = Y \o Crlf
    BY <1>1 DEF Crlf
<1>6. Head1(u) = Y \o Crlf
    BY <1>2, <1>4, <1>5 DEF Head1
<1> HIDE DEF u
<1>7. CASE n = <<>>
    <2>1. hs = <<>> /\ v = <<>> /\ Describes(Y, hs)
        <3>1. \A l : ~IsLine(l, n, v)
            BY <1>7 DEF IsLine
        <3> QED BY <1>3, <3>1 DEF Pending
    <2>2. DOMAIN hs = {}
        BY <2>1
    <2>3. NamesIn(u) = {}
        BY <1>6, <2>1, <2>2, HeadDescribed
    <2>4. Upper(Decode(n)) = <<>>
        BY <1>7, NothingDecoded
    <2>5. DOMAIN new = {<<>>}
        BY <2>2, <2>4 DEF With
    <2> HIDE DEF new
    <2>6. AreHeaders(u, new)
        BY <2>3, <2>5 DEF AreHeaders
    <2> QED BY <1>2, <2>6 DEF u, new
<1>8. CASE n # <<>>
    <2>1. Describes(Y, new)
        BY <1>3, <1>8, PendingStored
    <2>2. DOMAIN new # {}
        BY DEF With
    <2>3. AreHeaders(u, new)
        <3> HIDE DEF new
        <3> QED BY <1>6, <2>1, <2>2, HeadDescribed
    <2> QED BY <1>2, <2>3 DEF u
<1> QED BY <1>7, <1>8

\* While the body is read.
BodyRead(t, hs, b, len) ==
    /\ HasHead(t) /\ AreHeaders(t, hs)
    /\ HeadEnd(t) \in Nat /\ Len(t) = HeadEnd(t) + Len(b)
    /\ IsAt(t, 1, <<"POST", "sp">>) /\ <<"LENGTH">> \in NamesIn(t)
    /\ len = Number(hs[<<"LENGTH">>])

LEMMA BodyKept ==
    ASSUME NEW t \in Seq(Chars), NEW c \in Chars, NEW hs, NEW b \in Seq(Chars), NEW len,
           BodyRead(t, hs, b, len)
    PROVE  BodyRead(Append(t, c), hs, Append(b, c), len)
<1> DEFINE u == Append(t, c)
<1>1. HasHead(u) /\ HeadEnd(u) = HeadEnd(t) /\ SubSeq(u, 1, HeadEnd(u)) = SubSeq(t, 1, HeadEnd(t))
    BY HeadStays DEF BodyRead
<1>2. /\ u \in Seq(Chars) /\ Len(u) = Len(t) + 1 /\ Len(t) \in Nat
      /\ \A i \in 1..Len(t) : u[i] = t[i]
    BY AppendedText
<1> HIDE DEF u
<1>3. Head1(u) = Head1(t)
    BY <1>1 DEF Head1
<1>4. NamesIn(u) = NamesIn(t) /\ (AreHeaders(t, hs) => AreHeaders(u, hs))
    BY <1>3 DEF NamesIn, AreHeaders, LastStartOf
<1>5. Len(Append(b, c)) = Len(b) + 1 /\ Len(b) \in Nat
    BY AppendedText
<1>6. IsAt(u, 1, <<"POST", "sp">>)
    <2>1. 2 <= Len(t) /\ t[1] = "POST" /\ t[2] = "sp"
        BY TwoAt DEF BodyRead
    <2>2. 2 <= Len(u) /\ u[1] = "POST" /\ u[2] = "sp"
        BY <1>2, <2>1
    <2> QED BY <1>2, <2>2, TwoAt
<1>7. BodyRead(u, hs, Append(b, c), len)
    BY <1>1, <1>2, <1>4, <1>5, <1>6 DEF BodyRead
<1> QED BY <1>7 DEF u

------------------------------------------------------------------------------
(* The invariant of the parser.                                            *)

Typed ==
    /\ wire \in Seq(Chars) /\ pos \in Nat /\ pos <= Len(wire)
    /\ name \in Seq(Token) /\ value \in Seq(Chars) /\ body \in Seq(Chars)

HeadRead ==
    verdict = "more" /\ state # "reading_body" =>
        /\ Marks(Read, state) /\ MethodRead(Read, state, method)
        /\ LineRead(Read, state, headers, name, value)
        /\ HeadersRead(Read, state, headers, name, value)
        /\ body = <<>>

IInv ==
    /\ Typed /\ HeadRead
    /\ verdict = "more" /\ state = "reading_body" => BodyRead(Read, headers, body, length)
    /\ EndsWhereItSays

LEMMA ReadGrows ==
    ASSUME Typed, Consumes, wire' = wire
    PROVE  /\ Read \in Seq(Chars) /\ Len(Read) = pos /\ input \in Chars
           /\ Read' = Append(Read, input) /\ pos' \in Nat /\ pos' <= Len(wire')
<1>1. wire \in Seq(Chars) /\ pos \in Nat /\ pos < Len(wire) /\ pos' = pos + 1 /\ Len(wire) \in Nat
    BY LenProperties DEF Typed, Consumes
<1>2. \A i \in 1..(pos + 1) : wire[i] \in Chars
    BY <1>1
<1> DEFINE t == SubSeq(wire, 1, pos)
           u == SubSeq(wire, 1, pos + 1)
<1>3. t \in Seq(Chars) /\ Len(t) = pos /\ \A i \in 1..pos : t[i] = wire[i]
    <2>1. \A i \in 1..pos : wire[i] \in Chars
        BY <1>1, <1>2
    <2>2. /\ t \in Seq(Chars)
          /\ Len(t) = IF 1 <= pos THEN pos - 1 + 1 ELSE 0
          /\ \A i \in 1..(pos - 1 + 1) : t[i] = wire[1 + i - 1]
        BY <1>1, <2>1, SubSeqProperties
    <2> HIDE DEF t
    <2> QED BY <1>1, <2>2
<1>4. input \in Chars
    BY <1>1, <1>2 DEF input
<1>5. u = Append(t, input)
    <2>1. 1 \in 1..Len(wire) /\ pos + 1 \in 1..Len(wire) /\ (pos + 1) - 1 = pos
        BY <1>1
    <2>2. u = SubSeq(wire, 1, (pos + 1) - 1) \o <<wire[pos + 1]>>
        BY <1>1, <2>1, SubSeqRecursiveSecond
    <2>3. u = t \o <<input>>
        BY <2>1, <2>2 DEF input
    <2> HIDE DEF t, u
    <2> QED BY <1>3, <1>4, <2>3, AppendIsConcat
<1>6. Read = t /\ Read' = u
    BY <1>1 DEF Read
<1> QED BY <1>1, <1>3, <1>4, <1>5, <1>6

LEMMA InitOK ==
    ASSUME Init PROVE IInv
<1>1. wire \in Seq(Chars)
    BY RequestTexts DEF Init
<1>2. Typed
    BY <1>1, LenProperties DEF Init, Typed
<1>3. Read = <<>>
    BY SubSeqEmpty DEF Init, Read
<1>4. <<>> \in Seq(Chars) /\ Len(<<>>) = 0
    OBVIOUS
<1>5. Marks(<<>>, "method_start")
    <2>1. ~InFold(<<>>, 0)
        BY DEF InFold
    <2>2. ~HasHead(<<>>)
        BY DEF HasHead
    <2> QED BY <1>4, <2>1, <2>2 DEF Marks, EndsCrlf, EndsCrlfCr
<1>6. MethodRead(<<>>, "method_start", <<>>)
    BY DEF MethodRead
<1>7. LineRead(<<>>, "method_start", <<>>, <<>>, <<>>)
    <2>1. Unfolded(<<>>) = <<>>
        BY <1>4, KeptUnfolds
    <2>2. \A i \in 1..(Len(<<>>) - 1) : FALSE
        BY <1>4
    <2> QED BY <2>1, <2>2 DEF LineRead
<1>8. HeadersRead(<<>>, "method_start", <<>>, <<>>, <<>>)
    BY DEF HeadersRead
<1>9. verdict = "more" /\ state = "method_start" /\ method = <<>> /\ headers = <<>>
      /\ name = <<>> /\ value = <<>> /\ body = <<>>
    BY DEF Init
<1>10. HeadRead
    BY <1>3, <1>5, <1>6, <1>7, <1>8, <1>9 DEF HeadRead
<1> QED BY <1>2, <1>9, <1>10 DEF IInv, EndsWhereItSays

\* What has been read does not change with what is still to come.
LEMMA GarbleOK ==
    ASSUME IInv, Garble PROVE IInv'
<1> DEFINE t == SubSeq(wire, 1, pos)
           rest == SubSeq(wire, pos + 2, Len(wire))
<1>1. wire \in Seq(Chars) /\ pos \in Nat /\ pos < Len(wire) /\ Len(wire) \in Nat
    BY LenProperties DEF IInv, Typed, Garble
<1>2. \A i \in 1..Len(wire) : wire[i] \in Chars
    BY <1>1
<1>3. t \in Seq(Chars) /\ Len(t) = pos
    BY <1>1, <1>2, SubSeqProperties
<1>4. rest \in Seq(Chars)
    <2>1. \A i \in (pos + 2)..Len(wire) : wire[i] \in Chars
        BY <1>1, <1>2
    <2> QED BY <1>1, <2>1, SubSeqProperties
<1>5. PICK there \in {<<>>, <<wire[pos + 1], wire[pos + 1]>>} \cup {<<c>> : c \in Noise} :
         wire' = t \o there \o rest
    BY DEF Garble
<1>6. there \in Seq(Chars)
    <2>1. wire[pos + 1] \in Chars
        BY <1>1, <1>2
    <2>2. CASE there = <<>>
        BY <2>2
    <2>3. CASE there = <<wire[pos + 1], wire[pos + 1]>>
        BY <2>1, <2>3
    <2>4. CASE there \in {<<c>> : c \in Noise}
        <3>1. PICK c \in Noise : there = <<c>>
            BY <2>4
        <3>2. c \in Chars
            BY NoiseIsChars
        <3> QED BY <3>1, <3>2
    <2> QED BY <1>5, <2>2, <2>3, <2>4
<1> HIDE DEF t, rest
<1> DEFINE z == there \o rest
<1>7. wire' = t \o z /\ z \in Seq(Chars)
    <2>1. there \o rest \in Seq(Chars)
        BY <1>4, <1>6, ConcatProperties
    <2>2. (t \o there) \o rest = t \o (there \o rest)
        BY <1>3, <1>4, <1>6, ConcatAssociative
    <2> QED BY <1>5, <2>1, <2>2 DEF z
<1> HIDE DEF z
<1>8. wire' \in Seq(Chars) /\ Len(wire') = pos + Len(z) /\ Len(z) \in Nat
    BY <1>3, <1>7, ConcatProperties, LenProperties
<1>9. SubSeq(t \o z, 1, pos) = t
    <2>1. CASE pos = 0
        <3>1. t = <<>>
            BY <1>3, <2>1, EmptySeq
        <3>2. SubSeq(t \o z, 1, pos) = <<>>
            BY <1>1, <2>1, SubSeqEmpty
        <3> QED BY <3>1, <3>2
    <2>2. CASE pos # 0
        <3>1. 1 \in 1..Len(t) /\ pos \in 1..Len(t)
            BY <1>1, <1>3, <2>2
        <3>2. SubSeq(t \o z, 1, pos) = SubSeq(t, 1, pos)
            BY <1>3, <1>7, <3>1, SubSeqOfConcat1
        <3> QED BY <1>3, <3>2, SubSeqFull
    <2> QED BY <2>1, <2>2
<1>10. pos' = pos
    BY DEF Garble
<1>11. Read' = Read
    BY <1>7, <1>9, <1>10 DEF Read, t
<1>12. /\ verdict' = verdict /\ state' = state /\ method' = method /\ headers' = headers
       /\ body' = body /\ name' = name /\ value' = value /\ length' = length
    BY DEF Garble, line, current
<1>13. Typed'
    BY <1>1, <1>8, <1>10, <1>12 DEF IInv, Typed
<1>14. HeadRead' /\ EndsWhereItSays'
    BY <1>10, <1>11, <1>12 DEF IInv, HeadRead, EndsWhereItSays
<1>15. verdict' = "more" /\ state' = "reading_body" => BodyRead(Read', headers', body', length')
    BY <1>11, <1>12 DEF IInv
<1> QED BY <1>13, <1>14, <1>15 DEF IInv

LEMMA MoveOK ==
    ASSUME IInv, Move PROVE IInv'
<1> DEFINE t == Read
           c == input
<1>1. PICK m \in Moves :
        /\ Consumes /\ state = m[1] /\ c \in m[2] /\ state' = m[3]
        /\ method' = IF m[3] = "method" THEN Append(method, c) ELSE method
        /\ name' = IF m[3] = "header_name" THEN Append(name, c) ELSE name
        /\ value' = IF m[3] = "header_value" /\ ~(m[1] = "space_before_header_value" /\ c = "sp")
                    THEN Append(value, c) ELSE value
        /\ UNCHANGED <<client, verdict, headers, body, length, final>>
    BY DEF Move
<1>2. wire' = wire /\ verdict' = verdict /\ verdict = "more" /\ headers' = headers /\ body' = body
    BY <1>1 DEF client, Consumes
<1>3. Typed
    BY DEF IInv
<1>4. t \in Seq(Chars) /\ c \in Chars /\ Read' = Append(t, c) /\ pos' \in Nat /\ pos' <= Len(wire')
    BY <1>1, <1>2, <1>3, ReadGrows
<1>5. Leads(state, c, state')
    BY <1>1 DEF Leads
<1>6. state # "reading_body" /\ state' # "reading_body"
    BY <1>1 DEF Moves
<1>7. /\ Marks(t, state) /\ MethodRead(t, state, method)
      /\ LineRead(t, state, headers, name, value)
      /\ HeadersRead(t, state, headers, name, value) /\ body = <<>>
    BY <1>2, <1>6 DEF IInv, HeadRead
<1> HIDE DEF t, c
<1>8. Typed'
    <2>1. m[3] = "header_name" => c \in Token
        BY <1>1 DEF Moves
    <2>2. name' \in Seq(Token)
        BY <1>1, <1>3, <2>1, AppendProperties DEF Typed
    <2>3. value' \in Seq(Chars)
        BY <1>1, <1>3, <1>4, AppendProperties DEF Typed
    <2> QED BY <1>2, <1>3, <1>4, <2>2, <2>3 DEF Typed
<1>9. Marks(Read', state')
    BY <1>4, <1>5, <1>7, MarksKept
<1>10. MethodRead(Read', state', method')
    <2>1. MethodRead(Append(t, c), state', IF state' = "method" THEN Append(method, c) ELSE method)
        BY <1>4, <1>5, <1>7, MethodKept
    <2> QED BY <1>1, <1>4, <2>1
<1>11. ASSUME state' \in RequestLine
       PROVE  /\ LineRead(Read', state', headers', name', value')
              /\ HeadersRead(Read', state', headers', name', value')
    <2>1. state \in RequestLine
        BY <1>4, <1>5, <1>11, LeadsFacts
    <2>2. headers = <<>> /\ name = <<>> /\ value = <<>>
        BY <1>7, <2>1 DEF LineRead
    <2>3. name' = name /\ value' = value
        BY <1>1, <1>11 DEF RequestLine
    <2>4. LineRead(t, state, <<>>, <<>>, <<>>)
        BY <1>7, <2>2
    <2>5. LineRead(Append(t, c), state', <<>>, <<>>, <<>>)
        BY <1>4, <1>5, <1>7, <1>11, <2>1, <2>4, LineKept
    <2>6. HeadersRead(Read', state', headers', name', value')
        BY <1>11 DEF HeadersRead, RequestLine
    <2> QED BY <1>2, <1>4, <2>2, <2>3, <2>5, <2>6
<1>12. ASSUME state' \notin RequestLine
       PROVE  /\ LineRead(Read', state', headers', name', value')
              /\ HeadersRead(Read', state', headers', name', value')
    <2>1. state # "header_line_start" \/ c = "cr"
        BY <1>1 DEF Moves
    <2>2. name \in Seq(Token) /\ value \in Seq(Chars)
        BY <1>3 DEF Typed
    <2>3. HeadersRead(Append(t, c), state', headers,
                      IF state' = "header_name" THEN Append(name, c) ELSE name,
                      IF state' = "header_value" /\ ~(state = "space_before_header_value" /\ c = "sp")
                      THEN Append(value, c) ELSE value)
        BY <1>4, <1>5, <1>7, <1>12, <2>1, <2>2, HeadersKept
    <2>4. HeadersRead(Read', state', headers', name', value')
        BY <1>1, <1>2, <1>4, <2>3
    <2> QED BY <1>12, <2>4 DEF LineRead
<1>13. HeadRead'
    BY <1>2, <1>7, <1>9, <1>10, <1>11, <1>12 DEF HeadRead
<1>14. EndsWhereItSays'
    BY <1>2 DEF EndsWhereItSays
<1> QED BY <1>2, <1>6, <1>8, <1>13, <1>14 DEF IInv

\* The line that starts a header stores the one before it.
LEMMA StartHeaderOK ==
    ASSUME IInv, StartHeader PROVE IInv'
<1> DEFINE t == Read
           c == input
<1>1. /\ Consumes /\ state = "header_line_start" /\ c \in Token
      /\ headers' = (IF name = <<>> THEN headers ELSE Stored)
      /\ name' = <<c>> /\ value' = <<>> /\ state' = "header_name"
      /\ wire' = wire /\ verdict' = verdict /\ verdict = "more" /\ method' = method /\ body' = body
    BY DEF StartHeader, Consumes, client, line
<1>2. Typed
    BY DEF IInv
<1>3. t \in Seq(Chars) /\ c \in Chars /\ Read' = Append(t, c) /\ pos' \in Nat /\ pos' <= Len(wire')
    BY <1>1, <1>2, ReadGrows
<1>4. /\ Marks(t, "header_line_start") /\ MethodRead(t, "header_line_start", method)
      /\ HeadersRead(t, "header_line_start", headers, name, value) /\ body = <<>>
    BY <1>1 DEF IInv, HeadRead
<1>5. Stored = With(headers, name, value)
    BY DEF Stored, With
<1> HIDE DEF t, c
<1>6. Leads("header_line_start", c, "header_name")
    BY <1>1 DEF Leads
<1>7. Typed'
    <2>1. <<c>> \in Seq(Token) /\ <<>> \in Seq(Chars)
        BY <1>1
    <2> QED BY <1>1, <1>2, <1>3, <2>1 DEF Typed
<1>8. Marks(Read', state')
    BY <1>1, <1>3, <1>4, <1>6, MarksKept
<1>9. MethodRead(Read', state', method')
    <2>1. MethodRead(Append(t, c), "header_name",
                     IF "header_name" = "method" THEN Append(method, c) ELSE method)
        BY <1>3, <1>4, <1>6, MethodKept
    <2> QED BY <1>1, <1>3, <2>1
<1>10. HeadersRead(Read', state', headers', name', value')
    <2>1. HeadersRead(Append(t, c), "header_name",
                      IF name = <<>> THEN headers ELSE With(headers, name, value), <<c>>, <<>>)
        BY <1>1, <1>3, <1>4, HeaderStarted
    <2> QED BY <1>1, <1>3, <1>5, <2>1
<1>11. LineRead(Read', state', headers', name', value')
    BY <1>1 DEF LineRead, RequestLine
<1>12. HeadRead'
    BY <1>1, <1>4, <1>8, <1>9, <1>10, <1>11 DEF HeadRead
<1>13. EndsWhereItSays'
    BY <1>1 DEF EndsWhereItSays
<1> QED BY <1>1, <1>7, <1>12, <1>13 DEF IInv

\* A line that continues a header is taken off the text again by what unfolds it.
LEMMA FoldHeaderOK ==
    ASSUME IInv, FoldHeader PROVE IInv'
<1> DEFINE t == Read
           c == input
<1>1. /\ Consumes /\ state = "header_line_start" /\ c \in Blanks /\ headers # <<>>
      /\ headers' = headers /\ name' = name /\ value' = value /\ state' = "header_lws"
      /\ wire' = wire /\ verdict' = verdict /\ verdict = "more" /\ method' = method /\ body' = body
    BY DEF FoldHeader, Consumes, client, line, current
<1>2. Typed
    BY DEF IInv
<1>3. t \in Seq(Chars) /\ c \in Chars /\ Read' = Append(t, c) /\ pos' \in Nat /\ pos' <= Len(wire')
    BY <1>1, <1>2, ReadGrows
<1>4. /\ Marks(t, "header_line_start") /\ MethodRead(t, "header_line_start", method)
      /\ HeadersRead(t, "header_line_start", headers, name, value) /\ body = <<>>
    BY <1>1 DEF IInv, HeadRead
<1> HIDE DEF t, c
<1>5. Leads("header_line_start", c, "header_lws")
    BY <1>1 DEF Leads
<1>6. Typed'
    BY <1>1, <1>2, <1>3 DEF Typed
<1>7. Marks(Read', state')
    BY <1>1, <1>3, <1>4, <1>5, MarksKept
<1>8. MethodRead(Read', state', method')
    <2>1. MethodRead(Append(t, c), "header_lws",
                     IF "header_lws" = "method" THEN Append(method, c) ELSE method)
        BY <1>3, <1>4, <1>5, MethodKept
    <2> QED BY <1>1, <1>3, <2>1
<1>9. HeadersRead(Read', state', headers', name', value')
    <2>1. HeadersRead(Append(t, c), "header_lws", headers, name, value)
        BY <1>1, <1>3, <1>4, HeaderFolded
    <2> QED BY <1>1, <1>3, <2>1
<1>10. LineRead(Read', state', headers', name', value')
    BY <1>1 DEF LineRead, RequestLine
<1>11. HeadRead'
    BY <1>1, <1>4, <1>7, <1>8, <1>9, <1>10 DEF HeadRead
<1>12. EndsWhereItSays'
    BY <1>1 DEF EndsWhereItSays
<1> QED BY <1>1, <1>6, <1>11, <1>12 DEF IInv

\* The text ends where the length among its headers says.
Ended(t, hs) ==
    /\ AreHeaders(t, hs)
    /\ Len(t) = HeadEnd(t) + IF IsAt(t, 1, <<"POST", "sp">>) /\ <<"LENGTH">> \in NamesIn(t)
                             THEN Number(hs[<<"LENGTH">>]) ELSE 0

\* The head ends: the request does, or its body starts.
LEMMA EndHeadersOK ==
    ASSUME IInv, EndHeaders PROVE IInv'
<1> DEFINE t == Read
           u == Append(t, "lf")
           said == Header(headers', "LENGTH")
           needed == method = <<"POST">> /\ <<"LENGTH">> \in DOMAIN headers'
<1>1. /\ Consumes /\ state = "expecting_newline_3" /\ input = "lf"
      /\ headers' = Stored /\ name' = <<>> /\ value' = <<>> /\ body' = body
      /\ wire' = wire /\ verdict = "more"
      /\ length' = (IF needed /\ IsNumber(said) THEN Number(said) ELSE 0)
      /\ verdict' = (IF needed /\ ~IsNumber(said) THEN "throws"
                     ELSE IF length' = 0 THEN "complete" ELSE "more")
      /\ state' = (IF verdict' = "more" THEN "reading_body" ELSE state)
    BY DEF EndHeaders, Consumes, Ends, client
<1>2. Typed
    BY DEF IInv
<1>3. /\ t \in Seq(Chars) /\ Read' = u /\ pos' \in Nat /\ pos' <= Len(wire')
      /\ Len(t) = pos /\ pos' = pos + 1
    BY <1>1, <1>2, ReadGrows DEF Consumes
<1>4. /\ Marks(t, "expecting_newline_3") /\ MethodRead(t, "expecting_newline_3", method)
      /\ HeadersRead(t, "expecting_newline_3", headers, name, value) /\ body = <<>>
    BY <1>1 DEF IInv, HeadRead
<1>5. Stored = With(headers, name, value)
    BY DEF Stored, With
<1> HIDE DEF t
<1>6. HasHead(u) /\ HeadEnd(u) = Len(u) /\ AreHeaders(u, headers')
    BY <1>1, <1>3, <1>4, <1>5, HeadersEnd
<1>7. /\ u \in Seq(Chars) /\ Len(u) = Len(t) + 1 /\ Len(t) \in Nat
      /\ \A i \in 1..Len(t) : u[i] = t[i]
    BY <1>3, TokenFacts, AppendedText
<1>8. IsAt(u, 1, <<"POST", "sp">>) <=> method = <<"POST">>
    <2>1. Len(method) < Len(u) /\ u[Len(method) + 1] = "sp"
          /\ \A i \in 1..Len(method) : u[i] = method[i]
        <3>1. /\ method \in Seq(Token) /\ Len(method) \in Nat
              /\ Len(method) < Len(t) /\ t[Len(method) + 1] = "sp"
              /\ \A i \in 1..Len(method) : t[i] = method[i]
            BY <1>4, LenProperties DEF MethodRead
        <3>2. Len(method) + 1 \in 1..Len(t) /\ \A i \in 1..Len(method) : i \in 1..Len(t)
            BY <1>7, <3>1
        <3> HIDE DEF u
        <3> QED BY <1>7, <3>1, <3>2
    <2>2. method \in Seq(Token)
        BY <1>4 DEF MethodRead
    <2> HIDE DEF u
    <2>3. MethodRead(u, "expecting_newline_3", method)
        BY <2>1, <2>2 DEF MethodRead
    <2> QED BY <1>7, <2>3, IsPost
<1> HIDE DEF u
<1>9. <<"LENGTH">> \in NamesIn(u) <=> <<"LENGTH">> \in DOMAIN headers'
    <2>1. <<"LENGTH">> # <<>>
        OBVIOUS
    <2>2. DOMAIN headers' = IF NamesIn(u) = {} THEN {<<>>} ELSE NamesIn(u)
        BY <1>6 DEF AreHeaders
    <2> QED BY <2>1, <2>2
<1>10. needed <=> IsAt(u, 1, <<"POST", "sp">>) /\ <<"LENGTH">> \in NamesIn(u)
    BY <1>8, <1>9
<1>11. needed => said = headers'[<<"LENGTH">>]
    BY DEF Header
<1> HIDE DEF needed, said
<1>12. Typed'
    <2>1. <<>> \in Seq(Token) /\ <<>> \in Seq(Chars)
        OBVIOUS
    <2> QED BY <1>1, <1>2, <1>3, <2>1 DEF Typed
<1>13. verdict' = "complete" => Ended(u, headers')
    BY <1>1, <1>6, <1>7, <1>10, <1>11 DEF Ended
<1>14. EndsWhereItSays'
    <2>1. pos' = Len(u)
        BY <1>3, <1>7
    <2> QED BY <1>3, <1>13, <2>1
            DEF Ended, EndsWhereItSays, AreHeaders, NamesIn, Head1, LastStartOf
<1>15. verdict' = "more" => BodyRead(u, headers', body', length')
    <2>1. ASSUME verdict' = "more" PROVE needed /\ IsNumber(said) /\ length' = Number(said)
        BY <1>1, <2>1
    <2>2. Len(u) = HeadEnd(u) + Len(body') /\ HeadEnd(u) \in Nat
        BY <1>1, <1>4, <1>6, <1>7
    <2> QED BY <1>6, <1>10, <1>11, <2>1, <2>2 DEF BodyRead
<1>16. HeadRead'
    BY <1>1 DEF HeadRead
<1> QED BY <1>1, <1>3, <1>12, <1>14, <1>15, <1>16 DEF IInv

LEMMA ReadBodyOK ==
    ASSUME IInv, ReadBody PROVE IInv'
<1> DEFINE t == Read
           c == input
           u == Append(t, c)
<1>1. /\ Consumes /\ state = "reading_body" /\ body' = Append(body, c)
      /\ verdict' = (IF Len(body') = length THEN "complete" ELSE "more")
      /\ headers' = headers /\ name' = name /\ value' = value /\ state' = state
      /\ length' = length /\ wire' = wire /\ verdict = "more"
    BY DEF ReadBody, Consumes, Ends, client, current
<1>2. Typed
    BY DEF IInv
<1>3. /\ t \in Seq(Chars) /\ c \in Chars /\ Read' = u /\ pos' \in Nat /\ pos' <= Len(wire')
      /\ Len(t) = pos /\ pos' = pos + 1
    BY <1>1, <1>2, ReadGrows DEF Consumes
<1>4. BodyRead(t, headers, body, length)
    BY <1>1 DEF IInv
<1> HIDE DEF t, c
<1>5. body \in Seq(Chars) /\ body' \in Seq(Chars)
    BY <1>1, <1>2, <1>3, AppendProperties DEF Typed
<1>6. BodyRead(u, headers', body', length')
    BY <1>1, <1>3, <1>4, <1>5, BodyKept
<1>7. Typed'
    BY <1>1, <1>2, <1>3, <1>5 DEF Typed
<1>8. pos' = Len(u)
    BY <1>3, AppendedText
<1> HIDE DEF u
<1>9. verdict' = "complete" => Ended(u, headers')
    BY <1>1, <1>6 DEF Ended, BodyRead
<1>10. EndsWhereItSays'
    BY <1>3, <1>8, <1>9 DEF Ended, EndsWhereItSays, AreHeaders, NamesIn, Head1, LastStartOf
<1>11. HeadRead'
    BY <1>1 DEF HeadRead
<1> QED BY <1>3, <1>6, <1>7, <1>10, <1>11 DEF IInv

LEMMA RefuseOK ==
    ASSUME IInv, Refuse PROVE IInv'
<1>1. /\ Consumes /\ wire' = wire /\ verdict' = "refused"
      /\ name' = name /\ value' = value /\ body' = body
    BY DEF Refuse, client, current
<1>2. pos' \in Nat /\ pos' <= Len(wire')
    BY <1>1, ReadGrows DEF IInv
<1>3. Typed'
    BY <1>1, <1>2 DEF IInv, Typed
<1> QED BY <1>1, <1>3 DEF IInv, HeadRead, EndsWhereItSays

LEMMA StutterOK ==
    ASSUME IInv, UNCHANGED vars PROVE IInv'
<1>1. /\ wire' = wire /\ pos' = pos /\ state' = state /\ verdict' = verdict /\ method' = method
      /\ headers' = headers /\ body' = body /\ name' = name /\ value' = value /\ length' = length
    BY DEF vars, client, line, current
<1>2. Read' = Read
    BY <1>1 DEF Read
<1>3. Typed'
    BY <1>1 DEF IInv, Typed
<1>4. HeadRead' /\ EndsWhereItSays'
    BY <1>1, <1>2 DEF IInv, HeadRead, EndsWhereItSays
<1> QED BY <1>1, <1>2, <1>3, <1>4 DEF IInv

------------------------------------------------------------------------------
(* The theorem.                                                            *)

LEMMA Invariant == Spec => []IInv
<1>1. Init => IInv
    BY InitOK
<1>2. IInv /\ [Next]_vars => IInv'
    <2>1. SUFFICES ASSUME IInv, [Next]_vars PROVE IInv'
        OBVIOUS
    <2> QED BY <2>1, GarbleOK, MoveOK, StartHeaderOK, FoldHeaderOK, EndHeadersOK, ReadBodyOK,
               RefuseOK, StutterOK DEF Next
<1> QED BY <1>1, <1>2, PTL DEF Spec

\* Whatever arrives, lost, doubled and changed characters included: when consume
\* calls a request complete, its headers are exactly those that the lines of the
\* text have once they are unfolded, the last line of a name counting, and the body
\* it read is as long as the Content-Length among them says.
THEOREM EndsWhereItSaysEver == Spec => []EndsWhereItSays
<1>1. IInv => EndsWhereItSays
    BY DEF IInv
<1> QED BY <1>1, Invariant, PTL

------------------------------------------------------------------------------
(* Induction over sequences, from either end.                              *)

LEMMA InductiveSeq ==
    ASSUME NEW T, NEW G, <<>> \in G, \A s \in Seq(T) : s \in G => \A c \in T : Append(s, c) \in G
    PROVE  \A s \in Seq(T) : s \in G
<1> DEFINE N == {n \in Nat : \A s \in Seq(T) : Len(s) = n => s \in G}
<1>1. 0 \in N
    BY EmptySeq
<1>2. ASSUME NEW n \in Nat, n \in N PROVE n + 1 \in N
    <2>1. SUFFICES ASSUME NEW s \in Seq(T), Len(s) = n + 1 PROVE s \in G
        OBVIOUS
    <2>2. s # <<>>
        BY <2>1
    <2>3. PICK r \in Seq(T), c \in T : s = Append(r, c)
        BY <2>2, SequenceEmptyOrAppend
    <2>4. Len(r) = n
        BY <2>1, <2>3, AppendProperties, LenProperties
    <2>5. r \in G
        BY <1>2, <2>4
    <2> QED BY <2>3, <2>5
<1>3. \A n \in Nat : n \in N
    <2> HIDE DEF N
    <2> QED BY <1>1, <1>2, InductiveSet
<1> QED BY <1>3, LenProperties

IsSplit(s, c, r) == s = <<c>> \o r /\ Len(s) = Len(r) + 1

LEMMA FrontAndRest ==
    ASSUME NEW T, NEW s \in Seq(T), s # <<>>
    PROVE  \E c \in T : \E r \in Seq(T) : IsSplit(s, c, r)
<1> DEFINE r == SubSeq(s, 2, Len(s))
<1>1. Len(s) \in Nat \ {0} /\ \A i \in 1..Len(s) : s[i] \in T
    BY EmptySeq, ElementOfSeq
<1>2. r \in Seq(T) /\ Len(r) = IF 2 <= Len(s) THEN Len(s) - 2 + 1 ELSE 0
    <2>1. \A i \in 2..Len(s) : s[i] \in T
        BY <1>1
    <2>2. 2 \in Int /\ Len(s) \in Int
        BY <1>1
    <2> QED BY <2>1, <2>2, SubSeqProperties
<1>3. s = <<s[1]>> \o r
    <2>1. SubSeq(s, 1, Len(s)) = <<s[1]>> \o SubSeq(s, 1 + 1, Len(s))
        <3>1. 1 \in 1..Len(s) /\ Len(s) \in 1..Len(s)
            BY <1>1
        <3> QED BY <3>1, SubSeqRecursiveFirst
    <2> QED BY <2>1, SubSeqFull
<1> HIDE DEF r
<1>4. s[1] \in T /\ Len(s) = Len(r) + 1
    <2>0. \A n \in Nat \ {0} : 1 \in 1..n /\ (2 <= n \/ n = 1)
        OBVIOUS
    <2>1. 1 \in 1..Len(s) /\ (2 <= Len(s) \/ Len(s) = 1)
        BY <1>1, <2>0
    <2>2. Len(r) + 1 = Len(s)
        BY <1>1, <1>2, <2>1
    <2> QED BY <1>1, <2>1, <2>2
<1> QED BY <1>2, <1>3, <1>4 DEF IsSplit

LEMMA InductiveFront ==
    ASSUME NEW T, NEW G, <<>> \in G, \A s \in Seq(T) : s \in G => \A c \in T : <<c>> \o s \in G
    PROVE  \A s \in Seq(T) : s \in G
<1> DEFINE N == {n \in Nat : \A s \in Seq(T) : Len(s) = n => s \in G}
<1>1. 0 \in N
    BY EmptySeq
<1>2. ASSUME NEW n \in Nat, n \in N PROVE n + 1 \in N
    <2>1. SUFFICES ASSUME NEW s \in Seq(T), Len(s) = n + 1 PROVE s \in G
        OBVIOUS
    <2>2. s # <<>>
        BY <2>1
    <2>3. PICK c \in T, r \in Seq(T) : IsSplit(s, c, r)
        BY <2>2, FrontAndRest
    <2>4. Len(r) = n
        BY <2>1, <2>3, LenProperties DEF IsSplit
    <2>5. r \in G
        BY <1>2, <2>4
    <2> QED BY <2>3, <2>5 DEF IsSplit
<1>3. \A n \in Nat : n \in N
    <2> HIDE DEF N
    <2> QED BY <1>1, <1>2, InductiveSet
<1> QED BY <1>3, LenProperties

------------------------------------------------------------------------------
(* Joining texts.                                                          *)

FlatOf(ps) ==
    LET flatten[i \in 1..Len(ps)] == IF i = 1 THEN ps[i] ELSE flatten[i - 1] \o ps[i]
    IN  flatten

LEMMA FlatUnfolds ==
    ASSUME NEW T, NEW ps \in Seq(Seq(T)), ps # <<>>
    PROVE  /\ FlatOf(ps) \in [1..Len(ps) -> Seq(T)]
           /\ FlatOf(ps)[1] = ps[1]
           /\ \A i \in 2..Len(ps) : FlatOf(ps)[i] = FlatOf(ps)[i - 1] \o ps[i]
           /\ Joined(ps) = FlatOf(ps)[Len(ps)]
<1> DEFINE m == Len(ps)
           X == Seq(T)
           step == [p \in (1..m) \X X |-> p[2] \o ps[p[1]]]
           Value(f, i) == IF i = 1 THEN ps[i] ELSE f[i - 1] \o ps[i]
           Def(f) == f = [i \in 1..m |-> Value(f, i)]
<1>1. m \in Nat \ {0} /\ <<>> \in X /\ \A i \in 1..m : ps[i] \in X
    BY EmptySeq, ElementOfSeq
<1>2. step \in [(1..m) \X X -> X]
    <2>1. ASSUME NEW p \in (1..m) \X X PROVE p[2] \o ps[p[1]] \in X
        <3>1. ps[p[1]] \in Seq(T) /\ p[2] \in Seq(T)
            BY <1>1
        <3> QED BY <3>1, ConcatProperties
    <2> QED BY <2>1
<1>3. PICK f \in [0..m -> X] : IsRecursive(f, <<>>, step, m)
    <2> HIDE DEF m, X, step
    <2> QED BY <1>1, <1>2, Recursion
<1>4. f[0] = <<>> /\ \A i \in 1..m : f[i] = f[i - 1] \o ps[i] /\ f[i - 1] \in X
    <2>1. ASSUME NEW i \in 1..m PROVE f[i] = f[i - 1] \o ps[i] /\ f[i - 1] \in X
        <3>1. i - 1 \in 0..m
            BY <1>1
        <3>2. f[i - 1] \in X
            <4> HIDE DEF X
            <4> QED BY <1>3, <3>1
        <3>3. <<i, f[i - 1]>> \in (1..m) \X X
            BY <3>2
        <3>4. f[i] = step[<<i, f[i - 1]>>]
            BY <1>3 DEF IsRecursive
        <3> QED BY <3>2, <3>3, <3>4
    <2> QED BY <1>3, <2>1 DEF IsRecursive
<1> DEFINE g == [i \in 1..m |-> f[i]]
<1>5. Def(g)
    <2>1. ASSUME NEW i \in 1..m PROVE g[i] = Value(g, i)
        <3>1. CASE i = 1
            <4>0. 1 \in 1..m /\ 1 - 1 = 0
                BY <1>1
            <4>1. f[1] = <<>> \o ps[1] /\ ps[1] \in X
                <5> HIDE DEF X, m
                <5> QED BY <1>1, <1>4, <4>0
            <4> QED BY <3>1, <4>1, ConcatEmptySeq
        <3>2. CASE i # 1
            <4>1. i - 1 \in 1..m
                BY <1>1, <3>2
            <4> QED BY <1>4, <3>2, <4>1
        <3> QED BY <3>1, <3>2
    <2> HIDE DEF Value
    <2> QED BY <2>1
<1> DEFINE k == FlatOf(ps)
<1>6. k = CHOOSE h : Def(h)
    BY DEF FlatOf
<1>7. Def(k)
    <2> HIDE DEF Def, k, g
    <2> QED BY <1>5, <1>6
<1>8. k[1] = ps[1] /\ \A i \in 2..m : k[i] = k[i - 1] \o ps[i]
    <2> HIDE DEF k
    <2>1. \A i \in 1..m : k[i] = Value(k, i)
        BY <1>7
    <2>2. 1 \in 1..m /\ \A i \in 2..m : i \in 1..m /\ i # 1
        BY <1>1
    <2> QED BY <2>1, <2>2
<1>9. \A n \in Nat : n + 1 <= m => k[n + 1] \in X
    <2> DEFINE Good == {n \in Nat : n + 1 <= m => k[n + 1] \in X}
    <2>1. 0 \in Good
        BY <1>1, <1>8
    <2>2. ASSUME NEW n \in Nat, n \in Good PROVE n + 1 \in Good
        <3>1. SUFFICES ASSUME (n + 1) + 1 <= m PROVE k[(n + 1) + 1] \in X
            OBVIOUS
        <3>2. k[n + 1] \in X /\ ps[(n + 1) + 1] \in X
            BY <1>1, <2>2, <3>1
        <3>3. k[(n + 1) + 1] = k[n + 1] \o ps[(n + 1) + 1]
            <4>1. (n + 1) + 1 \in 2..m /\ ((n + 1) + 1) - 1 = n + 1
                BY <1>1, <3>1
            <4> HIDE DEF k
            <4> QED BY <1>8, <4>1
        <3> HIDE DEF k
        <3> QED BY <3>2, <3>3, ConcatProperties
    <2>3. \A n \in Nat : n \in Good
        <3> HIDE DEF Good
        <3> QED BY <2>1, <2>2, InductiveSet
    <2> QED BY <2>3
<1>10. k \in [1..m -> X]
    <2> HIDE DEF k, X, Value
    <2>1. ASSUME NEW i \in 1..m PROVE k[i] \in X
        <3>1. PICK n \in Nat : i = n + 1
            <4>1. i - 1 \in Nat /\ i = (i - 1) + 1
                BY <1>1
            <4> QED BY <4>1
        <3> HIDE DEF m
        <3>2. n + 1 <= m
            BY <1>1, <3>1
        <3> QED BY <1>9, <3>1, <3>2
    <2> QED BY <1>7, <2>1
<1>11. Joined(ps) = k[m]
    BY <1>1 DEF Joined, FlattenSeq, FlatOf
<1> QED BY <1>8, <1>10, <1>11

LEMMA JoinedText ==
    ASSUME NEW T, NEW ps \in Seq(Seq(T))
    PROVE  Joined(ps) \in Seq(T) /\ Joined(<<>>) = <<>>
<1>1. Joined(<<>>) = <<>>
    BY DEF Joined, FlattenSeq
<1>2. CASE ps # <<>>
    <2>1. Len(ps) \in 1..Len(ps)
        BY <1>2, EmptySeq
    <2>2. FlatOf(ps) \in [1..Len(ps) -> Seq(T)] /\ Joined(ps) = FlatOf(ps)[Len(ps)]
        BY <1>2, FlatUnfolds
    <2> QED BY <1>1, <2>1, <2>2
<1> QED BY <1>1, <1>2

LEMMA JoinedAppend ==
    ASSUME NEW T, NEW ps \in Seq(Seq(T)), NEW a \in Seq(T)
    PROVE  Joined(Append(ps, a)) = Joined(ps) \o a
<1> DEFINE qs == Append(ps, a)
           m == Len(ps)
<1>1. /\ qs \in Seq(Seq(T)) /\ qs # <<>> /\ Len(qs) = m + 1 /\ m \in Nat
      /\ \A i \in 1..m : qs[i] = ps[i]
      /\ qs[m + 1] = a
    BY AppendProperties, LenProperties
<1> HIDE DEF qs
<1>2. /\ FlatOf(qs)[1] = qs[1] /\ Joined(qs) = FlatOf(qs)[m + 1]
      /\ \A i \in 2..(m + 1) : FlatOf(qs)[i] = FlatOf(qs)[i - 1] \o qs[i]
    BY <1>1, FlatUnfolds
<1>3. CASE ps = <<>>
    <2>1. Joined(ps) = <<>> /\ m = 0
        BY <1>3, JoinedText
    <2>2. Joined(qs) = a
        BY <1>1, <1>2, <2>1
    <2>3. <<>> \o a = a
        BY ConcatEmptySeq
    <2> QED BY <2>1, <2>2, <2>3 DEF qs
<1>4. CASE ps # <<>>
    <2>1. /\ FlatOf(ps)[1] = ps[1] /\ Joined(ps) = FlatOf(ps)[m]
          /\ \A i \in 2..m : FlatOf(ps)[i] = FlatOf(ps)[i - 1] \o ps[i]
        BY <1>4, FlatUnfolds
    <2>2. m # 0
        BY <1>4, EmptySeq
    <2> DEFINE Same == {n \in Nat : n + 1 <= m => FlatOf(ps)[n + 1] = FlatOf(qs)[n + 1]}
    <2>3. 0 \in Same
        BY <1>1, <1>2, <2>1
    <2>4. ASSUME NEW n \in Nat, n \in Same PROVE n + 1 \in Same
        <3>1. SUFFICES ASSUME (n + 1) + 1 <= m
                       PROVE  FlatOf(ps)[(n + 1) + 1] = FlatOf(qs)[(n + 1) + 1]
            OBVIOUS
        <3>2. /\ (n + 1) + 1 \in 2..m /\ (n + 1) + 1 \in 2..(m + 1) /\ (n + 1) + 1 \in 1..m
              /\ ((n + 1) + 1) - 1 = n + 1 /\ n + 1 <= m
            BY <1>1, <3>1
        <3>3. FlatOf(ps)[n + 1] = FlatOf(qs)[n + 1] /\ qs[(n + 1) + 1] = ps[(n + 1) + 1]
            BY <1>1, <2>4, <3>2
        <3> QED BY <1>2, <2>1, <3>2, <3>3
    <2>5. \A n \in Nat : n \in Same
        <3> HIDE DEF Same
        <3> QED BY <2>3, <2>4, InductiveSet
    <2>6. FlatOf(ps)[m] = FlatOf(qs)[m]
        <3>1. PICK n \in Nat : m = n + 1
            <4>1. m - 1 \in Nat /\ m = (m - 1) + 1
                BY <1>1, <2>2
            <4> QED BY <4>1
        <3> HIDE DEF m
        <3> QED BY <1>1, <2>5, <3>1
    <2>7. m + 1 \in 2..(m + 1) /\ (m + 1) - 1 = m
        BY <1>1, <2>2
    <2>8. FlatOf(qs)[m + 1] = FlatOf(qs)[m] \o qs[m + 1]
        BY <1>2, <2>7
    <2> HIDE DEF m
    <2> QED BY <1>1, <1>2, <2>1, <2>6, <2>8 DEF qs
<1> QED BY <1>3, <1>4

LEMMA JoinedFront ==
    ASSUME NEW T, NEW ps \in Seq(Seq(T)), NEW a \in Seq(T)
    PROVE  Joined(<<a>> \o ps) = a \o Joined(ps)
<1> DEFINE X == Seq(T)
           G == {qs \in Seq(X) : Joined(<<a>> \o qs) = a \o Joined(qs)}
<1>1. <<a>> \in Seq(X) /\ <<>> \in Seq(X) /\ <<a>> \o <<>> = <<a>> /\ a \o <<>> = a
    BY ConcatEmptySeq
<1>2. Joined(<<>>) = <<>> /\ <<a>> = Append(<<>>, a) /\ <<>> \o a = a
    BY JoinedText, ConcatEmptySeq
<1>3. Joined(<<a>>) = a
    <2>1. Joined(Append(<<>>, a)) = Joined(<<>>) \o a
        BY <1>1, JoinedAppend
    <2> QED BY <1>2, <2>1
<1>4. <<>> \in G
    BY <1>1, <1>2, <1>3
<1>5. ASSUME NEW qs \in Seq(X), qs \in G, NEW b \in X PROVE Append(qs, b) \in G
    <2>1. <<a>> \o qs \in Seq(X) /\ Append(qs, b) \in Seq(X) /\ <<b>> \in Seq(X)
        BY <1>1, ConcatProperties, AppendProperties
    <2>2. <<a>> \o Append(qs, b) = Append(<<a>> \o qs, b)
        <3>1. Append(qs, b) = qs \o <<b>> /\ Append(<<a>> \o qs, b) = (<<a>> \o qs) \o <<b>>
            BY <2>1, AppendIsConcat
        <3>2. (<<a>> \o qs) \o <<b>> = <<a>> \o (qs \o <<b>>)
            BY <1>1, <2>1, ConcatAssociative
        <3> QED BY <3>1, <3>2
    <2>3. /\ Joined(Append(<<a>> \o qs, b)) = Joined(<<a>> \o qs) \o b
          /\ Joined(Append(qs, b)) = Joined(qs) \o b
        BY <2>1, JoinedAppend
    <2>4. Joined(<<a>> \o qs) = a \o Joined(qs)
        BY <1>5
    <2>a. Joined(qs) \in Seq(T) /\ b \in Seq(T)
        BY JoinedText
    <2>5. (a \o Joined(qs)) \o b = a \o (Joined(qs) \o b)
        <3> DEFINE j == Joined(qs)
        <3>1. j \in Seq(T) /\ b \in Seq(T)
            BY <2>a
        <3> HIDE DEF G, j
        <3>2. (a \o j) \o b = a \o (j \o b)
            BY <3>1, ConcatAssociative
        <3> QED BY <3>2 DEF j
    <2> QED BY <2>1, <2>2, <2>3, <2>4, <2>5
<1>6. ps \in G
    <2> HIDE DEF G
    <2> QED BY <1>4, <1>5, InductiveSeq
<1> QED BY <1>6
------------------------------------------------------------------------------
(* Decoding, from the front.                                               *)

FromAt(s, f, i) ==
    IF i > Len(s) THEN <<>>
    ELSE IF s[i] # "%" THEN <<s[i]>> \o f[i + 1]
    ELSE IF i + 2 <= Len(s) THEN Hex(s[i + 1], s[i + 2]) \o f[i + 3]
    ELSE <<>>
IsFrom(s, f) == f = [i \in 1..(Len(s) + 3) |-> FromAt(s, f, i)]
FromOf(s) == CHOOSE f : IsFrom(s, f)

LEMMA FromOnce ==
    ASSUME NEW s \in Seq(Chars), NEW f, NEW g, IsFrom(s, f), IsFrom(s, g) PROVE f = g
<1> DEFINE m == Len(s)
           Same == {n \in Nat : \A i \in 1..(m + 3) : i > m - n => f[i] = g[i]}
<1>1. m \in Nat
    BY LenProperties
<1>2. \A i \in 1..(m + 3) : f[i] = FromAt(s, f, i) /\ g[i] = FromAt(s, g, i)
    BY DEF IsFrom
<1>3. 0 \in Same
    <2>1. ASSUME NEW i \in 1..(m + 3), i > m PROVE FromAt(s, f, i) = <<>> /\ FromAt(s, g, i) = <<>>
        BY <2>1 DEF FromAt
    <2> HIDE DEF m
    <2> QED BY <1>1, <1>2, <2>1
<1>4. ASSUME NEW n \in Nat, n \in Same PROVE n + 1 \in Same
    <2>1. SUFFICES ASSUME NEW i \in 1..(m + 3), i > m - (n + 1) PROVE f[i] = g[i]
        OBVIOUS
    <2>2. \A j \in 1..(m + 3) : j > m - n => f[j] = g[j]
        BY <1>4
    <2>3. CASE i > m - n
        BY <2>2, <2>3
    <2>4. CASE i = m - n
        <3>1. /\ i <= m => i + 1 \in 1..(m + 3) /\ i + 1 > m - n
              /\ i <= m => i + 3 \in 1..(m + 3) /\ i + 3 > m - n
            BY <1>1, <2>4
        <3>2. i <= m => f[i + 1] = g[i + 1] /\ f[i + 3] = g[i + 3]
            <4> HIDE DEF m
            <4> QED BY <2>2, <3>1
        <3>3. i <= m \/ i > m
            BY <1>1
        <3>4. FromAt(s, f, i) = FromAt(s, g, i)
            BY <3>2, <3>3 DEF FromAt
        <3> QED BY <1>2, <3>4
    <2> QED BY <1>1, <2>1, <2>3, <2>4
<1>5. ASSUME NEW i \in 1..(m + 3) PROVE f[i] = g[i]
    <2>1. m \in Same
        <3> HIDE DEF Same, m
        <3> QED BY <1>1, <1>3, <1>4, InductiveSet
    <2>2. i > m - m
        BY <1>1
    <2> HIDE DEF m
    <2> QED BY <2>1, <2>2
<1>6. f = [i \in 1..(m + 3) |-> f[i]] /\ g = [i \in 1..(m + 3) |-> g[i]]
    BY <1>2 DEF IsFrom
<1> HIDE DEF m
<1> QED BY <1>5, <1>6

LEMMA HexText == ASSUME NEW a, NEW b PROVE Hex(a, b) \in Seq(Chars)
<1>1. "e" \in Chars /\ "o" \in Chars
    BY DEF Chars, Words
<1> QED BY <1>1 DEF Hex

\* What is read from a text does not depend on what comes before.
LEMMA FromLonger ==
    ASSUME NEW c \in Chars, NEW r \in Seq(Chars), NEW g \in [1..(Len(r) + 3) -> Seq(Chars)], IsFrom(r, g)
    PROVE  LET s == <<c>> \o r
           IN  \E f \in [1..(Len(s) + 3) -> Seq(Chars)] :
                  IsFrom(s, f) /\ \A i \in 1..(Len(r) + 3) : f[i + 1] = g[i]
<1> DEFINE s == <<c>> \o r
           n == Len(r)
           first == FromAt(s, [i \in 1..(n + 4) |-> g[i - 1]], 1)
           f == [i \in 1..(n + 4) |-> IF i = 1 THEN first ELSE g[i - 1]]
<1>1. /\ n \in Nat /\ s \in Seq(Chars) /\ Len(s) = n + 1
      /\ s[1] = c /\ \A i \in 1..n : s[i + 1] = r[i]
    <2>1. <<c>> \in Seq(Chars) /\ Len(<<c>>) = 1
        OBVIOUS
    <2>2. /\ s \in Seq(Chars) /\ Len(s) = 1 + Len(r)
          /\ \A i \in 1..(1 + Len(r)) : s[i] = IF i <= 1 THEN <<c>>[i] ELSE r[i - 1]
        BY <2>1, ConcatProperties
    <2>3. Len(r) \in Nat
        BY LenProperties
    <2> HIDE DEF s
    <2>4. s[1] = c
        BY <2>2, <2>3
    <2>5. ASSUME NEW i \in 1..n PROVE s[i + 1] = r[i]
        <3>1. i + 1 \in 1..(1 + Len(r)) /\ ~(i + 1 <= 1) /\ (i + 1) - 1 = i
            BY <2>3
        <3> QED BY <2>2, <3>1
    <2> QED BY <2>2, <2>3, <2>4, <2>5
<1> HIDE DEF s, n
<1>2. \A i \in 1..(n + 3) : g[i] = FromAt(r, g, i) /\ g[i] \in Seq(Chars)
    BY DEF IsFrom, n
<1>3. ASSUME NEW i \in 2..(n + 4) PROVE f[i] = FromAt(s, f, i) /\ f[i] \in Seq(Chars)
    <2>1. PICK j \in 1..(n + 3) : i = j + 1
        <3>1. i - 1 \in 1..(n + 3) /\ i = (i - 1) + 1
            BY <1>1
        <3> QED BY <3>1
    <2>2. f[i] = g[j]
        BY <1>1, <2>1
    <2>3. FromAt(s, f, i) = FromAt(r, g, j)
        <3>1. CASE j > n
            <4>1. i > Len(s)
                BY <1>1, <2>1, <3>1
            <4> HIDE DEF f
            <4> QED BY <3>1, <4>1 DEF FromAt, n
        <3>2. CASE j <= n
            <4>1. s[i] = r[j] /\ ~(i > Len(s)) /\ ~(j > n)
                BY <1>1, <2>1, <3>2
            <4>2. i + 2 <= Len(s) <=> j + 2 <= n
                BY <1>1, <2>1
            <4>3. j + 2 <= n => s[i + 1] = r[j + 1] /\ s[i + 2] = r[j + 2]
                <5>1. j + 2 <= n => /\ j + 1 \in 1..n /\ (j + 1) + 1 = i + 1
                                    /\ j + 2 \in 1..n /\ (j + 2) + 1 = i + 2
                    BY <1>1, <2>1
                <5> QED BY <1>1, <5>1
            <4>4. f[i + 1] = g[j + 1]
                BY <1>1, <2>1, <3>2
            <4>5. f[i + 3] = g[j + 3]
                BY <1>1, <2>1, <3>2
            <4> HIDE DEF f
            <4> QED BY <4>1, <4>2, <4>3, <4>4, <4>5 DEF FromAt, n
        <3> QED BY <1>1, <3>1, <3>2
    <2> HIDE DEF f
    <2> QED BY <1>2, <2>1, <2>2, <2>3
<1>4. f[1] = FromAt(s, f, 1) /\ f[1] \in Seq(Chars)
    <2>1. /\ f[1] = first /\ f[2] = g[1]
          /\ n >= 2 => f[4] = g[3]
        BY <1>1
    <2>2. /\ [i \in 1..(n + 4) |-> g[i - 1]][2] = g[1]
          /\ n >= 2 => [i \in 1..(n + 4) |-> g[i - 1]][4] = g[3]
        BY <1>1
    <2>3. 1 \in 1..(n + 3) /\ 3 \in 1..(n + 3)
        BY <1>1
    <2>4. g[1] \in Seq(Chars) /\ g[3] \in Seq(Chars)
        BY <1>2, <2>3
    <2>5. ~(1 > Len(s)) /\ (1 + 2 <= Len(s) <=> n >= 2)
        BY <1>1
    <2> HIDE DEF f
    <2>6. /\ FromAt(s, f, 1) = IF c # "%" THEN <<c>> \o f[2]
                               ELSE IF n >= 2 THEN Hex(s[2], s[3]) \o f[4] ELSE <<>>
          /\ first = IF c # "%" THEN <<c>> \o g[1]
                     ELSE IF n >= 2 THEN Hex(s[2], s[3]) \o g[3] ELSE <<>>
        BY <1>1, <2>2, <2>5 DEF FromAt
    <2>7. /\ <<c>> \o g[1] \in Seq(Chars)
          /\ Hex(s[2], s[3]) \o g[3] \in Seq(Chars)
        <3>1. <<c>> \in Seq(Chars) /\ Hex(s[2], s[3]) \in Seq(Chars)
            BY HexText
        <3> QED BY <2>4, <3>1, ConcatProperties
    <2>8. <<>> \in Seq(Chars)
        OBVIOUS
    <2> HIDE DEF first
    <2> QED BY <2>1, <2>6, <2>7, <2>8
<1>5. \A i \in 1..(n + 4) : i = 1 \/ i \in 2..(n + 4)
    BY <1>1
<1>6. f = [i \in 1..(n + 4) |-> f[i]]
    OBVIOUS
<1>7. \A i \in 1..(n + 3) : f[i + 1] = g[i]
    BY <1>1
<1>8. (n + 1) + 3 = n + 4
    BY <1>1
<1> HIDE DEF f
<1>9. IsFrom(s, f) /\ f \in [1..(Len(s) + 3) -> Seq(Chars)]
    BY <1>1, <1>3, <1>4, <1>5, <1>6, <1>8 DEF IsFrom
<1> QED BY <1>7, <1>9 DEF s, n

LEMMA FromUnfolds ==
    ASSUME NEW s \in Seq(Chars)
    PROVE  IsFrom(s, FromOf(s)) /\ FromOf(s) \in [1..(Len(s) + 3) -> Seq(Chars)] /\ Decode(s) = FromOf(s)[1]
<1> DEFINE G == {r \in Seq(Chars) : \E g \in [1..(Len(r) + 3) -> Seq(Chars)] : IsFrom(r, g)}
<1>1. <<>> \in G
    <2>a. <<>> \in Seq(Chars)
        OBVIOUS
    <2> HIDE DEF G
    <2>0. PICK z \in Seq(Chars) : z = <<>>
        BY <2>a
    <2> DEFINE g == [i \in 1..(Len(z) + 3) |-> <<>>]
    <2>1. \A i \in 1..(Len(z) + 3) : i > Len(z)
        BY <2>0
    <2>2. \A i \in 1..(Len(z) + 3) : FromAt(z, g, i) = <<>>
        <3> HIDE DEF g
        <3> QED BY <2>1 DEF FromAt
    <2>3. IsFrom(z, g)
        <3>1. g = [i \in 1..(Len(z) + 3) |-> <<>>]
            OBVIOUS
        <3> HIDE DEF g
        <3> QED BY <2>2, <3>1 DEF IsFrom
    <2>4. g \in [1..(Len(z) + 3) -> Seq(Chars)]
        OBVIOUS
    <2>5. z \in G
        <3> HIDE DEF g
        <3> QED BY <2>3, <2>4 DEF G
    <2> QED BY <2>0, <2>5
<1>2. ASSUME NEW r \in Seq(Chars), r \in G, NEW c \in Chars PROVE <<c>> \o r \in G
    <2>1. PICK g \in [1..(Len(r) + 3) -> Seq(Chars)] : IsFrom(r, g)
        BY <1>2
    <2>2. \E f \in [1..(Len(<<c>> \o r) + 3) -> Seq(Chars)] : IsFrom(<<c>> \o r, f)
        BY <2>1, FromLonger
    <2>3. <<c>> \o r \in Seq(Chars)
        BY ConcatProperties
    <2> QED BY <2>2, <2>3
<1>3. s \in G
    <2> HIDE DEF G
    <2> QED BY <1>1, <1>2, InductiveFront
<1>4. PICK g \in [1..(Len(s) + 3) -> Seq(Chars)] : IsFrom(s, g)
    BY <1>3
<1>5. IsFrom(s, FromOf(s))
    BY <1>4 DEF FromOf
<1>6. FromOf(s) = g
    BY <1>4, <1>5, FromOnce
<1>7. Decode(s) = FromOf(s)[1]
    BY DEF Decode, FromOf, IsFrom, FromAt
<1> QED BY <1>4, <1>5, <1>6, <1>7

LEMMA DecodedText == ASSUME NEW s \in Seq(Chars) PROVE Decode(s) \in Seq(Chars)
<1>1. 1 \in 1..(Len(s) + 3)
    BY LenProperties
<1> QED BY <1>1, FromUnfolds

LEMMA FromShifts ==
    ASSUME NEW c \in Chars, NEW r \in Seq(Chars), NEW i \in 1..(Len(r) + 3)
    PROVE  FromOf(<<c>> \o r)[i + 1] = FromOf(r)[i]
<1>1. <<c>> \o r \in Seq(Chars)
    BY ConcatProperties
<1>2. IsFrom(r, FromOf(r)) /\ FromOf(r) \in [1..(Len(r) + 3) -> Seq(Chars)]
    BY FromUnfolds
<1>3. PICK f \in [1..(Len(<<c>> \o r) + 3) -> Seq(Chars)] :
         IsFrom(<<c>> \o r, f) /\ \A j \in 1..(Len(r) + 3) : f[j + 1] = FromOf(r)[j]
    BY <1>2, FromLonger
<1>4. IsFrom(<<c>> \o r, FromOf(<<c>> \o r))
    BY <1>1, FromUnfolds
<1>5. f = FromOf(<<c>> \o r)
    BY <1>1, <1>3, <1>4, FromOnce
<1> QED BY <1>3, <1>5

LEMMA DecodeFront ==
    ASSUME NEW c \in Chars, c # "%", NEW r \in Seq(Chars)
    PROVE  Decode(<<c>> \o r) = <<c>> \o Decode(r)
<1> DEFINE s == <<c>> \o r
<1>1. s \in Seq(Chars) /\ Len(s) = Len(r) + 1 /\ s[1] = c /\ Len(r) \in Nat
    <2>1. <<c>> \in Seq(Chars) /\ Len(<<c>>) = 1 /\ <<c>>[1] = c /\ Len(r) \in Nat
        BY LenProperties
    <2> QED BY <2>1, ConcatProperties
<1>2. FromOf(s)[1 + 1] = FromOf(r)[1]
    <2>1. 1 \in 1..(Len(r) + 3)
        BY <1>1
    <2> QED BY <2>1, FromShifts
<1> HIDE DEF s
<1>3. FromOf(s)[1] = FromAt(s, FromOf(s), 1)
    <2>1. 1 \in 1..(Len(s) + 3)
        BY <1>1
    <2> QED BY <1>1, <2>1, FromUnfolds DEF IsFrom
<1>4. FromOf(s)[1] = <<c>> \o FromOf(r)[1]
    BY <1>1, <1>2, <1>3 DEF FromAt
<1> QED BY <1>1, <1>4, FromUnfolds DEF s

LEMMA DecodeEscape ==
    ASSUME NEW a \in Chars, NEW b \in Chars, NEW r \in Seq(Chars)
    PROVE  Decode(<<"%">> \o (<<a>> \o (<<b>> \o r))) = Hex(a, b) \o Decode(r)
<1> DEFINE v == <<b>> \o r
           u == <<a>> \o v
           s == <<"%">> \o u
<1>0. "%" \in Chars /\ Len(r) \in Nat
    BY LenProperties DEF Chars
<1>1. v \in Seq(Chars) /\ Len(v) = Len(r) + 1 /\ v[1] = b
    <2>1. <<b>> \in Seq(Chars) /\ Len(<<b>>) = 1 /\ <<b>>[1] = b
        OBVIOUS
    <2> QED BY <1>0, <2>1, ConcatProperties
<1>2. u \in Seq(Chars) /\ Len(u) = Len(r) + 2 /\ u[1] = a /\ u[2] = v[1]
    <2>1. <<a>> \in Seq(Chars) /\ Len(<<a>>) = 1 /\ <<a>>[1] = a
        OBVIOUS
    <2> HIDE DEF v
    <2> QED BY <1>0, <1>1, <2>1, ConcatProperties
<1>3. s \in Seq(Chars) /\ Len(s) = Len(r) + 3 /\ s[1] = "%" /\ s[2] = u[1] /\ s[3] = u[2]
    <2>1. <<"%">> \in Seq(Chars) /\ Len(<<"%">>) = 1 /\ <<"%">>[1] = "%"
        BY <1>0
    <2> HIDE DEF u
    <2> QED BY <1>0, <1>2, <2>1, ConcatProperties
<1>4. FromOf(s)[4] = FromOf(r)[1]
    <2>1. FromOf(v)[1 + 1] = FromOf(r)[1]
        <3>1. 1 \in 1..(Len(r) + 3)
            BY <1>0
        <3> QED BY <3>1, FromShifts
    <2>2. FromOf(u)[2 + 1] = FromOf(v)[2]
        <3>1. 2 \in 1..(Len(v) + 3)
            BY <1>0, <1>1
        <3> HIDE DEF v
        <3> QED BY <1>1, <3>1, FromShifts
    <2>3. FromOf(s)[3 + 1] = FromOf(u)[3]
        <3>1. 3 \in 1..(Len(u) + 3)
            BY <1>0, <1>2
        <3> HIDE DEF u
        <3> QED BY <1>0, <1>2, <3>1, FromShifts
    <2> HIDE DEF s, u, v
    <2> QED BY <2>1, <2>2, <2>3
<1> HIDE DEF s, u, v
<1>5. FromOf(s)[1] = FromAt(s, FromOf(s), 1)
    <2>1. 1 \in 1..(Len(s) + 3)
        BY <1>0, <1>3
    <2> QED BY <1>3, <2>1, FromUnfolds DEF IsFrom
<1>6. FromOf(s)[1] = Hex(a, b) \o FromOf(r)[1]
    <2>1. ~(1 > Len(s)) /\ 1 + 2 <= Len(s)
        BY <1>0, <1>3
    <2>2. s[1] = "%" /\ s[1 + 1] = a /\ s[1 + 2] = b
        BY <1>1, <1>2, <1>3
    <2>3. FromOf(s)[1] = Hex(s[1 + 1], s[1 + 2]) \o FromOf(s)[1 + 3]
        BY <1>5, <2>1, <2>2 DEF FromAt
    <2>4. FromOf(s)[1 + 3] = FromOf(r)[1]
        BY <1>4
    <2> QED BY <2>2, <2>3, <2>4
<1> QED BY <1>3, <1>6, FromUnfolds DEF s, u, v
LEMMA Concat ==
    ASSUME NEW a \in Seq(Chars), NEW b \in Seq(Chars)
    PROVE  a \o b \in Seq(Chars) /\ \A c \in Seq(Chars) : (a \o b) \o c = a \o (b \o c)
BY ConcatProperties, ConcatAssociative

Regrouped(a, b, c, d) == ((a \o b) \o c) \o d = a \o (b \o (c \o d))

LEMMA ConcatFour ==
    ASSUME NEW a \in Seq(Chars), NEW b \in Seq(Chars), NEW c \in Seq(Chars), NEW d \in Seq(Chars)
    PROVE  Regrouped(a, b, c, d)
<1> DEFINE s == a \o b
           t == c \o d
<1>1. s \in Seq(Chars) /\ t \in Seq(Chars)
    BY Concat
<1>2. s \o t = a \o (b \o t)
    <2> HIDE DEF t
    <2> QED BY <1>1, Concat
<1> HIDE DEF s
<1>3. (s \o c) \o d = s \o t
    BY <1>1, Concat
<1> QED BY <1>2, <1>3 DEF s, Regrouped

Threefold(a, b, c, z) == <<a, b, c>> \o z = <<a>> \o (<<b>> \o (<<c>> \o z))

LEMMA ThreeThen ==
    ASSUME NEW a \in Chars, NEW b \in Chars, NEW c \in Chars, NEW z \in Seq(Chars)
    PROVE  Threefold(a, b, c, z)
<1>1. PICK p : p = <<a>>
    OBVIOUS
<1>2. PICK q : q = <<b>>
    OBVIOUS
<1>3. PICK r : r = <<c>>
    OBVIOUS
<1>4. p \in Seq(Chars) /\ q \in Seq(Chars) /\ r \in Seq(Chars)
    BY <1>1, <1>2, <1>3
<1>5. Regrouped(p, q, r, z)
    BY <1>4, ConcatFour
<1>6. (p \o q) \o r = <<a, b, c>>
    <2>1. PICK t : t = (p \o q) \o r
        OBVIOUS
    <2>2. PICK u : u = <<a, b, c>>
        OBVIOUS
    <2>3. Len(p) = 1 /\ p[1] = a /\ Len(q) = 1 /\ q[1] = b /\ Len(r) = 1 /\ r[1] = c
        BY <1>1, <1>2, <1>3
    <2>4. /\ p \o q \in Seq(Chars) /\ Len(p \o q) = 2
          /\ (p \o q)[1] = a /\ (p \o q)[2] = b
        <3>1. PICK w : w = p \o q
            OBVIOUS
        <3>2. /\ w \in Seq(Chars) /\ Len(w) = Len(p) + Len(q)
              /\ \A i \in 1..(Len(p) + Len(q)) : w[i] = IF i <= Len(p) THEN p[i] ELSE q[i - Len(p)]
            BY <1>4, <3>1, ConcatProperties
        <3>3. w[1] = a /\ w[2] = b
            BY <2>3, <3>2
        <3> QED BY <2>3, <3>1, <3>2, <3>3
    <2>5. t \in Seq(Chars) /\ Len(t) = 3 /\ t[1] = a /\ t[2] = b /\ t[3] = c
        <3> DEFINE v == p \o q
        <3> HIDE DEF v
        <3>1. v \in Seq(Chars) /\ Len(v) = 2 /\ v[1] = a /\ v[2] = b
            BY <2>4 DEF v
        <3>2. t = v \o r
            BY <2>1 DEF v
        <3>3. /\ t \in Seq(Chars) /\ Len(t) = Len(v) + Len(r)
              /\ \A i \in 1..(Len(v) + Len(r)) : t[i] = IF i <= Len(v) THEN v[i] ELSE r[i - Len(v)]
            BY <1>4, <3>1, <3>2, ConcatProperties
        <3>4. t[1] = a /\ t[2] = b /\ t[3] = c
            BY <2>3, <3>1, <3>3
        <3> QED BY <2>3, <3>1, <3>3, <3>4
    <2>6. u \in Seq(Chars) /\ Len(u) = 3 /\ u[1] = a /\ u[2] = b /\ u[3] = c
        BY <2>2
    <2>7. t = u
        BY <2>5, <2>6, SeqEqual
    <2> QED BY <2>1, <2>2, <2>7
<1> QED BY <1>1, <1>2, <1>3, <1>5, <1>6 DEF Regrouped, Threefold

\* What stands for itself.
LEMMA DecodeAsIs ==
    ASSUME NEW x \in Seq(Chars \ {"%"}), NEW s \in Seq(Chars)
    PROVE  Decode(x \o s) = x \o Decode(s)
<1> DEFINE T == Chars \ {"%"}
           G == {y \in Seq(T) : Decode(y \o s) = y \o Decode(s)}
<1>1. <<>> \in G
    <2>1. <<>> \o s = s /\ <<>> \o Decode(s) = Decode(s) /\ <<>> \in Seq(T)
        BY DecodedText, ConcatEmptySeq
    <2> QED BY <2>1
<1>2. ASSUME NEW y \in Seq(T), y \in G, NEW c \in T PROVE <<c>> \o y \in G
    <2>1. <<c>> \o y \in Seq(T) /\ y \in Seq(Chars) /\ <<c>> \in Seq(Chars) /\ c \in Chars /\ c # "%"
        <3>1. <<c>> \in Seq(T)
            OBVIOUS
        <3>2. <<c>> \o y \in Seq(T)
            BY <3>1, ConcatProperties
        <3>3. T \subseteq Chars
            OBVIOUS
        <3>4. y \in Seq(Chars)
            <4> HIDE DEF T
            <4> QED BY <3>3, SeqMonotonic
        <3> QED BY <3>2, <3>4
    <2>2. y \o s \in Seq(Chars) /\ Decode(s) \in Seq(Chars)
        BY <2>1, Concat, DecodedText
    <2>3. (<<c>> \o y) \o s = <<c>> \o (y \o s)
        BY <2>1, Concat
    <2>4. Decode(<<c>> \o (y \o s)) = <<c>> \o Decode(y \o s)
        BY <2>1, <2>2, DecodeFront
    <2>5. (<<c>> \o y) \o Decode(s) = <<c>> \o (y \o Decode(s))
        BY <2>1, <2>2, Concat
    <2> QED BY <1>2, <2>1, <2>3, <2>4, <2>5
<1>3. x \in G
    <2> HIDE DEF G
    <2>1. x \in Seq(T)
        OBVIOUS
    <2> HIDE DEF T
    <2> QED BY <1>1, <1>2, <2>1, InductiveFront
<1> QED BY <1>3

Esc(c) == IF c = "e" THEN <<"%", "2", "1">> ELSE <<c>>

LEMMA EscapedPieces ==
    ASSUME NEW T, {"%", "2", "1"} \subseteq T, NEW x \in Seq(T)
    PROVE  /\ [i \in DOMAIN x |-> Esc(x[i])] \in Seq(Seq(T))
           /\ Len([i \in DOMAIN x |-> Esc(x[i])]) = Len(x)
           /\ Escaped(x) = Joined([i \in DOMAIN x |-> Esc(x[i])])
           /\ Escaped(x) \in Seq(T)
<1> DEFINE ps == [i \in DOMAIN x |-> Esc(x[i])]
<1>1. Len(x) \in Nat /\ DOMAIN x = 1..Len(x) /\ \A i \in 1..Len(x) : x[i] \in T
    BY LenProperties, ElementOfSeq
<1>2. \A i \in 1..Len(x) : Esc(x[i]) \in Seq(T)
    <2>1. <<"%", "2", "1">> \in Seq(T)
        OBVIOUS
    <2>2. \A c \in T : <<c>> \in Seq(T)
        OBVIOUS
    <2> QED BY <1>1, <2>1, <2>2 DEF Esc
<1>3. ps = [i \in 1..Len(x) |-> Esc(x[i])]
    BY <1>1
<1>4. ps \in Seq(Seq(T)) /\ Len(ps) = Len(x)
    BY <1>1, <1>2, <1>3
<1>5. Escaped(x) = Joined(ps)
    BY DEF Escaped, Esc
<1> HIDE DEF ps
<1>6. Joined(ps) \in Seq(T)
    BY <1>4, JoinedText
<1> QED BY <1>4, <1>5, <1>6 DEF ps

LEMMA EscapedFront ==
    ASSUME NEW c \in Chars, NEW x \in Seq(Chars)
    PROVE  /\ Escaped(<<c>> \o x) = Esc(c) \o Escaped(x)
           /\ Esc(c) \in Seq(Chars) /\ Escaped(x) \in Seq(Chars)
<1> DEFINE s == <<c>> \o x
           ps == [i \in DOMAIN x |-> Esc(x[i])]
           qs == [i \in DOMAIN s |-> Esc(s[i])]
<1>0. {"%", "2", "1"} \subseteq Chars
    BY DEF Chars, Digits
<1>1. /\ s \in Seq(Chars) /\ Len(s) = Len(x) + 1 /\ Len(x) \in Nat
      /\ DOMAIN s = 1..Len(s) /\ DOMAIN x = 1..Len(x)
      /\ s[1] = c /\ \A i \in 2..Len(s) : s[i] = x[i - 1]
    <2>1. <<c>> \in Seq(Chars) /\ Len(<<c>>) = 1 /\ <<c>>[1] = c /\ Len(x) \in Nat
        BY LenProperties
    <2>2. /\ s \in Seq(Chars) /\ Len(s) = 1 + Len(x)
          /\ \A i \in 1..(1 + Len(x)) : s[i] = IF i <= 1 THEN <<c>>[i] ELSE x[i - 1]
        BY <2>1, ConcatProperties
    <2> HIDE DEF s
    <2> QED BY <2>1, <2>2, LenProperties
<1> HIDE DEF s
<1>2. /\ ps \in Seq(Seq(Chars)) /\ Len(ps) = Len(x) /\ Escaped(x) = Joined(ps)
      /\ qs \in Seq(Seq(Chars)) /\ Len(qs) = Len(s) /\ Escaped(s) = Joined(qs)
      /\ Escaped(x) \in Seq(Chars)
    BY <1>0, <1>1, EscapedPieces
<1>3. Esc(c) \in Seq(Chars)
    BY <1>0 DEF Esc
<1>4. /\ <<Esc(c)>> \o ps \in Seq(Seq(Chars)) /\ Len(<<Esc(c)>> \o ps) = 1 + Len(ps)
      /\ \A i \in 1..(1 + Len(ps)) : (<<Esc(c)>> \o ps)[i] = IF i <= 1 THEN <<Esc(c)>>[i] ELSE ps[i - 1]
    <2>1. <<Esc(c)>> \in Seq(Seq(Chars)) /\ Len(<<Esc(c)>>) = 1
        BY <1>3
    <2> HIDE DEF ps
    <2> QED BY <1>2, <2>1, ConcatProperties
<1>5. ASSUME NEW i \in 1..Len(s) PROVE qs[i] = (<<Esc(c)>> \o ps)[i]
    <2>1. qs[i] = Esc(s[i])
        BY <1>1
    <2>2. CASE i = 1
        BY <1>1, <1>2, <1>4, <2>1, <2>2
    <2>3. CASE i # 1
        <3>1. i \in 2..Len(s) /\ i - 1 \in 1..Len(x)
            BY <1>1, <2>3
        <3>2. ps[i - 1] = Esc(x[i - 1])
            BY <1>1, <3>1
        <3>3. (<<Esc(c)>> \o ps)[i] = ps[i - 1]
            <4> HIDE DEF ps
            <4> QED BY <1>1, <1>2, <1>4, <3>1
        <3> QED BY <1>1, <2>1, <3>1, <3>2, <3>3
    <2> QED BY <2>2, <2>3
<1>6. qs = <<Esc(c)>> \o ps
    <2> HIDE DEF ps, qs
    <2>1. Len(qs) = Len(<<Esc(c)>> \o ps)
        BY <1>1, <1>2, <1>4
    <2>2. \A i \in 1..Len(qs) : qs[i] = (<<Esc(c)>> \o ps)[i]
        BY <1>2, <1>5
    <2> QED BY <1>2, <1>4, <2>1, <2>2, SeqEqual
<1> HIDE DEF ps, qs
<1>7. Joined(qs) = Esc(c) \o Joined(ps)
    BY <1>2, <1>3, <1>6, JoinedFront
<1> QED BY <1>2, <1>3, <1>7 DEF s

\* Decoding takes back what escaping did.
LEMMA DecodeEscaped ==
    ASSUME NEW x \in Seq(Chars \ {"%"}), NEW s \in Seq(Chars)
    PROVE  Decode(Escaped(x) \o s) = x \o Decode(s)
<1> DEFINE T == Chars \ {"%"}
           G == {y \in Seq(T) : Decode(Escaped(y) \o s) = y \o Decode(s)}
<1>0. {"%", "2", "1"} \subseteq Chars /\ T \subseteq Chars
    BY DEF Chars, Digits
<1>1. <<>> \in G
    <2>1. <<>> \o s = s /\ <<>> \o Decode(s) = Decode(s) /\ <<>> \in Seq(T)
        BY DecodedText, ConcatEmptySeq
    <2>2. Escaped(<<>>) = <<>>
        <3>1. Escaped(<<>>) = Joined([i \in DOMAIN <<>> |-> Esc(<<>>[i])])
            BY DEF Escaped, Esc
        <3>2. [i \in DOMAIN <<>> |-> Esc(<<>>[i])] = <<>>
            OBVIOUS
        <3>3. Joined(<<>>) = <<>>
            BY DEF Joined, FlattenSeq
        <3> QED BY <3>1, <3>2, <3>3
    <2> QED BY <2>1, <2>2
<1>2. ASSUME NEW y \in Seq(T), y \in G, NEW c \in T PROVE <<c>> \o y \in G
    <2>1. <<c>> \o y \in Seq(T) /\ y \in Seq(Chars) /\ c \in Chars /\ c # "%" /\ <<c>> \in Seq(Chars)
        <3>1. <<c>> \in Seq(T)
            OBVIOUS
        <3>2. <<c>> \o y \in Seq(T)
            BY <3>1, ConcatProperties
        <3>3. y \in Seq(Chars)
            <4> HIDE DEF T
            <4> QED BY <1>0, SeqMonotonic
        <3> QED BY <3>2, <3>3
    <2> DEFINE z == Escaped(y) \o s
    <2>2. Escaped(<<c>> \o y) = Esc(c) \o Escaped(y) /\ Esc(c) \in Seq(Chars) /\ Escaped(y) \in Seq(Chars)
        BY <2>1, EscapedFront
    <2>3. z \in Seq(Chars) /\ (Esc(c) \o Escaped(y)) \o s = Esc(c) \o z
        BY <2>2, Concat
    <2>4. Decode(z) = y \o Decode(s) /\ Decode(s) \in Seq(Chars)
        BY <1>2, DecodedText
    <2> HIDE DEF z
    <2>5. Decode(Esc(c) \o z) = <<c>> \o Decode(z)
        <3>1. CASE c # "e"
            <4>1. Esc(c) = <<c>>
                BY <3>1 DEF Esc
            <4> QED BY <2>1, <2>3, <4>1, DecodeFront
        <3>2. CASE c = "e"
            <4>1. Esc(c) = <<"%", "2", "1">> /\ "1" \in Chars /\ "2" \in Chars /\ "%" \in Chars
                BY <1>0, <3>2 DEF Esc
            <4>2. <<"%", "2", "1">> \o z = <<"%">> \o (<<"2">> \o (<<"1">> \o z))
                <5>1. Threefold("%", "2", "1", z)
                    BY <2>3, <4>1, ThreeThen
                <5> QED BY <5>1 DEF Threefold
            <4>3. Decode(<<"%">> \o (<<"2">> \o (<<"1">> \o z))) = Hex("2", "1") \o Decode(z)
                BY <2>3, <4>1, DecodeEscape
            <4>4. Hex("2", "1") = <<c>>
                BY <3>2 DEF Hex
            <4> QED BY <4>1, <4>2, <4>3, <4>4
        <3> QED BY <3>1, <3>2
    <2>6. <<c>> \o (y \o Decode(s)) = (<<c>> \o y) \o Decode(s)
        BY <2>1, <2>4, Concat
    <2>7. Decode(Escaped(<<c>> \o y) \o s) = (<<c>> \o y) \o Decode(s)
        BY <2>2, <2>3, <2>4, <2>5, <2>6
    <2> QED BY <2>1, <2>7
<1>3. x \in G
    <2> HIDE DEF G
    <2>1. x \in Seq(T)
        OBVIOUS
    <2> HIDE DEF T
    <2> QED BY <1>1, <1>2, <2>1, InductiveFront
<1> QED BY <1>3

\* Of a text by itself.
LEMMA DecodedAlone ==
    ASSUME NEW x \in Seq(Chars \ {"%"})
    PROVE  /\ Decode(Escaped(x)) = x /\ Decode(x) = x
           /\ Escaped(x) \in Seq(Chars) /\ x \in Seq(Chars)
<1>1. x \in Seq(Chars)
    <2>1. Chars \ {"%"} \subseteq Chars
        OBVIOUS
    <2> QED BY <2>1, SeqMonotonic
<1>2. Escaped(x) \in Seq(Chars)
    <2>1. {"%", "2", "1"} \subseteq Chars
        BY DEF Chars, Digits
    <2> QED BY <1>1, <2>1, EscapedPieces
<1>3. x \o <<>> = x /\ Escaped(x) \o <<>> = Escaped(x) /\ <<>> \in Seq(Chars)
    BY <1>1, <1>2, ConcatEmptySeq
<1>4. Decode(Escaped(x) \o <<>>) = x \o Decode(<<>>) /\ Decode(x \o <<>>) = x \o Decode(<<>>)
    BY <1>3, DecodeEscaped, DecodeAsIs
<1> QED BY <1>1, <1>2, <1>3, <1>4, NothingDecoded

------------------------------------------------------------------------------
(* Folding, one character after the other.                                 *)

FormStep(f, c) ==
    IF f.named /\ c # "&" THEN [f EXCEPT !.value = Append(@, c)]
    ELSE IF f.named THEN [NoPair EXCEPT !.pairs = Append(f.pairs, <<Decode(f.name), Decode(f.value)>>)]
    ELSE IF c = "=" THEN [f EXCEPT !.named = TRUE]
    ELSE [f EXCEPT !.name = IF c = "?" THEN <<>> ELSE Append(@, c)]
PathStep(es, c) ==
    IF c # "/" THEN [es EXCEPT ![Len(es)] = Append(@, c)]
    ELSE IF Len(es) > 1 /\ Last(es) = <<>> THEN es ELSE Append(es, <<>>)

Step(k, x, c) == IF k = "form" THEN FormStep(x, c) ELSE PathStep(x, c)
FoldAt(k, b, s, f, S) == IF S = {} THEN b ELSE Step(k, f[S \ {Max(S)}], s[Max(S)])
IsFold(k, b, s, f) == f = [S \in SUBSET DOMAIN s |-> FoldAt(k, b, s, f, S)]
FoldOf(k, b, s) == CHOOSE f : IsFold(k, b, s, f)
Folded(k, b, s) == FoldOf(k, b, s)[DOMAIN s]

Extends(t, s) == Len(s) <= Len(t) /\ \A i \in 1..Len(s) : t[i] = s[i]
Agree(s, f, g) == \A S \in SUBSET DOMAIN s : f[S] = g[S]

LEMMA FoldAgrees ==
    ASSUME NEW k, NEW b, NEW s \in Seq(Chars), NEW t \in Seq(Chars), Extends(t, s),
           NEW f, NEW g, IsFold(k, b, s, f), IsFold(k, b, t, g)
    PROVE  Agree(s, f, g)
<1> DEFINE Same == {n \in Nat : \A S \in SUBSET (1..n) : S \subseteq DOMAIN s => f[S] = g[S]}
<1>1. /\ Len(s) \in Nat /\ Len(t) \in Nat
      /\ DOMAIN s = 1..Len(s) /\ DOMAIN t = 1..Len(t)
      /\ Len(s) <= Len(t) /\ \A i \in 1..Len(s) : t[i] = s[i]
    BY LenProperties DEF Extends
<1>2. DOMAIN s \subseteq DOMAIN t
    BY <1>1
<1>3. \A S \in SUBSET DOMAIN s : f[S] = FoldAt(k, b, s, f, S) /\ g[S] = FoldAt(k, b, t, g, S)
    <2>1. \A S \in SUBSET DOMAIN s : S \in SUBSET DOMAIN t
        BY <1>2
    <2> QED BY <2>1 DEF IsFold
<1>4. 0 \in Same
    <2>1. SUFFICES ASSUME NEW S \in SUBSET (1..0), S \subseteq DOMAIN s PROVE f[S] = g[S]
        OBVIOUS
    <2>2. S = {}
        BY <2>1
    <2> QED BY <1>3, <2>1, <2>2 DEF FoldAt
<1>5. ASSUME NEW n \in Nat, n \in Same PROVE n + 1 \in Same
    <2>1. SUFFICES ASSUME NEW S \in SUBSET (1..(n + 1)), S \subseteq DOMAIN s PROVE f[S] = g[S]
        OBVIOUS
    <2>2. CASE S = {}
        BY <1>3, <2>1, <2>2 DEF FoldAt
    <2>3. CASE S # {}
        <3>1. Max(S) \in S /\ \A y \in S : Max(S) >= y
            <4>1. S \in SUBSET (0..(n + 1)) /\ n + 1 \in Nat
                BY <2>1
            <4> QED BY <2>3, <4>1, MaxOfBounded
        <3> DEFINE R == S \ {Max(S)}
        <3>2. R \in SUBSET (1..n) /\ R \subseteq DOMAIN s
            BY <2>1, <3>1
        <3> HIDE DEF R
        <3>3. f[R] = g[R]
            BY <1>5, <3>2
        <3>4. t[Max(S)] = s[Max(S)]
            BY <1>1, <2>1, <3>1
        <3>5. f[S] = Step(k, f[R], s[Max(S)]) /\ g[S] = Step(k, g[R], t[Max(S)])
            BY <1>3, <2>1, <2>3 DEF FoldAt, R
        <3> QED BY <3>3, <3>4, <3>5
    <2> QED BY <2>2, <2>3
<1>6. \A n \in Nat : n \in Same
    <2> HIDE DEF Same
    <2> QED BY <1>4, <1>5, InductiveSet
<1>7. Len(s) \in Same
    BY <1>1, <1>6
<1> QED BY <1>1, <1>7 DEF Agree

LEMMA FoldExists ==
    ASSUME NEW k, NEW b, NEW s \in Seq(Chars) PROVE \E f : IsFold(k, b, s, f)
<1> DEFINE G == {r \in Seq(Chars) : \E f : IsFold(k, b, r, f)}
<1>1. <<>> \in G
    <2> DEFINE f == [S \in SUBSET DOMAIN <<>> |-> b]
    <2>1. \A S \in SUBSET DOMAIN <<>> : FoldAt(k, b, <<>>, f, S) = b
        <3>1. \A S \in SUBSET DOMAIN <<>> : S = {}
            OBVIOUS
        <3> HIDE DEF f
        <3> QED BY <3>1 DEF FoldAt
    <2>2. IsFold(k, b, <<>>, f)
        <3>1. f = [S \in SUBSET DOMAIN <<>> |-> b]
            OBVIOUS
        <3> HIDE DEF f
        <3> QED BY <2>1, <3>1 DEF IsFold
    <2>3. <<>> \in Seq(Chars)
        OBVIOUS
    <2> HIDE DEF f
    <2> QED BY <2>2, <2>3
<1>2. ASSUME NEW r \in Seq(Chars), r \in G, NEW c \in Chars PROVE Append(r, c) \in G
    <2>1. PICK f : IsFold(k, b, r, f)
        BY <1>2
    <2>2. PICK u : u = Append(r, c)
        OBVIOUS
    <2>3. PICK n \in Nat : n = Len(r)
        BY LenProperties
    <2>4. /\ u \in Seq(Chars) /\ DOMAIN u = 1..(n + 1) /\ DOMAIN r = 1..n
          /\ u[n + 1] = c /\ \A i \in 1..n : u[i] = r[i]
        BY <2>2, <2>3, AppendProperties, LenProperties
    <2> DEFINE g == [S \in SUBSET (1..(n + 1)) |->
                        IF n + 1 \in S THEN Step(k, f[S \ {n + 1}], c) ELSE f[S]]
    <2>5. \A S \in SUBSET (1..n) : g[S] = f[S] /\ f[S] = FoldAt(k, b, r, f, S)
        <3>1. \A S \in SUBSET (1..n) : n + 1 \notin S /\ S \in SUBSET (1..(n + 1))
            OBVIOUS
        <3>2. \A S \in SUBSET (1..n) : f[S] = FoldAt(k, b, r, f, S)
            BY <2>1, <2>4 DEF IsFold
        <3> QED BY <3>1, <3>2
    <2>6. ASSUME NEW S \in SUBSET (1..(n + 1)) PROVE g[S] = FoldAt(k, b, u, g, S)
        <3>1. CASE S = {}
            <4>1. S \in SUBSET (1..n)
                BY <3>1
            <4>2. g[S] = f[S] /\ f[S] = FoldAt(k, b, r, f, S)
                BY <2>5, <4>1
            <4> HIDE DEF g
            <4> QED BY <3>1, <4>2 DEF FoldAt
        <3>2. CASE S # {}
            <4>1. Max(S) \in S /\ \A y \in S : Max(S) >= y
                <5>1. S \in SUBSET (0..(n + 1)) /\ n + 1 \in Nat
                    OBVIOUS
                <5> QED BY <3>2, <5>1, MaxOfBounded
            <4>0. PICK m \in 1..(n + 1) : m = Max(S)
                BY <4>1
            <4>m. m \in S /\ \A y \in S : m >= y
                BY <4>0, <4>1
            <4>2. S \ {Max(S)} \in SUBSET (1..n)
                <5> HIDE DEF g
                <5>1. \A y \in S \ {m} : y \in 1..n
                    BY <4>m
                <5> QED BY <4>0, <5>1
            <4>3. g[S \ {Max(S)}] = f[S \ {Max(S)}]
                BY <2>5, <4>2
            <4>4. CASE n + 1 \in S
                <5>1. Max(S) = n + 1
                    <6> HIDE DEF g
                    <6>1. m = n + 1
                        BY <4>4, <4>m
                    <6> QED BY <4>0, <6>1
                <5>2. g[S] = Step(k, f[S \ {n + 1}], c)
                    BY <4>4
                <5> HIDE DEF g
                <5> QED BY <2>4, <3>2, <4>3, <5>1, <5>2 DEF FoldAt
            <4>5. CASE n + 1 \notin S
                <5>1. S \in SUBSET (1..n) /\ Max(S) \in 1..n
                    <6> HIDE DEF g
                    <6>1. \A y \in S : y \in 1..n
                        BY <4>5
                    <6> QED BY <4>0, <4>m, <6>1
                <5>2. g[S] = f[S] /\ f[S] = FoldAt(k, b, r, f, S)
                    BY <2>5, <5>1
                <5>3. u[Max(S)] = r[Max(S)]
                    BY <2>4, <5>1
                <5> HIDE DEF g
                <5> QED BY <3>2, <4>3, <5>2, <5>3 DEF FoldAt
            <4> QED BY <4>4, <4>5
        <3> QED BY <3>1, <3>2
    <2>7. IsFold(k, b, u, g)
        <3>1. g = [S \in SUBSET (1..(n + 1)) |-> g[S]]
            OBVIOUS
        <3> HIDE DEF g
        <3> QED BY <2>4, <2>6, <3>1 DEF IsFold
    <2> HIDE DEF g
    <2> QED BY <2>2, <2>4, <2>7
<1>3. s \in G
    <2> HIDE DEF G
    <2> QED BY <1>1, <1>2, InductiveSeq
<1> QED BY <1>3

LEMMA FoldedAppend ==
    ASSUME NEW k, NEW b, NEW s \in Seq(Chars), NEW c \in Chars
    PROVE  /\ Folded(k, b, <<>>) = b
           /\ Folded(k, b, Append(s, c)) = Step(k, Folded(k, b, s), c)
<1>1. \A r \in Seq(Chars) : IsFold(k, b, r, FoldOf(k, b, r))
    BY FoldExists DEF FoldOf
<1>2. \A r \in Seq(Chars) : Folded(k, b, r) = FoldAt(k, b, r, FoldOf(k, b, r), DOMAIN r)
    <2>1. \A r \in Seq(Chars) : DOMAIN r \in SUBSET DOMAIN r
        OBVIOUS
    <2> QED BY <1>1, <2>1 DEF IsFold, Folded
<1>3. Folded(k, b, <<>>) = b
    <2>1. <<>> \in Seq(Chars) /\ DOMAIN <<>> = {}
        OBVIOUS
    <2> QED BY <1>2, <2>1 DEF FoldAt
<1>4. PICK u : u = Append(s, c)
    OBVIOUS
<1>5. PICK n \in Nat : n = Len(s)
    BY LenProperties
<1>6. /\ u \in Seq(Chars) /\ DOMAIN u = 1..(n + 1) /\ DOMAIN s = 1..n /\ Len(u) = n + 1
      /\ u[n + 1] = c /\ \A i \in 1..n : u[i] = s[i]
    BY <1>4, <1>5, AppendProperties, LenProperties
<1>7. Max(DOMAIN u) = n + 1 /\ DOMAIN u # {} /\ DOMAIN u \ {n + 1} = DOMAIN s
    <2>1. 1..(n + 1) \in SUBSET Nat /\ n + 1 \in 1..(n + 1) /\ \A i \in 1..(n + 1) : i <= n + 1
        OBVIOUS
    <2>2. Max(1..(n + 1)) = n + 1
        BY <2>1, MaxIs
    <2>3. 1..(n + 1) # {} /\ (1..(n + 1)) \ {n + 1} = 1..n
        OBVIOUS
    <2> QED BY <1>6, <2>2, <2>3
<1>8. FoldOf(k, b, s)[DOMAIN s] = FoldOf(k, b, u)[DOMAIN s]
    <2>1. Extends(u, s)
        BY <1>5, <1>6 DEF Extends
    <2>2. IsFold(k, b, s, FoldOf(k, b, s)) /\ IsFold(k, b, u, FoldOf(k, b, u))
        BY <1>1, <1>6
    <2>3. DOMAIN s \in SUBSET DOMAIN s
        OBVIOUS
    <2> DEFINE f == FoldOf(k, b, s)
               g == FoldOf(k, b, u)
    <2>4. IsFold(k, b, s, f) /\ IsFold(k, b, u, g) /\ u \in Seq(Chars)
        BY <1>6, <2>2
    <2> HIDE DEF f, g
    <2>5. Agree(s, f, g)
        BY <2>1, <2>4, FoldAgrees
    <2> QED BY <2>3, <2>5 DEF f, g, Agree
<1>9. Folded(k, b, u) = Step(k, FoldOf(k, b, u)[DOMAIN u \ {n + 1}], u[n + 1])
    BY <1>2, <1>6, <1>7 DEF FoldAt
<1> QED BY <1>3, <1>4, <1>6, <1>7, <1>8, <1>9 DEF Folded

LEMMA FoldedConcat ==
    ASSUME NEW k, NEW b, NEW x \in Seq(Chars), NEW y \in Seq(Chars)
    PROVE  Folded(k, b, x \o y) = Folded(k, Folded(k, b, x), y)
<1> DEFINE G == {z \in Seq(Chars) : Folded(k, b, x \o z) = Folded(k, Folded(k, b, x), z)}
<1>0. \E c \in Chars : TRUE
    BY DEF Chars
<1>1. <<>> \in G
    <2>1. x \o <<>> = x /\ <<>> \in Seq(Chars)
        BY ConcatEmptySeq
    <2>2. Folded(k, Folded(k, b, x), <<>>) = Folded(k, b, x)
        BY <1>0, FoldedAppend
    <2> QED BY <2>1, <2>2
<1>2. ASSUME NEW z \in Seq(Chars), z \in G, NEW c \in Chars PROVE Append(z, c) \in G
    <2>1. /\ Append(z, c) \in Seq(Chars) /\ x \o z \in Seq(Chars)
          /\ x \o Append(z, c) = Append(x \o z, c)
        <3>1. Append(z, c) = z \o <<c>> /\ x \o z \in Seq(Chars) /\ <<c>> \in Seq(Chars)
            BY AppendIsConcat, ConcatProperties
        <3>2. Append(x \o z, c) = (x \o z) \o <<c>>
            BY <3>1, AppendIsConcat
        <3>3. (x \o z) \o <<c>> = x \o (z \o <<c>>)
            BY <3>1, Concat
        <3> QED BY <3>1, <3>2, <3>3, AppendProperties
    <2>2. Folded(k, b, Append(x \o z, c)) = Step(k, Folded(k, b, x \o z), c)
        <3>1. PICK w \in Seq(Chars) : w = x \o z
            BY <2>1
        <3>2. Folded(k, b, Append(w, c)) = Step(k, Folded(k, b, w), c)
            BY FoldedAppend
        <3> QED BY <3>1, <3>2
    <2>3. Folded(k, Folded(k, b, x), Append(z, c)) = Step(k, Folded(k, Folded(k, b, x), z), c)
        BY FoldedAppend
    <2> QED BY <1>2, <2>1, <2>2, <2>3
<1>3. y \in G
    <2> HIDE DEF G
    <2> QED BY <1>1, <1>2, InductiveSeq
<1> QED BY <1>3

LEMMA FoldedOne ==
    ASSUME NEW k, NEW b, NEW c \in Chars
    PROVE  Folded(k, b, <<c>>) = Step(k, b, c) /\ Folded(k, b, <<>>) = b
<1>1. <<>> \in Seq(Chars) /\ Append(<<>>, c) = <<c>>
    OBVIOUS
<1>2. PICK e \in Seq(Chars) : e = <<>>
    BY <1>1
<1>3. Folded(k, b, <<>>) = b /\ Folded(k, b, Append(e, c)) = Step(k, Folded(k, b, e), c)
    BY FoldedAppend
<1> QED BY <1>1, <1>2, <1>3

LEMMA AsFolds ==
    ASSUME NEW s
    PROVE  /\ FormElements(s) = Folded("form", NoPair, Append(s, "&")).pairs
           /\ Elements(s) = Folded("path", << <<>> >>, s)
<1>1. FormElements(s) = Folded("form", NoPair, Append(s, "&")).pairs
    BY DEF FormElements, Folded, FoldOf, IsFold, FoldAt, Step, FormStep, FoldLeft, MapThenFoldSet
<1>2. Elements(s) = Folded("path", << <<>> >>, s)
    BY DEF Elements, Folded, FoldOf, IsFold, FoldAt, Step, PathStep, FoldLeft, MapThenFoldSet
<1> QED BY <1>1, <1>2

------------------------------------------------------------------------------
(* The pairs of a form.                                                    *)

InName(ps, n, v) == [pairs |-> ps, name |-> n, value |-> v, named |-> FALSE]
InValue(ps, n, v) == [pairs |-> ps, name |-> n, value |-> v, named |-> TRUE]

LEMMA FormName ==
    ASSUME NEW ps, NEW n, NEW v, NEW c, c \notin {"=", "?"}
    PROVE  Step("form", InName(ps, n, v), c) = InName(ps, Append(n, c), v)
BY DEF Step, FormStep, InName

LEMMA FormEquals ==
    ASSUME NEW ps, NEW n, NEW v PROVE Step("form", InName(ps, n, v), "=") = InValue(ps, n, v)
BY DEF Step, FormStep, InName, InValue

LEMMA FormQuery ==
    ASSUME NEW ps, NEW n, NEW v PROVE Step("form", InName(ps, n, v), "?") = InName(ps, <<>>, v)
BY DEF Step, FormStep, InName

LEMMA FormValue ==
    ASSUME NEW ps, NEW n, NEW v, NEW c, c # "&"
    PROVE  Step("form", InValue(ps, n, v), c) = InValue(ps, n, Append(v, c))
BY DEF Step, FormStep, InValue

LEMMA FormEnd ==
    ASSUME NEW ps, NEW n, NEW v
    PROVE  Step("form", InValue(ps, n, v), "&") = InName(Append(ps, <<Decode(n), Decode(v)>>), <<>>, <<>>)
BY DEF Step, FormStep, InName, InValue, NoPair

Carries(x, y, c) == Append(x \o y, c) = x \o Append(y, c)

LEMMA ConcatAppend ==
    ASSUME NEW T, NEW x \in Seq(T), NEW y \in Seq(T), NEW c \in T
    PROVE  Carries(x, y, c)
<1>1. <<c>> \in Seq(T)
    OBVIOUS
<1>2. PICK w \in Seq(T) : w = x \o y
    BY ConcatProperties
<1>3. Append(w, c) = w \o <<c>> /\ Append(y, c) = y \o <<c>>
    BY AppendIsConcat
<1>4. (x \o y) \o <<c>> = x \o (y \o <<c>>)
    BY <1>1, ConcatAssociative
<1> QED BY <1>2, <1>3, <1>4 DEF Carries

NameText == Seq(Chars \ {"=", "?"})
ValueText == Seq(Chars \ {"&"})

LEMMA FormNameGrows ==
    ASSUME NEW ps, NEW n \in Seq(Chars), NEW v, NEW x \in NameText
    PROVE  Folded("form", InName(ps, n, v), x) = InName(ps, n \o x, v)
<1> DEFINE T == Chars \ {"=", "?"}
           b == InName(ps, n, v)
           Good(y) == Folded("form", b, y) = InName(ps, n \o y, v)
           G == {y \in Seq(T) : Good(y)}
<1>0. T \subseteq Chars /\ \E c \in Chars : TRUE
    BY DEF Chars
<1>1. <<>> \in G
    <2>1. n \o <<>> = n /\ <<>> \in Seq(T)
        BY ConcatEmptySeq
    <2>2. Folded("form", b, <<>>) = b
        <3> HIDE DEF b
        <3> QED BY <1>0, FoldedOne
    <2> QED BY <2>1, <2>2
<1>2. ASSUME NEW y \in Seq(T), y \in G, NEW c \in T PROVE Append(y, c) \in G
    <2>1. Append(y, c) \in Seq(T) /\ y \in Seq(Chars) /\ c \in Chars /\ c \notin {"=", "?"}
        <3>1. y \in Seq(Chars)
            <4> HIDE DEF T, G
            <4> QED BY <1>0, SeqMonotonic
        <3> QED BY <3>1, AppendProperties
    <2>2. Folded("form", b, Append(y, c)) = Step("form", Folded("form", b, y), c)
        <3> HIDE DEF b, G, T
        <3> QED BY <2>1, FoldedAppend
    <2>3. Folded("form", b, y) = InName(ps, n \o y, v)
        BY <1>2
    <2>4. PICK m : m = n \o y
        OBVIOUS
    <2>5. Step("form", InName(ps, m, v), c) = InName(ps, Append(m, c), v)
        BY <2>1, FormName
    <2>6. Append(n \o y, c) = n \o Append(y, c)
        <3> HIDE DEF G, Good, T, b
        <3>1. Carries(n, y, c)
            BY <2>1, ConcatAppend
        <3> QED BY <3>1 DEF Carries
    <2>7. Good(Append(y, c))
        BY <2>2, <2>3, <2>4, <2>5, <2>6
    <2> HIDE DEF Good
    <2> QED BY <2>1, <2>7
<1>3. x \in G
    <2> HIDE DEF G
    <2>1. x \in Seq(T)
        BY DEF NameText
    <2> HIDE DEF T
    <2> QED BY <1>1, <1>2, <2>1, InductiveSeq
<1> QED BY <1>3

LEMMA FormValueGrows ==
    ASSUME NEW ps, NEW n, NEW v \in Seq(Chars), NEW x \in ValueText
    PROVE  Folded("form", InValue(ps, n, v), x) = InValue(ps, n, v \o x)
<1> DEFINE T == Chars \ {"&"}
           b == InValue(ps, n, v)
           Good(y) == Folded("form", b, y) = InValue(ps, n, v \o y)
           G == {y \in Seq(T) : Good(y)}
<1>0. T \subseteq Chars /\ \E c \in Chars : TRUE
    BY DEF Chars
<1>1. <<>> \in G
    <2>1. v \o <<>> = v /\ <<>> \in Seq(T)
        BY ConcatEmptySeq
    <2>2. Folded("form", b, <<>>) = b
        <3> HIDE DEF b
        <3> QED BY <1>0, FoldedOne
    <2> QED BY <2>1, <2>2
<1>2. ASSUME NEW y \in Seq(T), y \in G, NEW c \in T PROVE Append(y, c) \in G
    <2>1. Append(y, c) \in Seq(T) /\ y \in Seq(Chars) /\ c \in Chars /\ c # "&"
        <3>1. y \in Seq(Chars)
            <4> HIDE DEF T, G
            <4> QED BY <1>0, SeqMonotonic
        <3> QED BY <3>1, AppendProperties
    <2>2. Folded("form", b, Append(y, c)) = Step("form", Folded("form", b, y), c)
        <3> HIDE DEF b, G, T
        <3> QED BY <2>1, FoldedAppend
    <2>3. Folded("form", b, y) = InValue(ps, n, v \o y)
        BY <1>2
    <2>4. PICK m : m = v \o y
        OBVIOUS
    <2>5. Step("form", InValue(ps, n, m), c) = InValue(ps, n, Append(m, c))
        BY <2>1, FormValue
    <2>6. Append(v \o y, c) = v \o Append(y, c)
        <3> HIDE DEF G, Good, T, b
        <3>1. Carries(v, y, c)
            BY <2>1, ConcatAppend
        <3> QED BY <3>1 DEF Carries
    <2>7. Good(Append(y, c))
        BY <2>2, <2>3, <2>4, <2>5, <2>6
    <2> HIDE DEF Good
    <2> QED BY <2>1, <2>7
<1>3. x \in G
    <2> HIDE DEF G
    <2>1. x \in Seq(T)
        BY DEF ValueText
    <2> HIDE DEF T
    <2> QED BY <1>1, <1>2, <2>1, InductiveSeq
<1> QED BY <1>3

Clean(ps) == InName(ps, <<>>, <<>>)
Body(q) == (q[1] \o <<"=">>) \o q[2]
Taken(ps, q) == Folded("form", Clean(ps), Body(q) \o <<"&">>) = Clean(Append(ps, <<Decode(q[1]), Decode(q[2])>>))

LEMMA PairTaken ==
    ASSUME NEW ps, NEW q, q[1] \in NameText, q[2] \in ValueText
    PROVE  Taken(ps, q) /\ Body(q) \in Seq(Chars) /\ q[1] \in Seq(Chars) /\ q[2] \in Seq(Chars)
<1>1. PICK x \in NameText : x = q[1]
    OBVIOUS
<1>2. PICK y \in ValueText : y = q[2]
    OBVIOUS
<1>3. x \in Seq(Chars) /\ y \in Seq(Chars)
    <2>1. Chars \ {"=", "?"} \subseteq Chars /\ Chars \ {"&"} \subseteq Chars
        OBVIOUS
    <2> QED BY <2>1, SeqMonotonic DEF NameText, ValueText
<1>4. PICK e \in Seq(Chars), a \in Seq(Chars), z \in Seq(Chars) : e = <<"=">> /\ a = <<"&">> /\ z = <<>>
    <2>1. "=" \in Chars /\ "&" \in Chars
        BY DEF Chars
    <2>2. <<"=">> \in Seq(Chars) /\ <<"&">> \in Seq(Chars) /\ <<>> \in Seq(Chars)
        BY <2>1
    <2> QED BY <2>2
<1>5. PICK s \in Seq(Chars), t \in Seq(Chars) : s = x \o e /\ t = s \o y
    BY <1>3, Concat
<1>6. Folded("form", Clean(ps), x) = InName(ps, x, <<>>)
    <2>1. Folded("form", InName(ps, z, <<>>), x) = InName(ps, z \o x, <<>>)
        BY FormNameGrows
    <2>2. <<>> \o x = x
        BY <1>3, ConcatEmptySeq
    <2> QED BY <1>4, <2>1, <2>2 DEF Clean
<1>7. Folded("form", Clean(ps), s) = InValue(ps, x, <<>>)
    <2>1. Folded("form", Clean(ps), x \o e) = Folded("form", Folded("form", Clean(ps), x), e)
        BY <1>3, FoldedConcat
    <2>2. Folded("form", InName(ps, x, <<>>), <<"=">>) = Step("form", InName(ps, x, <<>>), "=")
        <3>1. "=" \in Chars
            BY DEF Chars
        <3> QED BY <3>1, FoldedOne
    <2>3. Step("form", InName(ps, x, <<>>), "=") = InValue(ps, x, <<>>)
        BY FormEquals
    <2> QED BY <1>4, <1>5, <1>6, <2>1, <2>2, <2>3
<1>8. Folded("form", Clean(ps), t) = InValue(ps, x, y)
    <2>1. Folded("form", Clean(ps), s \o y) = Folded("form", Folded("form", Clean(ps), s), y)
        BY <1>3, FoldedConcat
    <2>2. Folded("form", InValue(ps, x, z), y) = InValue(ps, x, z \o y)
        BY FormValueGrows
    <2>3. <<>> \o y = y
        BY <1>3, ConcatEmptySeq
    <2> QED BY <1>4, <1>5, <1>7, <2>1, <2>2, <2>3
<1>9. Folded("form", Clean(ps), t \o a) = Clean(Append(ps, <<Decode(x), Decode(y)>>))
    <2>1. Folded("form", Clean(ps), t \o a) = Folded("form", Folded("form", Clean(ps), t), a)
        BY FoldedConcat
    <2>2. Folded("form", InValue(ps, x, y), <<"&">>) = Step("form", InValue(ps, x, y), "&")
        <3>1. "&" \in Chars
            BY DEF Chars
        <3> QED BY <3>1, FoldedOne
    <2>3. Step("form", InValue(ps, x, y), "&")
            = InName(Append(ps, <<Decode(x), Decode(y)>>), <<>>, <<>>)
        BY FormEnd
    <2> QED BY <1>4, <1>8, <2>1, <2>2, <2>3 DEF Clean
<1> QED BY <1>1, <1>2, <1>3, <1>4, <1>5, <1>9 DEF Taken, Body

IsPair(q) == q[1] \in NameText /\ q[2] \in ValueText
Texts == Seq(Chars) \X Seq(Chars)
Piece(i, q) == (IF i = 1 THEN <<>> ELSE <<"&">>) \o Body(q)
PieceTexts(qs) == [i \in DOMAIN qs |-> Piece(i, qs[i])]
Written(qs) == Joined(PieceTexts(qs))
Decoded(qs) == [i \in DOMAIN qs |-> <<Decode(qs[i][1]), Decode(qs[i][2])>>]

LEMMA PieceText ==
    ASSUME NEW i, NEW q \in Texts
    PROVE  /\ Piece(i, q) \in Seq(Chars) /\ Body(q) \in Seq(Chars)
           /\ i = 1 => Piece(i, q) = Body(q)
           /\ i # 1 => Piece(i, q) = <<"&">> \o Body(q)
<1>1. q[1] \in Seq(Chars) /\ q[2] \in Seq(Chars)
    BY DEF Texts
<1>2. <<"=">> \in Seq(Chars) /\ <<"&">> \in Seq(Chars) /\ <<>> \in Seq(Chars)
    <2>1. "=" \in Chars /\ "&" \in Chars
        BY DEF Chars
    <2> QED BY <2>1
<1>3. Body(q) \in Seq(Chars)
    BY <1>1, <1>2, Concat DEF Body
<1>4. <<>> \o Body(q) = Body(q)
    BY <1>3, ConcatEmptySeq
<1>5. CASE i = 1
    BY <1>3, <1>4, <1>5 DEF Piece
<1>6. CASE i # 1
    <2>1. Piece(i, q) = <<"&">> \o Body(q)
        BY <1>6 DEF Piece
    <2> QED BY <1>2, <1>3, <1>6, <2>1, Concat
<1> QED BY <1>5, <1>6

LEMMA WrittenText ==
    ASSUME NEW qs \in Seq(Texts)
    PROVE  /\ PieceTexts(qs) \in Seq(Seq(Chars)) /\ Len(PieceTexts(qs)) = Len(qs)
           /\ Written(qs) \in Seq(Chars)
           /\ Written(<<>>) = <<>>
<1>1. DOMAIN qs = 1..Len(qs) /\ Len(qs) \in Nat /\ \A i \in 1..Len(qs) : qs[i] \in Texts
    BY LenProperties, ElementOfSeq
<1>2. \A i \in 1..Len(qs) : Piece(i, qs[i]) \in Seq(Chars)
    BY <1>1, PieceText
<1>3. PieceTexts(qs) = [i \in 1..Len(qs) |-> Piece(i, qs[i])]
    BY <1>1 DEF PieceTexts
<1>4. PieceTexts(qs) \in Seq(Seq(Chars)) /\ Len(PieceTexts(qs)) = Len(qs)
    BY <1>1, <1>2, <1>3
<1>5. PieceTexts(<<>>) = <<>>
    BY DEF PieceTexts
<1> QED BY <1>4, <1>5, JoinedText DEF Written

WrittenOn(qs, q) == Written(Append(qs, q)) = Written(qs) \o Piece(Len(qs) + 1, q)

LEMMA WrittenAppend ==
    ASSUME NEW qs \in Seq(Texts), NEW q \in Texts
    PROVE  WrittenOn(qs, q)
<1>1. PICK us \in Seq(Texts) : us = Append(qs, q)
    BY AppendProperties
<1>2. PICK n \in Nat : n = Len(qs)
    BY LenProperties
<1>3. /\ DOMAIN qs = 1..n /\ DOMAIN us = 1..(n + 1) /\ us[n + 1] = q /\ Len(us) = n + 1
      /\ \A i \in 1..n : us[i] = qs[i]
    BY <1>1, <1>2, AppendProperties, LenProperties
<1>4. PICK a \in Seq(Chars) : a = Piece(n + 1, q)
    BY PieceText
<1>5. PICK ps \in Seq(Seq(Chars)) : ps = PieceTexts(qs) /\ Len(ps) = n
    BY <1>2, WrittenText
<1>6. PICK ts \in Seq(Seq(Chars)) : ts = PieceTexts(us) /\ Len(ts) = n + 1
    BY <1>3, WrittenText
<1>7. PICK vs \in Seq(Seq(Chars)) : vs = Append(ps, a)
    BY AppendProperties
<1>8. Len(vs) = n + 1 /\ vs[n + 1] = a /\ \A i \in 1..n : vs[i] = ps[i]
    BY <1>5, <1>7, AppendProperties
<1>9. \A i \in 1..n : ps[i] = Piece(i, qs[i])
    BY <1>3, <1>5 DEF PieceTexts
<1>10. \A i \in 1..(n + 1) : ts[i] = Piece(i, us[i])
    BY <1>3, <1>6 DEF PieceTexts
<1>11. ASSUME NEW i \in 1..(n + 1) PROVE ts[i] = vs[i]
    <2>1. CASE i = n + 1
        BY <1>3, <1>4, <1>8, <1>10, <2>1
    <2>2. CASE i # n + 1
        <3>1. i \in 1..n
            BY <2>2
        <3> QED BY <1>3, <1>8, <1>9, <1>10, <3>1
    <2> QED BY <2>1, <2>2
<1>12. ts = vs
    BY <1>6, <1>8, <1>11, SeqEqual
<1>13. Joined(Append(ps, a)) = Joined(ps) \o a
    BY JoinedAppend
<1> QED BY <1>1, <1>2, <1>4, <1>5, <1>6, <1>7, <1>12, <1>13 DEF WrittenOn, Written

LEMMA DecodedAppend ==
    ASSUME NEW qs \in Seq(Texts), NEW q \in Texts
    PROVE  /\ Decoded(Append(qs, q)) = Append(Decoded(qs), <<Decode(q[1]), Decode(q[2])>>)
           /\ Decoded(<<>>) = <<>> /\ Decoded(qs) \in Seq(Texts) /\ Len(Decoded(qs)) = Len(qs)
<1>1. PICK us \in Seq(Texts) : us = Append(qs, q)
    BY AppendProperties
<1>2. PICK n \in Nat : n = Len(qs)
    BY LenProperties
<1>3. /\ DOMAIN qs = 1..n /\ DOMAIN us = 1..(n + 1) /\ us[n + 1] = q
      /\ \A i \in 1..n : us[i] = qs[i]
    BY <1>1, <1>2, AppendProperties, LenProperties
<1>4. \A x \in Texts : <<Decode(x[1]), Decode(x[2])>> \in Texts
    BY DecodedText DEF Texts
<1>5. PICK d \in Texts : d = <<Decode(q[1]), Decode(q[2])>>
    BY <1>4
<1>6. Decoded(qs) \in Seq(Texts) /\ Len(Decoded(qs)) = n
    <2>1. Decoded(qs) = [i \in 1..n |-> <<Decode(qs[i][1]), Decode(qs[i][2])>>]
        BY <1>3 DEF Decoded
    <2>2. \A i \in 1..n : qs[i] \in Texts
        BY <1>3
    <2>3. \A i \in 1..n : <<Decode(qs[i][1]), Decode(qs[i][2])>> \in Texts
        BY <1>4, <2>2
    <2>4. Decoded(qs) \in [1..n -> Texts]
        BY <2>1, <2>3
    <2> QED BY <2>4
<1>7. Decoded(us) \in [1..(n + 1) -> Texts]
    <2>1. Decoded(us) = [i \in 1..(n + 1) |-> <<Decode(us[i][1]), Decode(us[i][2])>>]
        BY <1>3 DEF Decoded
    <2>2. \A i \in 1..(n + 1) : us[i] \in Texts
        BY <1>3
    <2>3. \A i \in 1..(n + 1) : <<Decode(us[i][1]), Decode(us[i][2])>> \in Texts
        BY <1>4, <2>2
    <2> QED BY <2>1, <2>3
<1>8. PICK ds \in Seq(Texts) : ds = Decoded(qs) /\ Len(ds) = n
    BY <1>6
<1>9. PICK es \in Seq(Texts) : es = Decoded(us) /\ Len(es) = n + 1
    BY <1>7
<1>10. PICK vs \in Seq(Texts) : vs = Append(ds, d)
    BY AppendProperties
<1>11. Len(vs) = n + 1 /\ vs[n + 1] = d /\ \A i \in 1..n : vs[i] = ds[i]
    BY <1>8, <1>10, AppendProperties
<1>12. /\ \A i \in 1..n : ds[i] = <<Decode(qs[i][1]), Decode(qs[i][2])>>
       /\ \A i \in 1..(n + 1) : es[i] = <<Decode(us[i][1]), Decode(us[i][2])>>
    BY <1>3, <1>8, <1>9 DEF Decoded
<1>13. ASSUME NEW i \in 1..(n + 1) PROVE es[i] = vs[i]
    <2>1. CASE i = n + 1
        BY <1>3, <1>5, <1>11, <1>12, <2>1
    <2>2. CASE i # n + 1
        <3>1. i \in 1..n
            BY <2>2
        <3> QED BY <1>3, <1>11, <1>12, <3>1
    <2> QED BY <2>1, <2>2
<1>14. es = vs
    BY <1>9, <1>11, <1>13, SeqEqual
<1>15. Decoded(<<>>) = <<>>
    BY DEF Decoded
<1> QED BY <1>1, <1>2, <1>5, <1>6, <1>8, <1>9, <1>10, <1>14, <1>15

\* What is read from a form that has been written.
LEMMA FormRead ==
    ASSUME NEW qs \in Seq(Texts), \A i \in 1..Len(qs) : IsPair(qs[i])
    PROVE  /\ qs # <<>> => Folded("form", NoPair, Written(qs) \o <<"&">>) = Clean(Decoded(qs))
           /\ FormElements(Written(qs)) = Decoded(qs)
<1> DEFINE T == {q \in Texts : IsPair(q)}
           Good(rs) == Folded("form", NoPair, Written(rs) \o <<"&">>) = Clean(Decoded(rs))
           G == {rs \in Seq(T) : rs # <<>> => Good(rs)}
<1>0. /\ Clean(<<>>) = NoPair /\ T \subseteq Texts
      /\ <<"&">> \in Seq(Chars) /\ "&" \in Chars
    <2>1. "&" \in Chars
        BY DEF Chars
    <2> QED BY <2>1 DEF Clean, InName, NoPair
<1>1. <<>> \in G
    OBVIOUS
<1>2. ASSUME NEW rs \in Seq(T), rs \in G, NEW q \in T PROVE Append(rs, q) \in G
    <2>1. Append(rs, q) \in Seq(T) /\ rs \in Seq(Texts) /\ q \in Texts
        <3>1. rs \in Seq(Texts)
            <4> HIDE DEF T, G
            <4> QED BY <1>0, SeqMonotonic
        <3> QED BY <3>1, AppendProperties
    <2>2. WrittenOn(rs, q) /\ Len(rs) \in Nat
        BY <2>1, WrittenAppend, LenProperties
    <2>3. PICK w \in Seq(Chars) : w = Written(rs)
        BY <2>1, WrittenText
    <2>4. PICK p \in Seq(Chars) : p = Piece(Len(rs) + 1, q)
        BY <2>1, PieceText
    <2>5. PICK b \in Seq(Chars) : b = Body(q)
        BY <2>1, PieceText
    <2>6. PICK a \in Seq(Chars) : a = <<"&">>
        BY <1>0
    <2>7. Decoded(Append(rs, q)) = Append(Decoded(rs), <<Decode(q[1]), Decode(q[2])>>)
        BY <2>1, DecodedAppend
    <2>8. \A ps : Folded("form", Clean(ps), b \o a) = Clean(Append(ps, <<Decode(q[1]), Decode(q[2])>>))
        <3>1. \A ps : Taken(ps, q)
            BY PairTaken DEF IsPair
        <3> QED BY <2>5, <2>6, <3>1 DEF Taken
    <2>9. Written(Append(rs, q)) = w \o p
        BY <2>2, <2>3, <2>4 DEF WrittenOn
    <2>10. CASE rs = <<>>
        <3>1. w = <<>> /\ p = b /\ Decoded(rs) = <<>>
            <4>1. Len(rs) + 1 = 1
                BY <2>10
            <4> QED BY <2>1, <2>3, <2>4, <2>5, <2>10, <4>1, WrittenText, PieceText, DecodedAppend
        <3>2. <<>> \o b = b
            BY ConcatEmptySeq
        <3> QED BY <1>0, <2>1, <2>6, <2>7, <2>8, <2>9, <3>1, <3>2
    <2>11. CASE rs # <<>>
        <3>1. p = a \o b
            <4>1. Len(rs) + 1 # 1
                BY <2>1, <2>2, <2>11, EmptySeq
            <4> QED BY <2>1, <2>4, <2>5, <2>6, <4>1, PieceText
        <3>2. Folded("form", NoPair, w \o a) = Clean(Decoded(rs))
            BY <1>2, <2>3, <2>6, <2>11
        <3>3. (w \o p) \o a = (w \o a) \o (b \o a)
            <4>1. (w \o a) \o (b \o a) = w \o (a \o (b \o a))
                <5>1. PICK z \in Seq(Chars) : z = b \o a
                    BY Concat
                <5>2. (w \o a) \o z = w \o (a \o z)
                    BY Concat
                <5> QED BY <5>1, <5>2
            <4>2. (a \o b) \o a = a \o (b \o a)
                BY Concat
            <4>3. (w \o p) \o a = w \o (p \o a)
                BY Concat
            <4> QED BY <3>1, <4>1, <4>2, <4>3
        <3>4. Folded("form", NoPair, (w \o a) \o (b \o a))
                = Folded("form", Folded("form", NoPair, w \o a), b \o a)
            <4>1. PICK x \in Seq(Chars), y \in Seq(Chars) : x = w \o a /\ y = b \o a
                BY Concat
            <4>2. Folded("form", NoPair, x \o y) = Folded("form", Folded("form", NoPair, x), y)
                BY FoldedConcat
            <4> QED BY <4>1, <4>2
        <3>5. Good(Append(rs, q))
            BY <2>6, <2>7, <2>8, <2>9, <3>2, <3>3, <3>4
        <3> HIDE DEF Good
        <3> QED BY <2>1, <3>5
    <2> QED BY <2>10, <2>11
<1>3. qs \in Seq(T)
    <2>1. \A i \in 1..Len(qs) : qs[i] \in T
        BY ElementOfSeq
    <2>2. qs \in [1..Len(qs) -> Texts] /\ Len(qs) \in Nat
        BY LenProperties
    <2> QED BY <2>1, <2>2
<1>4. qs \in G
    <2> HIDE DEF G, T
    <2> QED BY <1>1, <1>2, <1>3, InductiveSeq
<1>5. qs # <<>> => Folded("form", NoPair, Written(qs) \o <<"&">>) = Clean(Decoded(qs))
    BY <1>4
<1>6. FormElements(Written(qs)) = Decoded(qs)
    <2>1. PICK w \in Seq(Chars) : w = Written(qs)
        BY WrittenText
    <2>2. Append(w, "&") = w \o <<"&">>
        BY <1>0, AppendIsConcat
    <2>3. FormElements(w) = Folded("form", NoPair, Append(w, "&")).pairs
        BY AsFolds
    <2>4. CASE qs # <<>>
        <3>1. Clean(Decoded(qs)).pairs = Decoded(qs)
            BY DEF Clean, InName
        <3> QED BY <1>5, <2>1, <2>2, <2>3, <2>4, <3>1
    <2>5. CASE qs = <<>>
        <3>1. w = <<>> /\ Decoded(qs) = <<>>
            <4>1. Written(<<>>) = <<>> /\ Decoded(<<>>) = <<>>
                <5>1. PieceTexts(<<>>) = <<>> /\ Decoded(<<>>) = <<>>
                    BY DEF PieceTexts, Decoded
                <5>2. Joined(<<>>) = <<>>
                    BY DEF Joined, FlattenSeq
                <5> QED BY <5>1, <5>2 DEF Written
            <4> QED BY <2>1, <2>5, <4>1
        <3>2. Append(<<>>, "&") = <<"&">>
            OBVIOUS
        <3>3. Folded("form", InName(<<>>, <<>>, <<>>), <<"&">>) = Step("form", InName(<<>>, <<>>, <<>>), "&")
            BY <1>0, FoldedOne
        <3>4. Step("form", InName(<<>>, <<>>, <<>>), "&") = InName(<<>>, Append(<<>>, "&"), <<>>)
            BY DEF Step, FormStep, InName
        <3>5. InName(<<>>, Append(<<>>, "&"), <<>>).pairs = <<>>
            BY DEF InName
        <3> QED BY <1>0, <2>1, <2>3, <3>1, <3>2, <3>3, <3>4, <3>5 DEF Clean
    <2> QED BY <2>4, <2>5
<1> QED BY <1>5, <1>6

LEMMA PlainFacts ==
    /\ Plain \subseteq Chars /\ Plain \subseteq Token
    /\ \A c \in {"=", "?", "/", "&", "%", "sp", ":"} : c \in Chars /\ c \notin Plain
BY DEF Plain, Token, Chars, Digits, Words, Blanks

LEMMA PairTexts ==
    ASSUME NEW p \in Pairs
    PROVE  /\ p \in Texts /\ IsPair(p)
           /\ <<Escaped(p[1]), Escaped(p[2])>> \in Texts
           /\ IsPair(<<Escaped(p[1]), Escaped(p[2])>>)
           /\ p[1] \in Seq(Chars \ {"%"}) /\ p[2] \in Seq(Chars \ {"%"})
           /\ p = <<p[1], p[2]>>
<1>1. PICK x \in Seq(Plain), y \in Seq(Plain \cup {"="}) : p = <<x, y>>
    BY DEF Pairs
<1>2. /\ Plain \subseteq Chars \ {"%"} /\ Plain \cup {"="} \subseteq Chars \ {"%"}
      /\ Plain \subseteq Chars \ {"=", "?"} /\ Plain \cup {"="} \subseteq Chars \ {"&"}
      /\ Chars \ {"%"} \subseteq Chars
    BY PlainFacts
<1>3. /\ x \in Seq(Chars \ {"%"}) /\ y \in Seq(Chars \ {"%"})
      /\ x \in NameText /\ y \in ValueText
    BY <1>2, SeqMonotonic DEF NameText, ValueText
<1>4. x \in Seq(Chars) /\ y \in Seq(Chars)
    BY <1>2, <1>3, SeqMonotonic
<1>5. Escaped(x) \in NameText /\ Escaped(y) \in ValueText
    <2>1. /\ {"%", "2", "1"} \subseteq Chars \ {"=", "?"}
          /\ {"%", "2", "1"} \subseteq Chars \ {"&"}
        BY DEF Chars, Digits
    <2> DEFINE S == Chars \ {"=", "?"}
               T == Chars \ {"&"}
    <2>2. x \in Seq(S) /\ y \in Seq(T)
        BY <1>3 DEF NameText, ValueText
    <2>3. {"%", "2", "1"} \subseteq S /\ {"%", "2", "1"} \subseteq T
        BY <2>1
    <2> HIDE DEF S, T
    <2>4. Escaped(x) \in Seq(S) /\ Escaped(y) \in Seq(T)
        BY <2>2, <2>3, EscapedPieces
    <2> QED BY <2>4 DEF S, T, NameText, ValueText
<1>6. Escaped(x) \in Seq(Chars) /\ Escaped(y) \in Seq(Chars)
    BY <1>3, DecodedAlone
<1>7. p[1] = x /\ p[2] = y
    BY <1>1
<1>8. PICK e : e = <<Escaped(x), Escaped(y)>>
    OBVIOUS
<1>9. e[1] = Escaped(x) /\ e[2] = Escaped(y) /\ e \in Texts /\ p \in Texts
    BY <1>1, <1>4, <1>6, <1>8 DEF Texts
<1>10. IsPair(p) /\ IsPair(e)
    BY <1>3, <1>5, <1>7, <1>9 DEF IsPair
<1> QED BY <1>1, <1>3, <1>7, <1>8, <1>9, <1>10

EscapedPairs(ps) == [i \in DOMAIN ps |-> <<Escaped(ps[i][1]), Escaped(ps[i][2])>>]

LEMMA EscapedTexts ==
    ASSUME NEW ps \in Seq(Pairs)
    PROVE  /\ EscapedPairs(ps) \in Seq(Texts) /\ Len(EscapedPairs(ps)) = Len(ps)
           /\ \A i \in 1..Len(EscapedPairs(ps)) : IsPair(EscapedPairs(ps)[i])
           /\ ps \in Seq(Texts)
           /\ \A i \in 1..Len(ps) : IsPair(ps[i])
<1>1. PICK n \in Nat : n = Len(ps)
    BY LenProperties
<1>2. DOMAIN ps = 1..n /\ \A i \in 1..n : ps[i] \in Pairs
    BY <1>1, LenProperties, ElementOfSeq
<1>3. \A i \in 1..n : /\ <<Escaped(ps[i][1]), Escaped(ps[i][2])>> \in Texts
                      /\ IsPair(<<Escaped(ps[i][1]), Escaped(ps[i][2])>>)
                      /\ ps[i] \in Texts /\ IsPair(ps[i])
    BY <1>2, PairTexts
<1>4. EscapedPairs(ps) = [i \in 1..n |-> <<Escaped(ps[i][1]), Escaped(ps[i][2])>>]
    BY <1>2 DEF EscapedPairs
<1>5. EscapedPairs(ps) \in [1..n -> Texts]
    BY <1>3, <1>4
<1>6. EscapedPairs(ps) \in Seq(Texts) /\ Len(EscapedPairs(ps)) = n
    BY <1>5
<1>7. \A i \in 1..n : IsPair(EscapedPairs(ps)[i])
    BY <1>3, <1>4
<1>8. ps \in Seq(Texts)
    <2>1. Pairs \subseteq Texts
        BY PairTexts
    <2> QED BY <2>1, SeqMonotonic
<1> QED BY <1>1, <1>3, <1>6, <1>7, <1>8

EscapedOn(ps, p) ==
    EscapedPairs(Append(ps, p)) = Append(EscapedPairs(ps), <<Escaped(p[1]), Escaped(p[2])>>)

LEMMA EscapedAppend ==
    ASSUME NEW ps \in Seq(Pairs), NEW p \in Pairs PROVE EscapedOn(ps, p)
<1>1. PICK us \in Seq(Pairs) : us = Append(ps, p)
    BY AppendProperties
<1>2. PICK n \in Nat : n = Len(ps)
    BY LenProperties
<1>3. /\ DOMAIN ps = 1..n /\ DOMAIN us = 1..(n + 1) /\ us[n + 1] = p /\ Len(us) = n + 1
      /\ \A i \in 1..n : us[i] = ps[i]
    BY <1>1, <1>2, AppendProperties, LenProperties
<1>4. PICK d \in Texts : d = <<Escaped(p[1]), Escaped(p[2])>>
    BY PairTexts
<1>5. PICK ds \in Seq(Texts) : ds = EscapedPairs(ps) /\ Len(ds) = n
    BY <1>2, EscapedTexts
<1>6. PICK es \in Seq(Texts) : es = EscapedPairs(us) /\ Len(es) = n + 1
    BY <1>3, EscapedTexts
<1>7. PICK vs \in Seq(Texts) : vs = Append(ds, d)
    BY AppendProperties
<1>8. Len(vs) = n + 1 /\ vs[n + 1] = d /\ \A i \in 1..n : vs[i] = ds[i]
    BY <1>5, <1>7, AppendProperties
<1>9. /\ \A i \in 1..n : ds[i] = <<Escaped(ps[i][1]), Escaped(ps[i][2])>>
      /\ \A i \in 1..(n + 1) : es[i] = <<Escaped(us[i][1]), Escaped(us[i][2])>>
    BY <1>3, <1>5, <1>6 DEF EscapedPairs
<1>10. ASSUME NEW i \in 1..(n + 1) PROVE es[i] = vs[i]
    <2>1. CASE i = n + 1
        BY <1>3, <1>4, <1>8, <1>9, <2>1
    <2>2. CASE i # n + 1
        <3>1. i \in 1..n
            BY <2>2
        <3> QED BY <1>3, <1>8, <1>9, <3>1
    <2> QED BY <2>1, <2>2
<1>11. es = vs
    BY <1>6, <1>8, <1>10, SeqEqual
<1> QED BY <1>1, <1>4, <1>5, <1>6, <1>7, <1>11 DEF EscapedOn

FormPiece(i, p) ==
    (((IF i = 1 THEN <<>> ELSE <<"&">>) \o Escaped(p[1])) \o <<"=">>) \o Escaped(p[2])

LEMMA FormIsWritten ==
    ASSUME NEW ps \in Seq(Pairs) PROVE FormText(ps) = Written(EscapedPairs(ps))
<1>1. ASSUME NEW i \in DOMAIN ps PROVE FormPiece(i, ps[i]) = Piece(i, EscapedPairs(ps)[i])
    <2>1. PICK p \in Pairs : p = ps[i]
        BY ElementOfSeq, LenProperties
    <2>2. PICK e \in Texts : e = <<Escaped(p[1]), Escaped(p[2])>>
        BY PairTexts
    <2>3. EscapedPairs(ps)[i] = e /\ e[1] = Escaped(p[1]) /\ e[2] = Escaped(p[2])
        BY <2>1, <2>2 DEF EscapedPairs
    <2>4. PICK a \in Seq(Chars) : a = IF i = 1 THEN <<>> ELSE <<"&">>
        <3>1. "&" \in Chars
            BY DEF Chars
        <3>2. <<"&">> \in Seq(Chars) /\ <<>> \in Seq(Chars)
            BY <3>1
        <3>3. (IF i = 1 THEN <<>> ELSE <<"&">>) \in Seq(Chars)
            BY <3>2
        <3> QED BY <3>3
    <2>5. PICK b \in Seq(Chars) : b = e[1]
        BY DEF Texts
    <2>6. PICK c \in Seq(Chars) : c = <<"=">>
        <3>1. "=" \in Chars
            BY DEF Chars
        <3>2. <<"=">> \in Seq(Chars)
            BY <3>1
        <3> QED BY <3>2
    <2>7. PICK d \in Seq(Chars) : d = e[2]
        BY DEF Texts
    <2>8. ((a \o b) \o c) \o d = a \o ((b \o c) \o d)
        <3>1. Regrouped(a, b, c, d)
            BY ConcatFour
        <3>2. (b \o c) \o d = b \o (c \o d)
            BY Concat
        <3> QED BY <3>1, <3>2 DEF Regrouped
    <2>9. FormPiece(i, p) = ((a \o b) \o c) \o d
        BY <2>3, <2>4, <2>5, <2>6, <2>7 DEF FormPiece
    <2>10. Piece(i, e) = a \o ((b \o c) \o d)
        BY <2>4, <2>5, <2>6, <2>7 DEF Piece, Body
    <2> QED BY <2>1, <2>3, <2>8, <2>9, <2>10
<1>2. FormText(ps) = Joined([i \in DOMAIN ps |-> FormPiece(i, ps[i])])
    BY DEF FormText, FormPiece
<1>3. DOMAIN EscapedPairs(ps) = DOMAIN ps
    BY DEF EscapedPairs
<1>4. Written(EscapedPairs(ps)) = Joined([i \in DOMAIN ps |-> Piece(i, EscapedPairs(ps)[i])])
    BY <1>3 DEF Written, PieceTexts
<1> QED BY <1>1, <1>2, <1>4

Assoc(a, b, c) == (a \o b) \o c = a \o (b \o c)

LEMMA Associates ==
    ASSUME NEW a \in Seq(Chars), NEW b \in Seq(Chars), NEW c \in Seq(Chars) PROVE Assoc(a, b, c)
BY ConcatAssociative DEF Assoc

\* A pair, escaped and decoded again.
LEMMA DecodePiece ==
    ASSUME NEW i, NEW p \in Pairs, NEW s \in Seq(Chars)
    PROVE  Decode(Piece(i, <<Escaped(p[1]), Escaped(p[2])>>) \o s) = Piece(i, p) \o Decode(s)
<1>1. PICK x \in Seq(Chars \ {"%"}), y \in Seq(Chars \ {"%"}) : x = p[1] /\ y = p[2]
    BY PairTexts
<1>2. PICK e : e = <<Escaped(x), Escaped(y)>>
    OBVIOUS
<1>3. PICK u \in Seq(Chars), v \in Seq(Chars) : u = Escaped(x) /\ v = Escaped(y)
    BY DecodedAlone
<1>4. e[1] = u /\ e[2] = v
    BY <1>2, <1>3
<1>5. PICK q \in Seq(Chars), a \in Seq(Chars) : q = <<"=">> /\ a = <<"&">>
    <2>1. "=" \in Chars /\ "&" \in Chars
        BY DEF Chars
    <2>2. <<"=">> \in Seq(Chars) /\ <<"&">> \in Seq(Chars)
        BY <2>1
    <2> QED BY <2>2
<1>6. x \in Seq(Chars) /\ y \in Seq(Chars) /\ Decode(s) \in Seq(Chars)
    BY DecodedAlone, DecodedText
<1>7. ASSUME NEW z \in Seq(Chars)
      PROVE  Decode(q \o z) = q \o Decode(z) /\ Decode(a \o z) = a \o Decode(z)
    <2>1. "=" \in Chars /\ "&" \in Chars /\ "=" # "%" /\ "&" # "%"
        BY DEF Chars
    <2> QED BY <1>5, <2>1, DecodeFront
<1>8. Decode(((u \o q) \o v) \o s) = ((x \o q) \o y) \o Decode(s)
    <2>1. PICK z \in Seq(Chars) : z = v \o s
        BY Concat
    <2>2. PICK w \in Seq(Chars) : w = q \o z
        BY Concat
    <2>3. PICK d \in Seq(Chars) : d = Decode(s)
        BY <1>6
    <2>4. ((u \o q) \o v) \o s = u \o w
        <3>1. Regrouped(u, q, v, s)
            BY ConcatFour
        <3> QED BY <2>1, <2>2, <3>1 DEF Regrouped
    <2>5. Decode(u \o w) = x \o Decode(w)
        BY <1>3, DecodeEscaped
    <2>6. Decode(w) = q \o Decode(z)
        BY <1>7, <2>2
    <2>7. Decode(z) = y \o d
        BY <1>3, <2>1, <2>3, DecodeEscaped
    <2>8. ((x \o q) \o y) \o d = x \o (q \o (y \o d))
        <3>1. Regrouped(x, q, y, d)
            BY <1>6, ConcatFour
        <3> QED BY <3>1 DEF Regrouped
    <2> QED BY <2>3, <2>4, <2>5, <2>6, <2>7, <2>8
<1>9. Decode(Body(e) \o s) = Body(p) \o Decode(s)
    BY <1>1, <1>4, <1>5, <1>8 DEF Body
<1>10. PICK f \in Seq(Chars), g \in Seq(Chars) : f = Body(e) /\ g = Body(p)
    <2>1. e \in Texts /\ p \in Texts
        BY <1>1, <1>2, PairTexts
    <2> QED BY <2>1, PieceText
<1>11. CASE i = 1
    <2>1. Piece(i, e) = <<>> \o f /\ Piece(i, p) = <<>> \o g
        BY <1>10, <1>11 DEF Piece
    <2>2. <<>> \o f = f /\ <<>> \o g = g
        BY ConcatEmptySeq
    <2> QED BY <1>1, <1>2, <1>9, <1>10, <2>1, <2>2
<1>12. CASE i # 1
    <2>1. Piece(i, e) = a \o f /\ Piece(i, p) = a \o g
        BY <1>5, <1>10, <1>12 DEF Piece
    <2>2. PICK z \in Seq(Chars) : z = f \o s
        BY Concat
    <2>3. PICK d \in Seq(Chars) : d = Decode(s)
        BY <1>6
    <2>a. Assoc(a, f, s) /\ Assoc(a, g, d)
        BY Associates
    <2>4. (a \o f) \o s = a \o z /\ (a \o g) \o d = a \o (g \o d)
        BY <2>2, <2>a DEF Assoc
    <2>5. Decode(a \o z) = a \o Decode(z)
        BY <1>7
    <2> QED BY <1>1, <1>2, <1>9, <1>10, <2>1, <2>2, <2>3, <2>4, <2>5
<1> QED BY <1>11, <1>12

LEMMA DecodeForm ==
    ASSUME NEW ps \in Seq(Pairs), NEW s \in Seq(Chars)
    PROVE  Decode(FormText(ps) \o s) = Written(ps) \o Decode(s)
<1> DEFINE Good(rs, t) == Decode(Written(EscapedPairs(rs)) \o t) = Written(rs) \o Decode(t)
           G == {rs \in Seq(Pairs) : \A t \in Seq(Chars) : Good(rs, t)}
<1>1. <<>> \in G
    <2>1. EscapedPairs(<<>>) = <<>> /\ Written(<<>>) = <<>> /\ <<>> \in Seq(Pairs)
        <3>1. EscapedPairs(<<>>) = <<>> /\ PieceTexts(<<>>) = <<>> /\ <<>> \in Seq(Pairs)
            BY DEF EscapedPairs, PieceTexts
        <3>2. Joined(<<>>) = <<>>
            BY DEF Joined, FlattenSeq
        <3> QED BY <3>1, <3>2 DEF Written
    <2>2. ASSUME NEW t \in Seq(Chars) PROVE Good(<<>>, t)
        <3>1. <<>> \o t = t /\ <<>> \o Decode(t) = Decode(t)
            BY DecodedText, ConcatEmptySeq
        <3> QED BY <2>1, <3>1
    <2> HIDE DEF Good
    <2> QED BY <2>1, <2>2
<1>2. ASSUME NEW rs \in Seq(Pairs), rs \in G, NEW p \in Pairs PROVE Append(rs, p) \in G
    <2>1. PICK us \in Seq(Pairs) : us = Append(rs, p)
        BY AppendProperties
    <2>2. PICK e \in Texts : e = <<Escaped(p[1]), Escaped(p[2])>>
        BY PairTexts
    <2>3. PICK es \in Seq(Texts) : es = EscapedPairs(rs) /\ Len(es) = Len(rs)
        BY EscapedTexts
    <2>4. EscapedPairs(us) = Append(es, e)
        <3>1. EscapedOn(rs, p)
            BY EscapedAppend
        <3> QED BY <2>1, <2>2, <2>3, <3>1 DEF EscapedOn
    <2>5. rs \in Seq(Texts) /\ p \in Texts
        BY EscapedTexts, PairTexts
    <2>6. WrittenOn(es, e) /\ WrittenOn(rs, p)
        BY <2>5, WrittenAppend
    <2>7. PICK n : n = Len(rs) + 1
        OBVIOUS
    <2>8. PICK a \in Seq(Chars), b \in Seq(Chars) : a = Written(es) /\ b = Piece(n, e)
        BY WrittenText, PieceText
    <2>9. PICK c \in Seq(Chars), d \in Seq(Chars) : c = Written(rs) /\ d = Piece(n, p)
        BY <2>5, WrittenText, PieceText
    <2>10. Written(EscapedPairs(us)) = a \o b /\ Written(us) = c \o d
        BY <2>1, <2>3, <2>4, <2>6, <2>7, <2>8, <2>9 DEF WrittenOn
    <2>11. ASSUME NEW t \in Seq(Chars) PROVE Good(us, t)
        <3>1. PICK f \in Seq(Chars) : f = Decode(t)
            BY DecodedText
        <3>2. PICK z \in Seq(Chars) : z = b \o t
            BY Concat
        <3>a. Assoc(a, b, t) /\ Assoc(c, d, f)
            BY Associates
        <3>3. (a \o b) \o t = a \o z /\ (c \o d) \o f = c \o (d \o f)
            BY <3>2, <3>a DEF Assoc
        <3>4. Good(rs, z)
            BY <1>2
        <3>5. Decode(a \o z) = c \o Decode(z)
            BY <2>3, <2>8, <2>9, <3>4
        <3>6. Decode(z) = d \o f
            BY <2>2, <2>8, <2>9, <3>1, <3>2, DecodePiece
        <3> QED BY <2>10, <3>1, <3>3, <3>5, <3>6
    <2> HIDE DEF Good
    <2> QED BY <2>1, <2>11
<1>3. ps \in G
    <2> HIDE DEF G
    <2> QED BY <1>1, <1>2, InductiveSeq
<1> QED BY <1>3, FormIsWritten

LEMMA DecodedPairs ==
    ASSUME NEW ps \in Seq(Pairs) PROVE Decoded(ps) = ps /\ Decoded(EscapedPairs(ps)) = ps
<1>1. PICK n \in Nat : n = Len(ps)
    BY LenProperties
<1>2. DOMAIN ps = 1..n /\ ps = [i \in 1..n |-> ps[i]]
    BY <1>1, LenProperties
<1>3. ASSUME NEW i \in 1..n
      PROVE  /\ <<Decode(ps[i][1]), Decode(ps[i][2])>> = ps[i]
             /\ <<Decode(EscapedPairs(ps)[i][1]), Decode(EscapedPairs(ps)[i][2])>> = ps[i]
    <2>1. PICK p \in Pairs : p = ps[i]
        BY <1>1, ElementOfSeq
    <2>2. p[1] \in Seq(Chars \ {"%"}) /\ p[2] \in Seq(Chars \ {"%"}) /\ p = <<p[1], p[2]>>
        BY PairTexts
    <2>3. EscapedPairs(ps)[i] = <<Escaped(p[1]), Escaped(p[2])>>
        BY <1>2, <2>1 DEF EscapedPairs
    <2>4. /\ Decode(p[1]) = p[1] /\ Decode(Escaped(p[1])) = p[1]
          /\ Decode(p[2]) = p[2] /\ Decode(Escaped(p[2])) = p[2]
        BY <2>2, DecodedAlone
    <2>5. EscapedPairs(ps)[i][1] = Escaped(p[1]) /\ EscapedPairs(ps)[i][2] = Escaped(p[2])
        BY <2>3
    <2> QED BY <2>1, <2>2, <2>4, <2>5
<1>4. DOMAIN EscapedPairs(ps) = 1..n
    BY <1>2 DEF EscapedPairs
<1>5. Decoded(ps) = [i \in 1..n |-> ps[i]]
    BY <1>2, <1>3 DEF Decoded
<1>6. Decoded(EscapedPairs(ps)) = [i \in 1..n |-> ps[i]]
    BY <1>3, <1>4 DEF Decoded
<1> QED BY <1>2, <1>5, <1>6

\* A form is read back as it was written, escaped or not.
LEMMA FormFacts ==
    ASSUME NEW ps \in Seq(Pairs)
    PROVE  /\ FormText(ps) \in Seq(Chars) /\ Written(ps) \in Seq(Chars)
           /\ FormElements(FormText(ps)) = ps
           /\ Decode(FormText(ps)) = Written(ps) /\ FormElements(Written(ps)) = ps
           /\ ps # <<>> => /\ Folded("form", NoPair, FormText(ps) \o <<"&">>) = Clean(ps)
                           /\ Written(ps) # <<>>
           /\ ps = <<>> => FormText(ps) = <<>> /\ Written(ps) = <<>>
<1>1. PICK es \in Seq(Texts) : es = EscapedPairs(ps) /\ (\A i \in 1..Len(es) : IsPair(es[i])) /\ Len(es) = Len(ps)
    BY EscapedTexts
<1>2. ps \in Seq(Texts) /\ \A i \in 1..Len(ps) : IsPair(ps[i])
    BY EscapedTexts
<1>3. Decoded(es) = ps /\ Decoded(ps) = ps /\ FormText(ps) = Written(es)
    BY <1>1, DecodedPairs, FormIsWritten
<1>4. Written(es) \in Seq(Chars) /\ Written(ps) \in Seq(Chars)
    BY <1>2, WrittenText
<1>5. FormElements(Written(es)) = ps /\ FormElements(Written(ps)) = ps
    <2>1. FormElements(Written(es)) = Decoded(es)
        BY <1>1, FormRead
    <2>2. FormElements(Written(ps)) = Decoded(ps)
        BY <1>2, FormRead
    <2> QED BY <1>3, <2>1, <2>2
<1>6. Decode(FormText(ps)) = Written(ps)
    <2>0. <<>> \in Seq(Chars)
        OBVIOUS
    <2>1. PICK z \in Seq(Chars) : z = <<>>
        BY <2>0
    <2>2. Decode(FormText(ps) \o z) = Written(ps) \o Decode(z)
        BY DecodeForm
    <2>3. FormText(ps) \o <<>> = FormText(ps) /\ Written(ps) \o <<>> = Written(ps)
        BY <1>3, <1>4, ConcatEmptySeq
    <2> QED BY <2>1, <2>2, <2>3, NothingDecoded
<1>7. Written(<<>>) = <<>>
    <2>1. PieceTexts(<<>>) = <<>>
        BY DEF PieceTexts
    <2>2. Joined(<<>>) = <<>>
        BY DEF Joined, FlattenSeq
    <2> QED BY <2>1, <2>2 DEF Written
<1>8. ASSUME ps # <<>>
      PROVE  Folded("form", NoPair, FormText(ps) \o <<"&">>) = Clean(ps) /\ Written(ps) # <<>>
    <2>1. es # <<>>
        BY <1>1, <1>8, EmptySeq
    <2>2. Folded("form", NoPair, Written(es) \o <<"&">>) = Clean(Decoded(es))
        BY <1>1, <2>1, FormRead
    <2>a. <<>> \in Seq(Texts)
        OBVIOUS
    <2>3. PICK zs \in Seq(Texts) : zs = <<>>
        BY <2>a
    <2>4. FormElements(Written(zs)) = Decoded(zs)
        <3>1. \A i \in 1..Len(zs) : IsPair(zs[i])
            BY <2>3
        <3> QED BY <3>1, FormRead
    <2>5. Decoded(<<>>) = <<>>
        BY DEF Decoded
    <2>6. Written(ps) # <<>>
        BY <1>5, <1>7, <1>8, <2>3, <2>4, <2>5
    <2> QED BY <1>3, <2>2, <2>6
<1>9. ps = <<>> => FormText(ps) = <<>> /\ Written(ps) = <<>>
    <2>1. EscapedPairs(<<>>) = <<>>
        BY DEF EscapedPairs
    <2> QED BY <1>1, <1>3, <1>7, <2>1
<1> QED BY <1>3, <1>4, <1>5, <1>6, <1>8, <1>9

------------------------------------------------------------------------------
(* The path.                                                               *)

PathPiece(k, x) == <<"/">> \o IF k = "escaped" THEN Escaped(x) ELSE x
PathTexts(k, ps) == [i \in DOMAIN ps |-> PathPiece(k, ps[i])]
PathOf(k, ps) == Joined(PathTexts(k, ps))
Names == Seq(Plain) \ {<<>>}
PathChars == Plain \cup {"/", "%"}

LEMMA PathPieceText ==
    ASSUME NEW k, NEW x \in Seq(Plain)
    PROVE  /\ PathPiece(k, x) \in Seq(PathChars)
           /\ k = "raw" => PathPiece(k, x) \in Seq(Plain \cup {"/"}) /\ PathPiece(k, x) = <<"/">> \o x
           /\ k = "escaped" => PathPiece(k, x) = <<"/">> \o Escaped(x)
           /\ x \in Seq(Chars) /\ x \in Seq(Chars \ {"%"})
<1>1. /\ Plain \subseteq PathChars /\ Plain \subseteq Plain \cup {"/"} /\ Plain \subseteq Chars
      /\ Plain \subseteq Chars \ {"%"}
    BY PlainFacts DEF PathChars
<1>2. x \in Seq(PathChars) /\ x \in Seq(Plain \cup {"/"}) /\ x \in Seq(Chars) /\ x \in Seq(Chars \ {"%"})
    BY <1>1, SeqMonotonic
<1>3. Escaped(x) \in Seq(PathChars)
    <2>1. {"%", "2", "1"} \subseteq PathChars
        BY DEF PathChars, Plain, Token, Digits
    <2> QED BY <1>2, <2>1, EscapedPieces
<1>4. <<"/">> \in Seq(PathChars) /\ <<"/">> \in Seq(Plain \cup {"/"})
    <2>1. "/" \in PathChars /\ "/" \in Plain \cup {"/"}
        BY DEF PathChars
    <2> QED BY <2>1
<1>5. <<"/">> \o x \in Seq(PathChars) /\ <<"/">> \o x \in Seq(Plain \cup {"/"})
    BY <1>2, <1>4, ConcatProperties
<1>6. <<"/">> \o Escaped(x) \in Seq(PathChars)
    BY <1>3, <1>4, ConcatProperties
<1> QED BY <1>2, <1>5, <1>6 DEF PathPiece

LEMMA PathText ==
    ASSUME NEW k, NEW ps \in Seq(Seq(Plain))
    PROVE  /\ PathTexts(k, ps) \in Seq(Seq(PathChars)) /\ Len(PathTexts(k, ps)) = Len(ps)
           /\ PathOf(k, ps) \in Seq(PathChars)
           /\ k = "raw" => PathOf(k, ps) \in Seq(Plain \cup {"/"})
           /\ PathOf(k, <<>>) = <<>>
<1>1. DOMAIN ps = 1..Len(ps) /\ Len(ps) \in Nat /\ \A i \in 1..Len(ps) : ps[i] \in Seq(Plain)
    BY LenProperties, ElementOfSeq
<1>2. PathTexts(k, ps) = [i \in 1..Len(ps) |-> PathPiece(k, ps[i])]
    BY <1>1 DEF PathTexts
<1>3. PathTexts(k, ps) \in Seq(Seq(PathChars)) /\ Len(PathTexts(k, ps)) = Len(ps)
    <2>1. \A i \in 1..Len(ps) : PathPiece(k, ps[i]) \in Seq(PathChars)
        BY <1>1, PathPieceText
    <2> QED BY <1>1, <1>2, <2>1
<1>4. ASSUME k = "raw" PROVE PathTexts(k, ps) \in Seq(Seq(Plain \cup {"/"}))
    <2>1. \A i \in 1..Len(ps) : PathPiece(k, ps[i]) \in Seq(Plain \cup {"/"})
        BY <1>1, <1>4, PathPieceText
    <2> QED BY <1>1, <1>2, <2>1
<1>5. PathOf(k, ps) \in Seq(PathChars)
    BY <1>3, JoinedText DEF PathOf
<1>6. k = "raw" => PathOf(k, ps) \in Seq(Plain \cup {"/"})
    BY <1>4, JoinedText DEF PathOf
<1>7. PathOf(k, <<>>) = <<>>
    <2>1. PathTexts(k, <<>>) = <<>>
        BY DEF PathTexts
    <2>2. Joined(<<>>) = <<>>
        BY DEF Joined, FlattenSeq
    <2> QED BY <2>1, <2>2 DEF PathOf
<1> QED BY <1>3, <1>5, <1>6, <1>7

PathOn(k, ps, x) == PathOf(k, Append(ps, x)) = PathOf(k, ps) \o PathPiece(k, x)

LEMMA PathAppend ==
    ASSUME NEW k, NEW ps \in Seq(Seq(Plain)), NEW x \in Seq(Plain) PROVE PathOn(k, ps, x)
<1>1. PICK us \in Seq(Seq(Plain)) : us = Append(ps, x)
    BY AppendProperties
<1>2. PICK n \in Nat : n = Len(ps)
    BY LenProperties
<1>3. /\ DOMAIN ps = 1..n /\ DOMAIN us = 1..(n + 1) /\ us[n + 1] = x /\ Len(us) = n + 1
      /\ \A i \in 1..n : us[i] = ps[i]
    BY <1>1, <1>2, AppendProperties, LenProperties
<1>4. PICK a \in Seq(PathChars) : a = PathPiece(k, x)
    BY PathPieceText
<1>5. PICK qs \in Seq(Seq(PathChars)) : qs = PathTexts(k, ps) /\ Len(qs) = n
    BY <1>2, PathText
<1>6. PICK ts \in Seq(Seq(PathChars)) : ts = PathTexts(k, us) /\ Len(ts) = n + 1
    BY <1>3, PathText
<1>7. PICK vs \in Seq(Seq(PathChars)) : vs = Append(qs, a)
    BY AppendProperties
<1>8. Len(vs) = n + 1 /\ vs[n + 1] = a /\ \A i \in 1..n : vs[i] = qs[i]
    BY <1>5, <1>7, AppendProperties
<1>9. /\ \A i \in 1..n : qs[i] = PathPiece(k, ps[i])
      /\ \A i \in 1..(n + 1) : ts[i] = PathPiece(k, us[i])
    BY <1>3, <1>5, <1>6 DEF PathTexts
<1>10. ASSUME NEW i \in 1..(n + 1) PROVE ts[i] = vs[i]
    <2>1. CASE i = n + 1
        BY <1>3, <1>4, <1>8, <1>9, <2>1
    <2>2. CASE i # n + 1
        <3>1. i \in 1..n
            BY <2>2
        <3> QED BY <1>3, <1>8, <1>9, <3>1
    <2> QED BY <2>1, <2>2
<1>11. ts = vs
    BY <1>6, <1>8, <1>10, SeqEqual
<1>12. Joined(Append(qs, a)) = Joined(qs) \o a
    BY JoinedAppend
<1> QED BY <1>1, <1>4, <1>5, <1>6, <1>7, <1>11, <1>12 DEF PathOn, PathOf

LEMMA PathCharsAreChars == PathChars \subseteq Chars
BY PlainFacts DEF PathChars

LEMMA PathIsText ==
    ASSUME NEW k, NEW ps \in Seq(Seq(Plain)) PROVE PathOf(k, ps) \in Seq(Chars)
BY PathText, PathCharsAreChars, SeqMonotonic

LEMMA PieceIsText ==
    ASSUME NEW k, NEW x \in Seq(Plain) PROVE PathPiece(k, x) \in Seq(Chars)
BY PathPieceText, PathCharsAreChars, SeqMonotonic

DecodesTo(ps, s) == Decode(PathOf("escaped", ps) \o s) = PathOf("raw", ps) \o Decode(s)

LEMMA DecodePath ==
    ASSUME NEW ps \in Seq(Seq(Plain)), NEW s \in Seq(Chars) PROVE DecodesTo(ps, s)
<1> DEFINE G == {rs \in Seq(Seq(Plain)) : \A t \in Seq(Chars) : DecodesTo(rs, t)}
<1>1. <<>> \in G
    <2>0. <<>> \in Seq(Seq(Plain))
        OBVIOUS
    <2>1. PathOf("escaped", <<>>) = <<>> /\ PathOf("raw", <<>>) = <<>>
        BY <2>0, PathText
    <2>2. ASSUME NEW t \in Seq(Chars) PROVE DecodesTo(<<>>, t)
        <3>1. <<>> \o t = t /\ <<>> \o Decode(t) = Decode(t)
            BY DecodedText, ConcatEmptySeq
        <3> QED BY <2>1, <3>1 DEF DecodesTo
    <2> QED BY <2>0, <2>2
<1>2. ASSUME NEW rs \in Seq(Seq(Plain)), rs \in G, NEW x \in Seq(Plain) PROVE Append(rs, x) \in G
    <2>1. PICK us \in Seq(Seq(Plain)) : us = Append(rs, x)
        BY AppendProperties
    <2>2. PICK a \in Seq(Chars), b \in Seq(Chars) : a = PathOf("escaped", rs) /\ b = PathPiece("escaped", x)
        BY PathIsText, PieceIsText
    <2>3. PICK c \in Seq(Chars), d \in Seq(Chars) : c = PathOf("raw", rs) /\ d = PathPiece("raw", x)
        BY PathIsText, PieceIsText
    <2>4. PathOf("escaped", us) = a \o b /\ PathOf("raw", us) = c \o d
        <3>1. PathOn("escaped", rs, x) /\ PathOn("raw", rs, x)
            BY PathAppend
        <3> QED BY <2>1, <2>2, <2>3, <3>1 DEF PathOn
    <2>5. ASSUME NEW t \in Seq(Chars) PROVE DecodesTo(us, t)
        <3>1. PICK f \in Seq(Chars) : f = Decode(t)
            BY DecodedText
        <3>2. PICK z \in Seq(Chars) : z = b \o t
            BY Concat
        <3>3. Assoc(a, b, t) /\ Assoc(c, d, f)
            BY Associates
        <3>4. DecodesTo(rs, z)
            BY <1>2
        <3>5. Decode(z) = d \o f
            <4>1. PICK e \in Seq(Chars) : e = Escaped(x) /\ x \in Seq(Chars) /\ x \in Seq(Chars \ {"%"})
                BY PathPieceText, DecodedAlone
            <4>2. PICK l \in Seq(Chars) : l = <<"/">>
                <5>1. "/" \in Chars
                    BY PlainFacts
                <5>2. <<"/">> \in Seq(Chars)
                    BY <5>1
                <5> QED BY <5>2
            <4>3. b = l \o e /\ d = l \o x
                BY <2>2, <2>3, <4>1, <4>2 DEF PathPiece
            <4>4. PICK y \in Seq(Chars) : y = e \o t
                BY Concat
            <4>5. Assoc(l, e, t) /\ Assoc(l, x, f)
                BY <4>1, Associates
            <4>6. Decode(<<"/">> \o y) = <<"/">> \o Decode(y)
                <5>1. "/" \in Chars /\ "/" # "%"
                    BY PlainFacts
                <5> QED BY <5>1, DecodeFront
            <4>7. Decode(y) = x \o f
                BY <3>1, <4>1, <4>4, DecodeEscaped
            <4> QED BY <3>2, <4>2, <4>3, <4>4, <4>5, <4>6, <4>7 DEF Assoc
        <3> QED BY <2>2, <2>3, <2>4, <3>1, <3>2, <3>3, <3>4, <3>5 DEF Assoc, DecodesTo
    <2> QED BY <2>1, <2>5
<1>3. ps \in G
    <2> HIDE DEF G
    <2> QED BY <1>1, <1>2, InductiveSeq
<1> QED BY <1>3

------------------------------------------------------------------------------
(* The elements of a path.                                                 *)

ElementGrows(es, u, c) == PathStep(Append(es, u), c) = Append(es, Append(u, c))

LEMMA PathStepChar ==
    ASSUME NEW es \in Seq(Seq(Chars)), NEW u \in Seq(Chars), NEW c \in Chars, c # "/"
    PROVE  ElementGrows(es, u, c)
<1>1. PICK us \in Seq(Seq(Chars)) : us = Append(es, u)
    BY AppendProperties
<1>2. PICK n \in Nat : n = Len(es)
    BY LenProperties
<1>3. Len(us) = n + 1 /\ us[n + 1] = u /\ \A i \in 1..n : us[i] = es[i]
    BY <1>1, <1>2, AppendProperties
<1>4. PICK v \in Seq(Chars) : v = Append(u, c)
    BY AppendProperties
<1>5. PICK vs \in Seq(Seq(Chars)) : vs = Append(es, v)
    BY AppendProperties
<1>6. Len(vs) = n + 1 /\ vs[n + 1] = v /\ \A i \in 1..n : vs[i] = es[i]
    BY <1>2, <1>5, AppendProperties
<1>7. PathStep(us, c) = [us EXCEPT ![n + 1] = Append(@, c)]
    BY <1>3 DEF PathStep
<1>8. PICK ws : ws = [us EXCEPT ![n + 1] = Append(@, c)]
    OBVIOUS
<1>9. us \in [1..(n + 1) -> Seq(Chars)]
    BY <1>3, LenProperties
<1>10. ws \in [1..(n + 1) -> Seq(Chars)] /\ ws[n + 1] = v /\ \A i \in 1..n : ws[i] = us[i]
    <2>1. ws = [i \in 1..(n + 1) |-> IF i = n + 1 THEN v ELSE us[i]]
        BY <1>3, <1>4, <1>8, <1>9
    <2>2. \A i \in 1..n : i # n + 1 /\ i \in 1..(n + 1)
        OBVIOUS
    <2> QED BY <1>9, <2>1, <2>2
<1>11. ws \in Seq(Seq(Chars)) /\ Len(ws) = n + 1
    BY <1>10
<1>12. \A i \in 1..(n + 1) : ws[i] = vs[i]
    <2>1. \A i \in 1..(n + 1) : i = n + 1 \/ i \in 1..n
        OBVIOUS
    <2> QED BY <1>3, <1>6, <1>10, <2>1
<1>13. ws = vs
    BY <1>6, <1>11, <1>12, SeqEqual
<1> QED BY <1>1, <1>4, <1>5, <1>7, <1>8, <1>13 DEF ElementGrows

LEMMA PathStepSlash ==
    ASSUME NEW es, Len(es) > 1 => es[Len(es)] # <<>>
    PROVE  PathStep(es, "/") = Append(es, <<>>)
BY DEF PathStep, Last

LEMMA ElementRead ==
    ASSUME NEW es \in Seq(Seq(Chars)), NEW u \in Seq(Chars), NEW x \in Seq(Plain)
    PROVE  Folded("path", Append(es, u), x) = Append(es, u \o x)
<1> DEFINE b == Append(es, u)
           Good(y) == Folded("path", b, y) = Append(es, u \o y)
           G == {y \in Seq(Plain) : Good(y)}
<1>0. Plain \subseteq Chars /\ "/" \notin Plain /\ \E c \in Chars : TRUE
    BY PlainFacts DEF Chars
<1>1. <<>> \in G
    <2>1. u \o <<>> = u /\ <<>> \in Seq(Plain)
        BY ConcatEmptySeq
    <2>2. Folded("path", b, <<>>) = b
        <3> HIDE DEF b
        <3> QED BY <1>0, FoldedOne
    <2> QED BY <2>1, <2>2
<1>2. ASSUME NEW y \in Seq(Plain), y \in G, NEW c \in Plain PROVE Append(y, c) \in G
    <2>1. Append(y, c) \in Seq(Plain) /\ y \in Seq(Chars) /\ c \in Chars /\ c # "/"
        <3>1. y \in Seq(Chars)
            <4> HIDE DEF G
            <4> QED BY <1>0, SeqMonotonic
        <3> QED BY <1>0, <3>1, AppendProperties
    <2>2. Folded("path", b, Append(y, c)) = Step("path", Folded("path", b, y), c)
        <3> HIDE DEF b, G
        <3> QED BY <2>1, FoldedAppend
    <2>3. Folded("path", b, y) = Append(es, u \o y)
        BY <1>2
    <2>4. PICK m \in Seq(Chars) : m = u \o y
        BY <2>1, Concat
    <2>5. ElementGrows(es, m, c)
        BY <2>1, PathStepChar
    <2>6. Carries(u, y, c)
        BY <2>1, ConcatAppend
    <2>7. Good(Append(y, c))
        BY <2>2, <2>3, <2>4, <2>5, <2>6 DEF ElementGrows, Carries, Step
    <2> HIDE DEF Good
    <2> QED BY <2>1, <2>7
<1>3. x \in G
    <2> HIDE DEF G
    <2> QED BY <1>1, <1>2, InductiveSeq
<1> QED BY <1>3

Root == << <<>> >>

IsConcat(s, a, b) ==
    /\ Len(s) = Len(a) + Len(b)
    /\ \A i \in 1..(Len(a) + Len(b)) : s[i] = IF i <= Len(a) THEN a[i] ELSE b[i - Len(a)]

LEMMA ConcatIs ==
    ASSUME NEW T, NEW a \in Seq(T), NEW b \in Seq(T) PROVE IsConcat(a \o b, a, b)
BY ConcatProperties DEF IsConcat

LEMMA NamesAreTexts ==
    /\ Names \subseteq Seq(Plain) /\ Seq(Plain) \subseteq Seq(Chars) /\ Names \subseteq Seq(Chars)
    /\ Seq(Names) \subseteq Seq(Seq(Plain)) /\ Seq(Names) \subseteq Seq(Seq(Chars))
<1>1. Names \subseteq Seq(Plain)
    BY DEF Names
<1>2. Seq(Plain) \subseteq Seq(Chars)
    BY PlainFacts, SeqMonotonic
<1>3. Names \subseteq Seq(Chars)
    BY <1>1, <1>2
<1> QED BY <1>1, <1>2, <1>3, SeqMonotonic

ReadsPath(ps) == Folded("path", Root, PathOf("raw", ps)) = Root \o ps

LEMMA PathRead ==
    ASSUME NEW ps \in Seq(Names) PROVE ReadsPath(ps)
<1> DEFINE G == {rs \in Seq(Names) : ReadsPath(rs)}
<1>0. /\ Root \in Seq(Seq(Chars)) /\ Len(Root) = 1 /\ Root # <<>>
      /\ \E c \in Chars : TRUE
    <2>1. <<>> \in Seq(Chars)
        OBVIOUS
    <2> QED BY <2>1 DEF Root, Chars
<1>1. <<>> \in G
    <2>0. <<>> \in Seq(Names) /\ <<>> \in Seq(Seq(Plain))
        OBVIOUS
    <2>1. PathOf("raw", <<>>) = <<>>
        BY <2>0, PathText
    <2>2. Folded("path", Root, <<>>) = Root
        BY <1>0, FoldedOne
    <2>3. Root \o <<>> = Root
        BY <1>0, ConcatEmptySeq
    <2> QED BY <2>0, <2>1, <2>2, <2>3 DEF ReadsPath
<1>2. ASSUME NEW rs \in Seq(Names), rs \in G, NEW x \in Names PROVE Append(rs, x) \in G
    <2>1. rs \in Seq(Seq(Plain)) /\ rs \in Seq(Seq(Chars)) /\ x \in Seq(Plain) /\ x \in Seq(Chars) /\ x # <<>>
        BY NamesAreTexts DEF Names
    <2>2. PICK us \in Seq(Names) : us = Append(rs, x)
        BY AppendProperties
    <2>3. PICK a \in Seq(Chars), b \in Seq(Chars) : a = PathOf("raw", rs) /\ b = PathPiece("raw", x)
        BY <2>1, PathIsText, PieceIsText
    <2>4. PathOf("raw", us) = a \o b
        <3>1. PathOn("raw", rs, x)
            BY <2>1, PathAppend
        <3> QED BY <2>2, <2>3, <3>1 DEF PathOn
    <2>5. PICK l \in Seq(Chars) : l = <<"/">>
        <3>1. "/" \in Chars
            BY PlainFacts
        <3>2. <<"/">> \in Seq(Chars)
            BY <3>1
        <3> QED BY <3>2
    <2>6. PICK es \in Seq(Seq(Chars)) : es = Root \o rs
        BY <1>0, <2>1, ConcatProperties
    <2>7. Folded("path", Root, a) = es
        BY <1>2, <2>3, <2>6 DEF ReadsPath
    <2>8. Folded("path", Root, a \o b) = Folded("path", es, b)
        <3>1. Folded("path", Root, a \o b) = Folded("path", Folded("path", Root, a), b)
            BY FoldedConcat
        <3> QED BY <2>7, <3>1
    <2>9. b = l \o x
        BY <2>3, <2>5 DEF PathPiece
    <2>10. Folded("path", es, l \o x) = Folded("path", Folded("path", es, l), x)
        BY <2>1, FoldedConcat
    <2>11. Len(es) > 1 => es[Len(es)] # <<>>
        <3>1. PICK n \in Nat : n = Len(rs)
            BY LenProperties
        <3>2. /\ Len(es) = n + 1
              /\ \A i \in 1..(1 + n) : es[i] = IF i <= 1 THEN Root[i] ELSE rs[i - 1]
            <4>1. IsConcat(Root \o rs, Root, rs)
                BY <1>0, <2>1, ConcatIs
            <4> QED BY <1>0, <2>6, <3>1, <4>1 DEF IsConcat
        <3>3. n > 0 => es[n + 1] = rs[n] /\ rs[n] \in Names
            <4>1. n > 0 => n + 1 \in 1..(1 + n) /\ ~(n + 1 <= 1) /\ (n + 1) - 1 = n /\ n \in 1..n
                BY <3>1
            <4> QED BY <3>1, <3>2, <4>1, ElementOfSeq
        <3>4. n > 0 => es[n + 1] # <<>>
            BY <3>3 DEF Names
        <3> QED BY <3>2, <3>4
    <2>12. Folded("path", es, l) = Append(es, <<>>)
        <3>1. Folded("path", es, <<"/">>) = Step("path", es, "/")
            <4>1. "/" \in Chars
                BY PlainFacts
            <4> QED BY <4>1, FoldedOne
        <3>2. PathStep(es, "/") = Append(es, <<>>)
            BY <2>11, PathStepSlash
        <3> QED BY <2>5, <3>1, <3>2 DEF Step
    <2>13. Folded("path", Append(es, <<>>), x) = Append(es, x)
        <3>1. <<>> \in Seq(Chars)
            OBVIOUS
        <3>2. PICK e \in Seq(Chars) : e = <<>>
            BY <3>1
        <3>3. Folded("path", Append(es, e), x) = Append(es, e \o x)
            BY <2>1, ElementRead
        <3>4. <<>> \o x = x
            BY <2>1, ConcatEmptySeq
        <3> QED BY <3>2, <3>3, <3>4
    <2>14. Append(es, x) = Root \o us
        <3>1. Carries(Root, rs, x)
            BY <1>0, <2>1, ConcatAppend
        <3> QED BY <2>2, <2>6, <3>1 DEF Carries
    <2>15. ReadsPath(us)
        BY <2>4, <2>8, <2>9, <2>10, <2>12, <2>13, <2>14 DEF ReadsPath
    <2> QED BY <2>2, <2>15
<1>3. ps \in G
    <2> HIDE DEF G
    <2> QED BY <1>1, <1>2, InductiveSeq
<1> QED BY <1>3

TailOf(es) == Tail(Root \o es) = es

LEMMA TailOfRoot ==
    ASSUME NEW es \in Seq(Seq(Chars)) PROVE TailOf(es)
<1>1. Root \in Seq(Seq(Chars)) /\ Len(Root) = 1
    <2>1. <<>> \in Seq(Chars)
        OBVIOUS
    <2> QED BY <2>1 DEF Root
<1>2. PICK ws \in Seq(Seq(Chars)) : ws = Root \o es
    BY <1>1, ConcatProperties
<1>3. PICK n \in Nat : n = Len(es)
    BY LenProperties
<1>4. /\ Len(ws) = 1 + n
      /\ \A i \in 1..(1 + n) : ws[i] = IF i <= 1 THEN Root[i] ELSE es[i - 1]
    <2>1. IsConcat(Root \o es, Root, es)
        BY <1>1, ConcatIs
    <2> QED BY <1>1, <1>2, <1>3, <2>1 DEF IsConcat
<1>5. ws # <<>>
    BY <1>4
<1>6. PICK ts \in Seq(Seq(Chars)) : ts = Tail(ws)
    BY <1>5, HeadTailProperties
<1>7. Len(ts) = n /\ \A i \in 1..n : ts[i] = ws[i + 1]
    <2>1. Len(ts) = Len(ws) - 1 /\ \A i \in 1..Len(ts) : ts[i] = ws[i + 1]
        BY <1>5, <1>6, HeadTailProperties
    <2> QED BY <1>4, <2>1
<1>8. \A i \in 1..n : ts[i] = es[i]
    <2>1. \A i \in 1..n : i + 1 \in 1..(1 + n) /\ ~(i + 1 <= 1) /\ (i + 1) - 1 = i
        OBVIOUS
    <2> QED BY <1>4, <1>7, <2>1
<1>9. ts = es
    BY <1>3, <1>7, <1>8, SeqEqual
<1> QED BY <1>2, <1>6, <1>9 DEF TailOf

\* What is before the first question mark.
Cut(x, y) == BeforeQuery(x \o (<<"?">> \o y)) = x

LEMMA BeforeQueryOf ==
    ASSUME NEW x \in Seq(Chars \ {"?"}), NEW y \in Seq(Chars)
    PROVE  BeforeQuery(x) = x /\ Cut(x, y)
<1>1. PICK n \in Nat : n = Len(x)
    BY LenProperties
<1>2. x \in Seq(Chars) /\ DOMAIN x = 1..n /\ \A i \in 1..n : x[i] # "?"
    <2>1. Chars \ {"?"} \subseteq Chars
        OBVIOUS
    <2>2. x \in Seq(Chars)
        BY <2>1, SeqMonotonic
    <2>3. \A i \in 1..n : x[i] \in Chars \ {"?"}
        BY <1>1, ElementOfSeq
    <2> QED BY <1>1, <2>2, <2>3, LenProperties
<1>3. BeforeQuery(x) = x
    BY <1>1, <1>2 DEF BeforeQuery, Contains
<1>4. PICK z \in Seq(Chars) : z = <<"?">> \o y /\ Len(z) >= 1 /\ z[1] = "?"
    <2>1. "?" \in Chars
        BY PlainFacts
    <2>2. PICK q \in Seq(Chars) : q = <<"?">>
        <3>1. <<"?">> \in Seq(Chars)
            BY <2>1
        <3> QED BY <3>1
    <2>3. Len(q) = 1 /\ q[1] = "?" /\ Len(y) \in Nat
        BY <2>2, LenProperties
    <2>4. PICK w \in Seq(Chars) : w = q \o y
        BY Concat
    <2>5. Len(w) = 1 + Len(y) /\ \A i \in 1..(1 + Len(y)) : w[i] = IF i <= 1 THEN q[i] ELSE y[i - 1]
        <3>1. IsConcat(q \o y, q, y)
            BY ConcatIs
        <3> QED BY <2>3, <2>4, <3>1 DEF IsConcat
    <2>6. w[1] = "?" /\ Len(w) >= 1
        BY <2>3, <2>5
    <2> QED BY <2>2, <2>4, <2>6
<1>5. PICK w \in Seq(Chars) : w = x \o z
    BY <1>2, Concat
<1>6. PICK m \in Nat : m = Len(z)
    BY LenProperties
<1>7. Len(w) = n + m /\ \A i \in 1..(n + m) : w[i] = IF i <= n THEN x[i] ELSE z[i - n]
    BY <1>1, <1>2, <1>5, <1>6, ConcatProperties
<1>8. DOMAIN w = 1..(n + m) /\ n + 1 \in 1..(n + m) /\ w[n + 1] = "?"
    <2>1. n + 1 \in 1..(n + m) /\ ~(n + 1 <= n) /\ (n + 1) - n = 1
        BY <1>4, <1>6
    <2> QED BY <1>4, <1>7, <2>1, LenProperties
<1> DEFINE S == {i \in DOMAIN w : w[i] = "?"}
<1>9. Min(S) = n + 1
    <2>1. S \in SUBSET Nat /\ n + 1 \in S
        BY <1>8
    <2>2. \A k \in S : n + 1 <= k
        <3>1. \A k \in 1..(n + m) : k <= n => w[k] # "?"
            BY <1>2, <1>7
        <3> QED BY <1>8, <3>1
    <2> HIDE DEF S
    <2> QED BY <2>1, <2>2, MinIs
<1>10. Contains(w, "?")
    BY <1>7, <1>8 DEF Contains
<1>11. BeforeQuery(w) = SubSeq(w, 1, n)
    <2>1. BeforeQuery(w) = SubSeq(w, 1, Min(S) - 1)
        BY <1>10 DEF BeforeQuery
    <2>2. (n + 1) - 1 = n
        OBVIOUS
    <2> HIDE DEF S
    <2> QED BY <1>9, <2>1, <2>2
<1>12. SubSeq(w, 1, n) = x
    <2>1. PICK t : t = SubSeq(w, 1, n)
        OBVIOUS
    <2>2. \A i \in 1..n : w[i] \in Chars /\ w[i] = x[i]
        <3>1. \A i \in 1..n : i \in 1..(n + m) /\ i <= n
            OBVIOUS
        <3>2. \A i \in 1..n : x[i] \in Chars
            BY <1>1, <1>2, ElementOfSeq
        <3> QED BY <1>7, <3>1, <3>2
    <2>3. /\ t \in Seq(Chars) /\ Len(t) = IF 1 <= n THEN n - 1 + 1 ELSE 0
          /\ \A i \in 1..(n - 1 + 1) : t[i] = w[1 + i - 1]
        BY <2>1, <2>2, SubSeqProperties
    <2>4. Len(t) = n /\ \A i \in 1..n : t[i] = x[i]
        BY <2>2, <2>3
    <2> QED BY <1>1, <1>2, <2>1, <2>3, <2>4, SeqEqual
<1> QED BY <1>3, <1>4, <1>5, <1>11, <1>12 DEF Cut

------------------------------------------------------------------------------
(* The uri.                                                                *)

UriChars == Chars \ (Ctl \cup {"sp"})

LEMMA UriCharsFacts ==
    /\ Plain \cup {"/", "?", "=", "&", "%"} \subseteq UriChars
    /\ PathChars \subseteq UriChars /\ PathChars \subseteq Chars \ {"=", "?"}
    /\ Plain \cup {"/"} \subseteq Chars \ {"?"}
    /\ UriChars \subseteq Chars
BY DEF UriChars, PathChars, Plain, Token, Chars, Digits, Words, Blanks, Ctl

LEMMA FormTextInUri ==
    ASSUME NEW ps \in Seq(Pairs) PROVE FormText(ps) \in Seq(UriChars)
<1>1. ASSUME NEW p \in Pairs, NEW i
      PROVE  Piece(i, <<Escaped(p[1]), Escaped(p[2])>>) \in Seq(UriChars)
    <2>1. PICK x \in Seq(Plain), y \in Seq(Plain \cup {"="}) : p = <<x, y>>
        BY DEF Pairs
    <2>2. x \in Seq(UriChars) /\ y \in Seq(UriChars)
        <3>1. Plain \subseteq UriChars /\ Plain \cup {"="} \subseteq UriChars
            BY UriCharsFacts
        <3> QED BY <3>1, SeqMonotonic
    <2>3. {"%", "2", "1"} \subseteq UriChars
        BY UriCharsFacts DEF Plain, Token, Digits
    <2>4. Escaped(x) \in Seq(UriChars) /\ Escaped(y) \in Seq(UriChars)
        BY <2>2, <2>3, EscapedPieces
    <2>5. <<"=">> \in Seq(UriChars) /\ <<"&">> \in Seq(UriChars) /\ <<>> \in Seq(UriChars)
        <3>1. "=" \in UriChars /\ "&" \in UriChars
            BY UriCharsFacts
        <3> QED BY <3>1
    <2>6. PICK e : e = <<Escaped(p[1]), Escaped(p[2])>>
        OBVIOUS
    <2>7. e[1] \in Seq(UriChars) /\ e[2] \in Seq(UriChars)
        BY <2>1, <2>4, <2>6
    <2>8. e[1] \o <<"=">> \in Seq(UriChars)
        BY <2>5, <2>7, ConcatProperties
    <2>9. Body(e) \in Seq(UriChars)
        BY <2>7, <2>8, ConcatProperties DEF Body
    <2>10. (IF i = 1 THEN <<>> ELSE <<"&">>) \in Seq(UriChars)
        BY <2>5
    <2>11. Piece(i, e) \in Seq(UriChars)
        BY <2>9, <2>10, ConcatProperties DEF Piece
    <2> QED BY <2>6, <2>11
<1>2. PICK n \in Nat : n = Len(ps)
    BY LenProperties
<1>3. DOMAIN ps = 1..n /\ \A i \in 1..n : ps[i] \in Pairs
    BY <1>2, LenProperties, ElementOfSeq
<1>4. PieceTexts(EscapedPairs(ps)) = [i \in 1..n |-> Piece(i, <<Escaped(ps[i][1]), Escaped(ps[i][2])>>)]
    BY <1>3 DEF PieceTexts, EscapedPairs
<1>5. \A i \in 1..n : Piece(i, <<Escaped(ps[i][1]), Escaped(ps[i][2])>>) \in Seq(UriChars)
    BY <1>1, <1>3
<1>6. PieceTexts(EscapedPairs(ps)) \in Seq(Seq(UriChars))
    BY <1>4, <1>5
<1>7. Written(EscapedPairs(ps)) \in Seq(UriChars)
    BY <1>6, JoinedText DEF Written
<1> QED BY <1>7, FormIsWritten

PathFor(k, ps) == IF ps = <<>> THEN <<"/">> ELSE PathOf(k, ps)
Shown(ps) == IF ps = <<>> THEN Root ELSE ps
PathDecodes(ps, s) == Decode(PathFor("escaped", ps) \o s) = PathFor("raw", ps) \o Decode(s)

LEMMA PathForFacts ==
    ASSUME NEW ps \in Seq(Names)
    PROVE  /\ PathFor("escaped", ps) \in Seq(PathChars) /\ PathFor("raw", ps) \in Seq(Plain \cup {"/"})
           /\ PathFor("escaped", ps) \in Seq(Chars) /\ PathFor("raw", ps) \in Seq(Chars)
           /\ \A s \in Seq(Chars) : PathDecodes(ps, s)
           /\ Tail(Elements(PathFor("raw", ps))) = Shown(ps)
<1>1. ps \in Seq(Seq(Plain)) /\ ps \in Seq(Seq(Chars))
    BY NamesAreTexts
<1>2. "/" \in PathChars /\ "/" \in Plain \cup {"/"} /\ "/" \in Chars /\ "/" # "%"
    BY PlainFacts DEF PathChars
<1>3. <<"/">> \in Seq(PathChars) /\ <<"/">> \in Seq(Plain \cup {"/"}) /\ <<"/">> \in Seq(Chars)
    BY <1>2
<1>4. PathFor("escaped", ps) \in Seq(PathChars) /\ PathFor("raw", ps) \in Seq(Plain \cup {"/"})
    BY <1>1, <1>3, PathText DEF PathFor
<1>5. PathFor("escaped", ps) \in Seq(Chars) /\ PathFor("raw", ps) \in Seq(Chars)
    BY <1>1, <1>3, PathIsText DEF PathFor
<1>6. ASSUME NEW s \in Seq(Chars) PROVE PathDecodes(ps, s)
    <2>1. CASE ps = <<>>
        <3>1. Decode(<<"/">> \o s) = <<"/">> \o Decode(s)
            BY <1>2, DecodeFront
        <3> QED BY <2>1, <3>1 DEF PathDecodes, PathFor
    <2>2. CASE ps # <<>>
        <3>1. DecodesTo(ps, s)
            BY <1>1, DecodePath
        <3> QED BY <2>2, <3>1 DEF PathDecodes, PathFor, DecodesTo
    <2> QED BY <2>1, <2>2
<1>7. Tail(Elements(PathFor("raw", ps))) = Shown(ps)
    <2>1. CASE ps = <<>>
        <3>1. Elements(<<"/">>) = Folded("path", Root, <<"/">>)
            BY AsFolds DEF Root
        <3>2. Folded("path", Root, <<"/">>) = Step("path", Root, "/")
            BY <1>2, FoldedOne
        <3>3. PathStep(Root, "/") = Append(Root, <<>>)
            <4>1. Len(Root) = 1
                BY DEF Root
            <4> QED BY <4>1, PathStepSlash
        <3>4. Tail(Append(Root, <<>>)) = Root
            <4>1. <<>> \in Seq(Chars)
                OBVIOUS
            <4>2. Root \in Seq(Seq(Chars)) /\ Root = << <<>> >>
                BY <4>1 DEF Root
            <4>3. Append(Root, <<>>) = Root \o << <<>> >>
                BY <4>1, <4>2, AppendIsConcat
            <4>4. TailOf(Root)
                BY <4>2, TailOfRoot
            <4> QED BY <4>2, <4>3, <4>4 DEF TailOf
        <3> QED BY <2>1, <3>1, <3>2, <3>3, <3>4 DEF PathFor, Shown, Step
    <2>2. CASE ps # <<>>
        <3>1. Elements(PathOf("raw", ps)) = Folded("path", Root, PathOf("raw", ps))
            BY AsFolds DEF Root
        <3>2. ReadsPath(ps) /\ TailOf(ps)
            BY <1>1, PathRead, TailOfRoot
        <3> QED BY <2>2, <3>1, <3>2 DEF ReadsPath, TailOf, PathFor, Shown
    <2> QED BY <2>1, <2>2
<1> QED BY <1>4, <1>5, <1>6, <1>7

LEMMA UriFacts ==
    ASSUME NEW r, r.path \in Seq(Names), r.query \in Seq(Pairs)
    PROVE  /\ UriText(r) \in Seq(UriChars) /\ UriText(r) \in Seq(Chars)
           /\ Tail(Elements(BeforeQuery(Decode(UriText(r))))) = Shown(r.path)
           /\ FormElements(UriText(r)) = r.query
<1>1. PICK u \in Seq(Chars) : u = PathFor("escaped", r.path) /\ u \in Seq(PathChars)
    BY PathForFacts
<1>2. PICK p \in Seq(Chars) : p = PathFor("raw", r.path) /\ p \in Seq(Plain \cup {"/"})
    BY PathForFacts
<1>3. PICK f \in Seq(Chars), w \in Seq(Chars) : f = FormText(r.query) /\ w = Written(r.query)
    BY FormFacts
<1>4. PICK q \in Seq(Chars), a \in Seq(Chars), z \in Seq(Chars) : q = <<"?">> /\ a = <<"&">> /\ z = <<>>
    <2>1. "?" \in Chars /\ "&" \in Chars
        BY PlainFacts
    <2>2. <<"?">> \in Seq(Chars) /\ <<"&">> \in Seq(Chars) /\ <<>> \in Seq(Chars)
        BY <2>1
    <2> QED BY <2>2
<1>5. UriText(r) = u \o (IF r.query = <<>> THEN z ELSE q \o f)
    <2>1. PathOf("escaped", r.path) = Joined([i \in DOMAIN r.path |-> <<"/">> \o Escaped(r.path[i])])
        BY DEF PathOf, PathTexts, PathPiece
    <2>2. u = (IF r.path = <<>> THEN <<"/">>
               ELSE Joined([i \in DOMAIN r.path |-> <<"/">> \o Escaped(r.path[i])]))
        BY <1>1, <2>1 DEF PathFor
    <2> QED BY <1>3, <1>4, <2>2 DEF UriText
<1>6. u \o z = u /\ p \o z = p
    BY <1>4, ConcatEmptySeq
<1>7. PICK y \in Seq(Chars) : y = q \o f
    BY Concat
<1>8. UriText(r) \in Seq(UriChars)
    <2>1. u \in Seq(UriChars)
        BY <1>1, UriCharsFacts, SeqMonotonic
    <2>2. f \in Seq(UriChars)
        BY <1>3, FormTextInUri
    <2>3. q \in Seq(UriChars)
        <3>1. "?" \in UriChars
            BY UriCharsFacts
        <3>2. <<"?">> \in Seq(UriChars)
            BY <3>1
        <3> QED BY <1>4, <3>2
    <2>4. y \in Seq(UriChars)
        BY <1>7, <2>2, <2>3, ConcatProperties
    <2>5. u \o y \in Seq(UriChars)
        BY <2>1, <2>4, ConcatProperties
    <2> QED BY <1>5, <1>6, <1>7, <2>1, <2>5
<1>9. UriText(r) \in Seq(Chars)
    <2>1. u \o y \in Seq(Chars)
        BY Concat
    <2> QED BY <1>5, <1>6, <1>7, <2>1
<1>10. BeforeQuery(Decode(UriText(r))) = p
    <2>1. p \in Seq(Chars \ {"?"})
        BY <1>2, UriCharsFacts, SeqMonotonic
    <2>2. BeforeQuery(p) = p /\ Cut(p, w)
        BY <2>1, BeforeQueryOf
    <2>3. CASE r.query = <<>>
        <3>1. PathDecodes(r.path, z)
            BY PathForFacts
        <3>2. Decode(u \o z) = p \o Decode(z)
            BY <1>1, <1>2, <3>1 DEF PathDecodes
        <3>3. Decode(z) = z
            BY <1>4, NothingDecoded
        <3> QED BY <1>5, <1>6, <2>2, <2>3, <3>2, <3>3
    <2>4. CASE r.query # <<>>
        <3>1. PathDecodes(r.path, y)
            BY PathForFacts
        <3>2. Decode(u \o y) = p \o Decode(y)
            BY <1>1, <1>2, <3>1 DEF PathDecodes
        <3>3. Decode(y) = <<"?">> \o w
            <4>1. "?" \in Chars /\ "?" # "%"
                BY PlainFacts
            <4>2. Decode(<<"?">> \o f) = <<"?">> \o Decode(f)
                BY <4>1, DecodeFront
            <4>3. Decode(f) = w
                BY <1>3, FormFacts
            <4> QED BY <1>4, <1>7, <4>2, <4>3
        <3> QED BY <1>5, <1>7, <2>2, <2>4, <3>2, <3>3 DEF Cut
    <2> QED BY <2>3, <2>4
<1>11. Folded("form", NoPair, u) = InName(<<>>, u, <<>>)
    <2>1. u \in NameText
        BY <1>1, UriCharsFacts, SeqMonotonic DEF NameText
    <2>2. Folded("form", InName(<<>>, z, <<>>), u) = InName(<<>>, z \o u, <<>>)
        BY <2>1, FormNameGrows
    <2>3. InName(<<>>, <<>>, <<>>) = NoPair
        BY DEF InName, NoPair
    <2>4. <<>> \o u = u
        BY ConcatEmptySeq
    <2> QED BY <1>4, <2>2, <2>3, <2>4
<1>12. FormElements(UriText(r)) = r.query
    <2>1. ASSUME NEW t \in Seq(Chars)
          PROVE  FormElements(t) = Folded("form", NoPair, t \o a).pairs
        <3>1. "&" \in Chars
            BY PlainFacts
        <3>2. Append(t, "&") = t \o <<"&">>
            BY <3>1, AppendIsConcat
        <3> QED BY <1>4, <3>2, AsFolds
    <2>2. CASE r.query = <<>>
        <3>1. FormElements(u) = Folded("form", NoPair, u \o a).pairs
            BY <2>1
        <3>2. Folded("form", NoPair, u \o a) = Folded("form", Folded("form", NoPair, u), a)
            BY FoldedConcat
        <3>3. Folded("form", InName(<<>>, u, <<>>), <<"&">>) = Step("form", InName(<<>>, u, <<>>), "&")
            <4>1. "&" \in Chars
                BY PlainFacts
            <4> QED BY <4>1, FoldedOne
        <3>4. Step("form", InName(<<>>, u, <<>>), "&").pairs = <<>>
            BY DEF Step, FormStep, InName
        <3> QED BY <1>4, <1>5, <1>6, <1>11, <2>2, <3>1, <3>2, <3>3, <3>4
    <2>3. CASE r.query # <<>>
        <3>1. UriText(r) = u \o y
            BY <1>5, <1>7, <2>3
        <3>2. PICK v \in Seq(Chars) : v = f \o a
            BY Concat
        <3>3. PICK x \in Seq(Chars) : x = u \o q
            BY Concat
        <3>4. (u \o y) \o a = x \o v
            <4>1. Assoc(u, y, a) /\ Assoc(q, f, a) /\ Assoc(u, q, v)
                BY Associates
            <4>2. (u \o y) \o a = u \o (y \o a) /\ y \o a = q \o v /\ x \o v = u \o (q \o v)
                BY <1>7, <3>2, <3>3, <4>1 DEF Assoc
            <4> QED BY <4>2
        <3>5. Folded("form", NoPair, x) = NoPair
            <4>1. Folded("form", NoPair, u \o q) = Folded("form", Folded("form", NoPair, u), q)
                BY FoldedConcat
            <4>2. Folded("form", InName(<<>>, u, <<>>), <<"?">>) = Step("form", InName(<<>>, u, <<>>), "?")
                <5>1. "?" \in Chars
                    BY PlainFacts
                <5> QED BY <5>1, FoldedOne
            <4>3. Step("form", InName(<<>>, u, <<>>), "?") = InName(<<>>, <<>>, <<>>)
                BY FormQuery
            <4>4. InName(<<>>, <<>>, <<>>) = NoPair
                BY DEF InName, NoPair
            <4> QED BY <1>4, <1>11, <3>3, <4>1, <4>2, <4>3, <4>4
        <3>6. Folded("form", NoPair, x \o v) = Folded("form", Folded("form", NoPair, x), v)
            BY FoldedConcat
        <3>7. Folded("form", NoPair, v) = Clean(r.query)
            BY <1>3, <1>4, <2>3, <3>2, FormFacts
        <3>8. Clean(r.query).pairs = r.query
            BY DEF Clean, InName
        <3>9. FormElements(UriText(r)) = Folded("form", NoPair, (u \o y) \o a).pairs
            BY <1>9, <2>1, <3>1
        <3> QED BY <3>4, <3>5, <3>6, <3>7, <3>8, <3>9
    <2> QED BY <2>2, <2>3
<1> QED BY <1>2, <1>8, <1>9, <1>10, <1>12, PathForFacts

------------------------------------------------------------------------------
(* The headers that have been kept.                                        *)

UpName(r, i) == Upper(<<r.headers[i].name>>)
HeaderValue(r, i) == Decode(Joined(r.headers[i].lines))

Keeps(r, k, hs) ==
    /\ \A i \in 1..k : /\ UpName(r, i) \in DOMAIN hs
                       /\ (\A j \in (i + 1)..k : UpName(r, j) # UpName(r, i))
                             => hs[UpName(r, i)] = HeaderValue(r, i)
    /\ \A n \in DOMAIN hs : \E i \in 1..k : n = UpName(r, i)

HeadersAre(r, hs) ==
    /\ \A i \in DOMAIN r.headers : /\ UpName(r, i) \in DOMAIN hs
                                   /\ hs[UpName(r, i)] = Decode(ValueOf(r, UpName(r, i)[1]))
    /\ \A n \in DOMAIN hs : n # <<>> => \E i \in DOMAIN r.headers : n = UpName(r, i)

LEMMA UpperOne ==
    ASSUME NEW c PROVE \E d : Upper(<<c>>) = <<d>>
<1>1. DOMAIN <<c>> = {1} /\ <<c>>[1] = c
    OBVIOUS
<1>2. Upper(<<c>>) = [i \in {1} |-> IF c \in DOMAIN Capital THEN Capital[c] ELSE c]
    BY <1>1 DEF Upper
<1>3. PICK d : d = IF c \in DOMAIN Capital THEN Capital[c] ELSE c
    OBVIOUS
<1>4. [i \in {1} |-> d] = <<d>>
    OBVIOUS
<1> QED BY <1>2, <1>3, <1>4

LEMMA DecodeOne ==
    ASSUME NEW c \in Words PROVE Decode(<<c>>) = <<c>>
<1>1. c \in Chars /\ c # "%"
    BY DEF Chars, Words
<1>2. <<>> \in Seq(Chars)
    OBVIOUS
<1>3. PICK e \in Seq(Chars) : e = <<>>
    BY <1>2
<1>4. Decode(<<c>> \o e) = <<c>> \o Decode(e)
    BY <1>1, DecodeFront
<1>5. <<c>> \o <<>> = <<c>>
    <2>1. <<c>> \in Seq(Chars)
        BY <1>1
    <2> QED BY <2>1, ConcatEmptySeq
<1> QED BY <1>3, <1>4, <1>5, NothingDecoded

LEMMA KeepsNone == ASSUME NEW r PROVE Keeps(r, 0, <<>>)
<1>1. 1..0 = {} /\ DOMAIN <<>> = {}
    OBVIOUS
<1> QED BY <1>1 DEF Keeps

LEMMA KeepsWith ==
    ASSUME NEW r, NEW k \in Nat, NEW hs, Keeps(r, k, hs), r.headers[k + 1].name \in Words
    PROVE  Keeps(r, k + 1, With(hs, <<r.headers[k + 1].name>>, Joined(r.headers[k + 1].lines)))
<1> DEFINE n == <<r.headers[k + 1].name>>
           v == Joined(r.headers[k + 1].lines)
           new == With(hs, n, v)
           N == UpName(r, k + 1)
<1>1. Upper(Decode(n)) = N
    BY DecodeOne DEF UpName
<1>2. Decode(v) = HeaderValue(r, k + 1)
    BY DEF HeaderValue
<1>3. /\ DOMAIN new = DOMAIN hs \cup {N}
      /\ new[N] = HeaderValue(r, k + 1)
      /\ \A m \in DOMAIN hs : m # N => new[m] = hs[m]
    <2>1. new = [m \in DOMAIN hs \cup {N} |-> IF m = N THEN HeaderValue(r, k + 1) ELSE hs[m]]
        BY <1>1, <1>2 DEF With
    <2> HIDE DEF new, N
    <2> QED BY <2>1
<1> HIDE DEF new, n, v
<1>4. ASSUME NEW i \in 1..(k + 1)
      PROVE  /\ UpName(r, i) \in DOMAIN new
             /\ (\A j \in (i + 1)..(k + 1) : UpName(r, j) # UpName(r, i)) => new[UpName(r, i)] = HeaderValue(r, i)
    <2>1. CASE i = k + 1
        BY <1>3, <2>1
    <2>2. CASE i # k + 1
        <3>1. i \in 1..k /\ k + 1 \in (i + 1)..(k + 1) /\ \A j \in (i + 1)..k : j \in (i + 1)..(k + 1)
            BY <2>2
        <3>2. /\ UpName(r, i) \in DOMAIN hs
              /\ (\A j \in (i + 1)..k : UpName(r, j) # UpName(r, i)) => hs[UpName(r, i)] = HeaderValue(r, i)
            BY <3>1 DEF Keeps
        <3> HIDE DEF N
        <3>3. ASSUME \A j \in (i + 1)..(k + 1) : UpName(r, j) # UpName(r, i)
              PROVE  new[UpName(r, i)] = HeaderValue(r, i)
            <4>1. N # UpName(r, i)
                BY <3>1, <3>3 DEF N
            <4> QED BY <1>3, <3>1, <3>2, <3>3, <4>1
        <3> QED BY <1>3, <3>2, <3>3
    <2> QED BY <2>1, <2>2
<1>5. ASSUME NEW m \in DOMAIN new PROVE \E i \in 1..(k + 1) : m = UpName(r, i)
    <2>1. CASE m = N
        <3>1. k + 1 \in 1..(k + 1)
            OBVIOUS
        <3> QED BY <2>1, <3>1
    <2>2. CASE m # N
        <3>1. PICK i \in 1..k : m = UpName(r, i)
            BY <1>3, <2>2 DEF Keeps
        <3>2. i \in 1..(k + 1)
            OBVIOUS
        <3> QED BY <3>1, <3>2
    <2> QED BY <2>1, <2>2
<1> QED BY <1>4, <1>5 DEF Keeps, new, n, v

IsLast(r, i, n) ==
    /\ i \in DOMAIN r.headers /\ UpName(r, i) = <<n>> /\ LastOf(r, n) = i
    /\ \A j \in DOMAIN r.headers : UpName(r, j) = <<n>> => j <= i

LEMMA LastOfIs ==
    ASSUME NEW r, NEW m \in Nat, DOMAIN r.headers = 1..m, NEW n
    PROVE  /\ LastOf(r, n) # 0 => IsLast(r, LastOf(r, n), n)
           /\ \A i \in 1..m : UpName(r, i) = <<n>> => LastOf(r, n) # 0
<1> DEFINE S == {0} \cup {i \in DOMAIN r.headers : Upper(<<r.headers[i].name>>) = <<n>>}
<1>1. LastOf(r, n) = Max(S)
    BY DEF LastOf
<1>2. S \in SUBSET (0..m) /\ S # {}
    OBVIOUS
<1>3. Max(S) \in S /\ \A y \in S : Max(S) >= y
    <2> HIDE DEF S
    <2> QED BY <1>2, MaxOfBounded
<1>4. PICK l : l = LastOf(r, n)
    OBVIOUS
<1>5. l \in S /\ (\A y \in S : l >= y) /\ l \in Nat
    <2> HIDE DEF S
    <2>1. l \in S /\ (\A y \in S : l >= y)
        BY <1>1, <1>3, <1>4
    <2>2. \A y \in S : y \in Nat
        BY <1>2
    <2> QED BY <2>1, <2>2
<1>6. \A y : y \in S <=> y = 0 \/ (y \in 1..m /\ UpName(r, y) = <<n>>)
    BY DEF UpName
<1> HIDE DEF S
<1>7. l # 0 => IsLast(r, l, n)
    BY <1>4, <1>5, <1>6 DEF IsLast
<1>8. \A i \in 1..m : UpName(r, i) = <<n>> => l # 0
    BY <1>5, <1>6
<1> QED BY <1>4, <1>7, <1>8

LEMMA KeepsAll ==
    ASSUME NEW r, NEW m \in Nat, DOMAIN r.headers = 1..m, NEW hs, Keeps(r, m, hs)
    PROVE  HeadersAre(r, hs)
<1>1. ASSUME NEW i \in 1..m
      PROVE  UpName(r, i) \in DOMAIN hs /\ hs[UpName(r, i)] = Decode(ValueOf(r, UpName(r, i)[1]))
    <2>1. PICK n : UpName(r, i) = <<n>>
        BY UpperOne DEF UpName
    <2>2. UpName(r, i)[1] = n
        BY <2>1
    <2>3. LastOf(r, n) # 0
        BY <2>1, LastOfIs
    <2>4. PICK l : l = LastOf(r, n) /\ IsLast(r, l, n)
        BY <2>3, LastOfIs
    <2>5. l \in 1..m /\ UpName(r, l) = <<n>> /\ \A j \in 1..m : UpName(r, j) = <<n>> => j <= l
        BY <2>4 DEF IsLast
    <2>6. \A j \in (l + 1)..m : UpName(r, j) # UpName(r, l)
        BY <2>5
    <2>7. UpName(r, l) \in DOMAIN hs /\ hs[UpName(r, l)] = HeaderValue(r, l)
        BY <2>5, <2>6 DEF Keeps
    <2>8. HeaderValue(r, l) = Decode(ValueOf(r, n))
        BY <2>4 DEF HeaderValue, ValueOf
    <2> QED BY <2>1, <2>2, <2>5, <2>7, <2>8
<1>2. \A n \in DOMAIN hs : \E i \in 1..m : n = UpName(r, i)
    BY DEF Keeps
<1> QED BY <1>1, <1>2 DEF HeadersAre

HeaderHeld(r, hs, x) ==
    /\ <<x>> \in DOMAIN hs <=> LastOf(r, x) # 0
    /\ LastOf(r, x) # 0 => hs[<<x>>] = Decode(ValueOf(r, x))

LEMMA HeaderIs ==
    ASSUME NEW r, NEW m \in Nat, DOMAIN r.headers = 1..m, NEW hs, HeadersAre(r, hs), NEW x
    PROVE  HeaderHeld(r, hs, x)
<1>1. ASSUME LastOf(r, x) # 0 PROVE <<x>> \in DOMAIN hs /\ hs[<<x>>] = Decode(ValueOf(r, x))
    <2>1. PICK l : IsLast(r, l, x)
        BY <1>1, LastOfIs
    <2>2. l \in DOMAIN r.headers /\ UpName(r, l) = <<x>>
        BY <2>1 DEF IsLast
    <2>3. UpName(r, l) \in DOMAIN hs /\ hs[UpName(r, l)] = Decode(ValueOf(r, UpName(r, l)[1]))
        BY <2>2 DEF HeadersAre
    <2>4. <<x>>[1] = x
        OBVIOUS
    <2> QED BY <2>2, <2>3, <2>4
<1>2. ASSUME <<x>> \in DOMAIN hs PROVE LastOf(r, x) # 0
    <2>1. <<x>> # <<>>
        OBVIOUS
    <2>2. PICK i \in 1..m : <<x>> = UpName(r, i)
        BY <1>2, <2>1 DEF HeadersAre
    <2> QED BY <2>2, LastOfIs
<1> QED BY <1>1, <1>2 DEF HeaderHeld

------------------------------------------------------------------------------
(* The final decoding.                                                     *)

\* A signed char counts up to CharMax.
LEMMA KeptIs ==
    ASSUME NEW n \in Nat, n <= CharMax PROVE Kept(n) = Min({n, 5})
<1>1. PICK m : m = 2 * (CharMax + 1)
    OBVIOUS
<1>2. m \in Nat /\ n < m /\ CharMax \in Nat
    BY <1>1, CharsCountToFive
<1>3. n % m = n
    BY <1>2, SmallRemainder
<1>4. ~(n > CharMax)
    BY <1>2
<1>5. Kept(n) = IF n % m > CharMax THEN 0 ELSE Min({n % m, 5})
    BY <1>1 DEF Kept
<1> QED BY <1>3, <1>4, <1>5

LEMMA FinalIs ==
    ASSUME NEW r, IsRequest(r), NEW hs, HeadersAre(r, hs), uri = UriText(r),
           NEW f, f = FinalDecode(hs, FormText(r.form))
    PROVE  /\ Len(r.path) <= CharMax =>
                 f.elements = IF r.path = <<>> THEN << <<>> >> ELSE SubSeq(r.path, 1, Min({Len(r.path), 5}))
           /\ f.variables = r.query \o r.form \o r.cookie
           /\ r.cookie # <<>> /\ r.query \o r.form = <<>> => f.ticket = r.cookie[1][2]
<1>1. /\ r.path \in Seq(Names) /\ r.query \in Seq(Pairs) /\ r.form \in Seq(Pairs) /\ r.cookie \in Seq(Pairs)
      /\ r.headers \in Seq(HeaderLines)
      /\ IF LastOf(r, "COOKIE") # 0 THEN ValueOf(r, "COOKIE") = FormText(r.cookie) ELSE r.cookie = <<>>
      /\ r.cookie # <<>> => r.cookie[1][1] = <<"ticket">>
    BY DEF IsRequest, Names
<1>2. /\ Tail(Elements(BeforeQuery(Decode(uri)))) = Shown(r.path)
      /\ FormElements(uri) = r.query
    BY <1>1, UriFacts
<1>3. FormElements(FormText(r.form)) = r.form
    BY <1>1, FormFacts
<1>4. Header(hs, "COOKIE") = Written(r.cookie)
    <2>1. DOMAIN r.headers = 1..Len(r.headers) /\ Len(r.headers) \in Nat
        BY <1>1, LenProperties
    <2>2. HeaderHeld(r, hs, "COOKIE")
        BY <2>1, HeaderIs
    <2>3. CASE LastOf(r, "COOKIE") # 0
        <3>1. Header(hs, "COOKIE") = Decode(ValueOf(r, "COOKIE"))
            BY <2>2, <2>3 DEF HeaderHeld, Header
        <3> QED BY <1>1, <2>3, <3>1, FormFacts
    <2>4. CASE LastOf(r, "COOKIE") = 0
        <3>1. Header(hs, "COOKIE") = <<>>
            BY <2>2, <2>4 DEF HeaderHeld, Header
        <3> QED BY <1>1, <2>4, <3>1, FormFacts
    <2> QED BY <2>3, <2>4
<1>5. FormElements(Header(hs, "COOKIE")) = r.cookie
    BY <1>1, <1>4, FormFacts
<1> DEFINE es == Shown(r.path)
           pairs == (r.query \o r.form) \o r.cookie
           tickets == {i \in DOMAIN pairs : pairs[i][1] = <<"ticket">>}
<1>6. f = [elements |-> SubSeq(es, 1, Kept(Len(es))), variables |-> pairs,
           ticket |-> IF Written(r.cookie) = <<>> \/ tickets = {} THEN <<>> ELSE pairs[Min(tickets)][2]]
    BY <1>2, <1>3, <1>4, <1>5 DEF FinalDecode
<1>7. f.elements = SubSeq(es, 1, Kept(Len(es))) /\ f.variables = pairs
      /\ f.ticket = IF Written(r.cookie) = <<>> \/ tickets = {} THEN <<>> ELSE pairs[Min(tickets)][2]
    <2>1. PICK a : a = SubSeq(es, 1, Kept(Len(es)))
        OBVIOUS
    <2>2. PICK b : b = pairs
        OBVIOUS
    <2>3. PICK c : c = IF Written(r.cookie) = <<>> \/ tickets = {} THEN <<>> ELSE pairs[Min(tickets)][2]
        OBVIOUS
    <2> HIDE DEF es, pairs, tickets
    <2>4. f = [elements |-> a, variables |-> b, ticket |-> c]
        BY <1>6, <2>1, <2>2, <2>3
    <2>5. f.elements = a /\ f.variables = b /\ f.ticket = c
        BY <2>4
    <2> QED BY <2>1, <2>2, <2>3, <2>5
<1>8. ASSUME Len(r.path) <= CharMax
      PROVE  f.elements = IF r.path = <<>> THEN << <<>> >> ELSE SubSeq(r.path, 1, Min({Len(r.path), 5}))
    <2>1. CASE r.path = <<>>
        <3>1. es = << <<>> >> /\ Len(es) = 1
            BY <2>1 DEF Shown, Root
        <3>2. Min({1, 5}) = 1
            <4>1. {1, 5} \in SUBSET Nat /\ 1 \in {1, 5} /\ \A k \in {1, 5} : 1 <= k
                OBVIOUS
            <4> QED BY <4>1, MinIs
        <3>3. SubSeq(es, 1, 1) = es
            <4>1. <<>> \in Seq(Chars)
                OBVIOUS
            <4>2. es \in Seq(Seq(Chars))
                BY <3>1, <4>1
            <4> HIDE DEF es
            <4> QED BY <3>1, <4>2, SubSeqFull
        <3>4. Kept(Len(es)) = 1
            <4> HIDE DEF es
            <4>1. 1 \in Nat /\ 1 <= CharMax
                BY CharsCountToFive
            <4> QED BY <3>1, <3>2, <4>1, KeptIs
        <3> HIDE DEF es
        <3> QED BY <1>7, <2>1, <3>1, <3>3, <3>4
    <2>2. CASE r.path # <<>>
        <3>1. es = r.path
            BY <2>2 DEF Shown
        <3>2. Len(r.path) \in Nat
            BY <1>1, LenProperties
        <3> HIDE DEF es
        <3>3. Kept(Len(es)) = Min({Len(r.path), 5})
            BY <1>8, <3>1, <3>2, KeptIs
        <3> QED BY <1>7, <2>2, <3>1, <3>3
    <2> QED BY <2>1, <2>2
<1>9. ASSUME r.cookie # <<>>, r.query \o r.form = <<>> PROVE f.ticket = r.cookie[1][2]
    <2>1. pairs = r.cookie
        <3>1. <<>> \o r.cookie = r.cookie
            BY <1>1, ConcatEmptySeq
        <3> QED BY <1>9, <3>1
    <2>2. Written(r.cookie) # <<>>
        BY <1>1, <1>9, FormFacts
    <2>3. DOMAIN r.cookie = 1..Len(r.cookie) /\ Len(r.cookie) \in Nat /\ 1 \in 1..Len(r.cookie)
        <3>1. Len(r.cookie) \in Nat /\ Len(r.cookie) # 0
            BY <1>1, <1>9, EmptySeq, LenProperties
        <3> QED BY <1>1, <3>1, LenProperties
    <2>4. tickets \in SUBSET Nat /\ 1 \in tickets /\ \A k \in tickets : 1 <= k
        <3>1. tickets \subseteq 1..Len(r.cookie)
            BY <2>1, <2>3
        <3>2. 1 \in tickets
            BY <1>1, <1>9, <2>1, <2>3
        <3> HIDE DEF tickets
        <3> QED BY <2>3, <3>1, <3>2
    <2>5. Min(tickets) = 1
        <3> HIDE DEF tickets
        <3> QED BY <2>4, MinIs
    <2> HIDE DEF tickets, pairs
    <2> QED BY <1>7, <2>1, <2>2, <2>4, <2>5
<1> QED BY <1>7, <1>8, <1>9

------------------------------------------------------------------------------
(* What is left of a text.                                                 *)

After(s, i) == SubSeq(s, i, Len(s))

LEMMA AfterOne ==
    ASSUME NEW T, NEW s \in Seq(T), NEW i \in 1..Len(s)
    PROVE  /\ After(s, i) = <<s[i]>> \o After(s, i + 1)
           /\ After(s, i) \in Seq(T) /\ After(s, i + 1) \in Seq(T) /\ s[i] \in T
<1>1. Len(s) \in Nat /\ i \in Nat \ {0} /\ i <= Len(s) /\ \A j \in 1..Len(s) : s[j] \in T
    BY LenProperties, ElementOfSeq
<1> DEFINE a == After(s, i)
           z == After(s, i + 1)
<1>2. /\ a \in Seq(T) /\ Len(a) = Len(s) - i + 1 /\ \A j \in 1..(Len(s) - i + 1) : a[j] = s[i + j - 1]
    <2>1. \A j \in i..Len(s) : s[j] \in T
        BY <1>1
    <2> QED BY <1>1, <2>1, SubSeqProperties DEF After
<1>3. /\ z \in Seq(T) /\ Len(z) = Len(s) - i /\ \A j \in 1..(Len(s) - i) : z[j] = s[i + j]
    <2>1. \A j \in (i + 1)..Len(s) : s[j] \in T
        BY <1>1
    <2>2. i + 1 \in Int /\ Len(s) \in Int /\ i + 1 \in 1..(Len(s) + 1)
        BY <1>1
    <2>3. z \in Seq(T) /\ Len(z) = IF i + 1 <= Len(s) THEN Len(s) - (i + 1) + 1 ELSE 0
        BY <2>1, <2>2, SubSeqProperties DEF After
    <2>4. \A j \in 1..(Len(s) - (i + 1) + 1) : z[j] = s[(i + 1) + j - 1]
        BY <1>1, <2>1, <2>2, SubSeqProperties DEF After
    <2> HIDE DEF z
    <2>5. Len(z) = Len(s) - i
        BY <1>1, <2>3
    <2>6. ASSUME NEW j \in 1..(Len(s) - i) PROVE z[j] = s[i + j]
        <3>1. j \in 1..(Len(s) - (i + 1) + 1) /\ (i + 1) + j - 1 = i + j
            BY <1>1
        <3> QED BY <2>4, <3>1
    <2> QED BY <2>3, <2>5, <2>6
<1>4. PICK c \in T : c = s[i]
    BY <1>1
<1> HIDE DEF a, z
<1>5. /\ <<c>> \o z \in Seq(T) /\ Len(<<c>> \o z) = Len(z) + 1
      /\ (<<c>> \o z)[1] = c /\ \A j \in 2..(Len(z) + 1) : (<<c>> \o z)[j] = z[j - 1]
    BY <1>3
<1>6. a = <<c>> \o z
    <2>1. ASSUME NEW j \in 1..Len(a) PROVE a[j] = (<<c>> \o z)[j]
        <3>1. CASE j = 1
            BY <1>1, <1>2, <1>4, <1>5, <3>1
        <3>2. CASE j # 1
            <4>1. j \in 2..(Len(z) + 1) /\ j - 1 \in 1..(Len(s) - i) /\ i + (j - 1) = i + j - 1
                  /\ j \in 1..(Len(s) - i + 1)
                BY <1>1, <1>2, <1>3, <3>2
            <4> QED BY <1>2, <1>3, <1>5, <4>1
        <3> QED BY <3>1, <3>2
    <2>2. Len(a) = Len(<<c>> \o z)
        BY <1>1, <1>2, <1>3, <1>5
    <2> QED BY <1>2, <1>5, <2>1, <2>2, SeqEqual
<1> QED BY <1>2, <1>3, <1>4, <1>6 DEF a, z

LEMMA AfterAll ==
    ASSUME NEW T, NEW s \in Seq(T)
    PROVE  After(s, Len(s) + 1) = <<>> /\ After(s, 1) = s
<1>1. Len(s) \in Nat
    BY LenProperties
<1>2. After(s, 1) = s
    BY SubSeqFull DEF After
<1>3. After(s, Len(s) + 1) = <<>>
    BY <1>1 DEF After
<1> QED BY <1>2, <1>3

\* What the pieces from the i-th on make.
From(ps, i) == Joined(After(ps, i))

LEMMA FromOne ==
    ASSUME NEW ps \in Seq(Seq(Chars)), NEW i \in 1..Len(ps)
    PROVE  /\ From(ps, i) = ps[i] \o From(ps, i + 1)
           /\ From(ps, i) \in Seq(Chars) /\ From(ps, i + 1) \in Seq(Chars) /\ ps[i] \in Seq(Chars)
<1> DEFINE T == Seq(Chars)
<1>1. ps \in Seq(T)
    OBVIOUS
<1> HIDE DEF T
<1>2. /\ After(ps, i) = <<ps[i]>> \o After(ps, i + 1)
      /\ After(ps, i) \in Seq(T) /\ After(ps, i + 1) \in Seq(T) /\ ps[i] \in T
    BY <1>1, AfterOne
<1>3. PICK p \in T, z \in Seq(T) : p = ps[i] /\ z = After(ps, i + 1)
    BY <1>2
<1> USE DEF T
<1>4. Joined(<<p>> \o z) = p \o Joined(z) /\ Joined(z) \in Seq(Chars)
    BY JoinedFront, JoinedText
<1>5. Joined(After(ps, i)) \in Seq(Chars)
    BY <1>2, JoinedText
<1> QED BY <1>2, <1>3, <1>4, <1>5 DEF From

LEMMA FromAll ==
    ASSUME NEW ps \in Seq(Seq(Chars))
    PROVE  From(ps, Len(ps) + 1) = <<>> /\ From(ps, 1) = Joined(ps)
<1> DEFINE T == Seq(Chars)
<1>1. ps \in Seq(T)
    OBVIOUS
<1> HIDE DEF T
<1>2. After(ps, Len(ps) + 1) = <<>> /\ After(ps, 1) = ps
    BY <1>1, AfterAll
<1>3. Joined(<<>>) = <<>>
    BY DEF Joined, FlattenSeq
<1> QED BY <1>2, <1>3 DEF From

\* The pieces before the i-th.
Before(ps, i) == Joined(SubSeq(ps, 1, i - 1))

LEMMA BeforeOne ==
    ASSUME NEW ps \in Seq(Seq(Chars)), NEW i \in 1..Len(ps)
    PROVE  Before(ps, i + 1) = Before(ps, i) \o ps[i] /\ Before(ps, i) \in Seq(Chars)
<1> DEFINE T == Seq(Chars)
<1>1. ps \in Seq(T) /\ Len(ps) \in Nat /\ i \in Nat \ {0} /\ i <= Len(ps) /\ \A j \in 1..Len(ps) : ps[j] \in T
    BY LenProperties, ElementOfSeq
<1> HIDE DEF T
<1>2. PICK k \in Nat : i = k + 1
    <2>1. i - 1 \in Nat /\ i = (i - 1) + 1
        BY <1>1
    <2> QED BY <2>1
<1>3. i - 1 = k /\ (i + 1) - 1 = k + 1 /\ k + 1 <= Len(ps)
    BY <1>1, <1>2
<1>4. PICK a, b : a = SubSeq(ps, 1, k) /\ b = SubSeq(ps, 1, k + 1)
    OBVIOUS
<1>5. /\ a \in Seq(T) /\ Len(a) = k /\ \A j \in 1..k : a[j] = ps[j]
    <2>1. \A j \in 1..k : ps[j] \in T
        BY <1>1, <1>3
    <2>2. Len(a) = IF 1 <= k THEN k - 1 + 1 ELSE 0
        BY <1>4, <2>1, SubSeqProperties
    <2>3. a \in Seq(T) /\ \A j \in 1..(k - 1 + 1) : a[j] = ps[1 + j - 1]
        BY <1>4, <2>1, SubSeqProperties
    <2>4. ASSUME NEW j \in 1..k PROVE a[j] = ps[j]
        <3>1. j \in 1..(k - 1 + 1) /\ 1 + j - 1 = j
            OBVIOUS
        <3> QED BY <2>3, <3>1
    <2> QED BY <2>2, <2>3, <2>4
<1>6. /\ b \in Seq(T) /\ Len(b) = k + 1 /\ \A j \in 1..(k + 1) : b[j] = ps[j]
    <2>1. \A j \in 1..(k + 1) : ps[j] \in T
        BY <1>1, <1>3
    <2>2. Len(b) = IF 1 <= k + 1 THEN (k + 1) - 1 + 1 ELSE 0
        BY <1>4, <2>1, SubSeqProperties
    <2>3. b \in Seq(T) /\ \A j \in 1..((k + 1) - 1 + 1) : b[j] = ps[1 + j - 1]
        BY <1>4, <2>1, SubSeqProperties
    <2>4. ASSUME NEW j \in 1..(k + 1) PROVE b[j] = ps[j]
        <3>1. j \in 1..((k + 1) - 1 + 1) /\ 1 + j - 1 = j
            OBVIOUS
        <3> QED BY <2>3, <3>1
    <2> QED BY <2>2, <2>3, <2>4
<1>7. PICK p \in T : p = ps[k + 1]
    BY <1>1, <1>2
<1>8. b = Append(a, p)
    <2>1. /\ Append(a, p) \in Seq(T) /\ Len(Append(a, p)) = k + 1 /\ Append(a, p)[k + 1] = p
          /\ \A j \in 1..k : Append(a, p)[j] = a[j]
        BY <1>5, AppendProperties
    <2>2. ASSUME NEW j \in 1..(k + 1) PROVE b[j] = Append(a, p)[j]
        <3>1. j \in 1..k \/ j = k + 1
            OBVIOUS
        <3> QED BY <1>5, <1>6, <1>7, <2>1, <3>1
    <2> QED BY <1>6, <2>1, <2>2, SeqEqual
<1> USE DEF T
<1>9. Joined(b) = Joined(a) \o p /\ Joined(a) \in Seq(Chars)
    BY <1>5, <1>8, JoinedAppend, JoinedText
<1> QED BY <1>2, <1>3, <1>4, <1>7, <1>9 DEF Before

LEMMA BeforeAll ==
    ASSUME NEW ps \in Seq(Seq(Chars))
    PROVE  Before(ps, 1) = <<>> /\ Before(ps, Len(ps) + 1) = Joined(ps)
<1> DEFINE T == Seq(Chars)
<1>1. ps \in Seq(T) /\ Len(ps) \in Nat
    BY LenProperties
<1>2. SubSeq(ps, 1, Len(ps)) = ps
    <2> HIDE DEF T
    <2> QED BY <1>1, SubSeqFull
<1>3. (Len(ps) + 1) - 1 = Len(ps) /\ 1 - 1 = 0
    BY <1>1
<1>4. SubSeq(ps, 1, 0) = <<>>
    OBVIOUS
<1>5. Joined(<<>>) = <<>>
    BY DEF Joined, FlattenSeq
<1> QED BY <1>2, <1>3, <1>4, <1>5 DEF Before

------------------------------------------------------------------------------
(* The text of a request, from each place on.                              *)

Version == <<"H", "T", "T", "P", "/", "1", ".", "1", "cr", "lf">>

LineTexts(h) ==
    [i \in DOMAIN h.lines |-> (IF i = 1 THEN <<>> ELSE <<"tab", "sp">>) \o h.lines[i] \o Crlf]
HeaderTexts(r) == [i \in DOMAIN r.headers |-> HeaderText(r.headers[i])]
Space(h) == IF h.spaced THEN <<"sp">> ELSE <<>>

AtHeader(r, k) == From(HeaderTexts(r), k) \o (Crlf \o FormText(r.form))
AtLine(r, k, j) == From(LineTexts(r.headers[k]), j) \o AtHeader(r, k + 1)
AfterLine(r, k, j) == Crlf \o AtLine(r, k, j + 1)
AtVersion(r, i) == After(Version, i) \o AtHeader(r, 1)
AfterUri(r) == <<"sp">> \o AtVersion(r, 1)

LEMMA CharsFacts ==
    /\ Plain \subseteq Token /\ Token \subseteq Chars /\ Words \subseteq Token
    /\ "cr" \in Chars /\ "lf" \in Chars /\ "sp" \in Chars /\ "tab" \in Chars /\ ":" \in Chars
    /\ Crlf \in Seq(Chars) /\ Version \in Seq(Chars) /\ Len(Version) = 10
    /\ Crlf = <<"cr">> \o <<"lf">>
<1>1. Plain \subseteq Token /\ Token \subseteq Chars /\ Words \subseteq Token
    BY DEF Plain, Token, Chars
<1>2. "cr" \in Chars /\ "lf" \in Chars /\ "sp" \in Chars /\ "tab" \in Chars /\ ":" \in Chars
    BY DEF Chars, Ctl, Blanks
<1>3. "H" \in Chars /\ "T" \in Chars /\ "P" \in Chars /\ "/" \in Chars /\ "1" \in Chars /\ "." \in Chars
    BY DEF Chars, Digits
<1>4. Crlf \in Seq(Chars) /\ Crlf = <<"cr">> \o <<"lf">>
    BY <1>2 DEF Crlf
<1>5. Version \in Seq(Chars) /\ Len(Version) = 10
    BY <1>2, <1>3 DEF Version
<1> QED BY <1>1, <1>2, <1>4, <1>5

LEMMA HeadersTyped ==
    ASSUME NEW r, IsRequest(r)
    PROVE  /\ r.headers \in Seq(HeaderLines) /\ DOMAIN r.headers = 1..Len(r.headers) /\ Len(r.headers) \in Nat
           /\ \A k \in 1..Len(r.headers) :
                 /\ r.headers[k].name \in Words /\ r.headers[k].spaced \in BOOLEAN
                 /\ r.headers[k].lines \in Seq(Seq(Chars \ Ctl)) /\ r.headers[k].lines # <<>>
                 /\ IsHeader(r.headers[k])
           /\ FormText(r.form) \in Seq(Chars) /\ UriText(r) \in Seq(Chars) /\ UriText(r) \in Seq(UriChars)
           /\ r.method \in Plain
<1>1. /\ r.headers \in Seq(HeaderLines) /\ (\A i \in DOMAIN r.headers : IsHeader(r.headers[i]))
      /\ r.form \in Seq(Pairs) /\ r.path \in Seq(Names) /\ r.query \in Seq(Pairs) /\ r.method \in Plain
    BY DEF IsRequest, Names
<1>2. DOMAIN r.headers = 1..Len(r.headers) /\ Len(r.headers) \in Nat
    BY <1>1, LenProperties
<1>3. ASSUME NEW k \in 1..Len(r.headers)
      PROVE  /\ r.headers[k].name \in Words /\ r.headers[k].spaced \in BOOLEAN
             /\ r.headers[k].lines \in Seq(Seq(Chars \ Ctl)) /\ r.headers[k].lines # <<>>
    <2>1. r.headers[k] \in HeaderLines
        BY <1>1, ElementOfSeq
    <2> QED BY <2>1 DEF HeaderLines
<1>4. FormText(r.form) \in Seq(Chars)
    BY <1>1, FormFacts
<1>5. UriText(r) \in Seq(Chars) /\ UriText(r) \in Seq(UriChars)
    BY <1>1, UriFacts
<1> QED BY <1>1, <1>2, <1>3, <1>4, <1>5

\* The lines of a value are texts.
LEMMA LinesTyped ==
    ASSUME NEW ls \in Seq(Seq(Chars \ Ctl))
    PROVE  /\ ls \in Seq(Seq(Chars)) /\ Len(ls) \in Nat /\ DOMAIN ls = 1..Len(ls)
           /\ \A j \in 1..Len(ls) : ls[j] \in Seq(Chars \ Ctl)
<1>1. Len(ls) \in Nat /\ DOMAIN ls = 1..Len(ls) /\ \A j \in 1..Len(ls) : ls[j] \in Seq(Chars \ Ctl)
    BY LenProperties, ElementOfSeq
<1>2. \A s \in Seq(Chars \ Ctl) : s \in Seq(Chars)
    OBVIOUS
<1>3. \A j \in 1..Len(ls) : ls[j] \in Seq(Chars)
    BY <1>1, <1>2
<1>4. ls = [j \in 1..Len(ls) |-> ls[j]]
    BY <1>1
<1> DEFINE T == Seq(Chars)
<1> HIDE DEF T
<1>5. \A j \in 1..Len(ls) : ls[j] \in T
    BY <1>3 DEF T
<1>6. ls \in Seq(T)
    BY <1>1, <1>5, SeqDef
<1> QED BY <1>1, <1>6 DEF T

LEMMA LineTextsTyped ==
    ASSUME NEW h, h.lines \in Seq(Seq(Chars \ Ctl))
    PROVE  /\ LineTexts(h) \in Seq(Seq(Chars)) /\ Len(LineTexts(h)) = Len(h.lines)
           /\ \A j \in 1..Len(h.lines) :
                 LineTexts(h)[j] = (IF j = 1 THEN <<>> ELSE <<"tab", "sp">>) \o h.lines[j] \o Crlf
<1>1. /\ Len(h.lines) \in Nat /\ DOMAIN h.lines = 1..Len(h.lines)
      /\ \A j \in 1..Len(h.lines) : h.lines[j] \in Seq(Chars \ Ctl)
    BY LinesTyped
<1>2. ASSUME NEW j \in 1..Len(h.lines)
      PROVE  (IF j = 1 THEN <<>> ELSE <<"tab", "sp">>) \o h.lines[j] \o Crlf \in Seq(Chars)
    <2>1. <<>> \in Seq(Chars) /\ <<"tab", "sp">> \in Seq(Chars)
        BY CharsFacts
    <2>2. PICK p \in Seq(Chars) : p = IF j = 1 THEN <<>> ELSE <<"tab", "sp">>
        BY <2>1
    <2>3. PICK l \in Seq(Chars) : l = h.lines[j]
        BY <1>1
    <2>4. p \o l \in Seq(Chars)
        BY Concat
    <2>5. Crlf \in Seq(Chars)
        BY CharsFacts
    <2>6. (p \o l) \o Crlf \in Seq(Chars)
        BY <2>4, <2>5, Concat
    <2> QED BY <2>2, <2>3, <2>6
<1> DEFINE T == Seq(Chars)
<1>3. \A j \in 1..Len(h.lines) : LineTexts(h)[j] = (IF j = 1 THEN <<>> ELSE <<"tab", "sp">>) \o h.lines[j] \o Crlf
    BY <1>1 DEF LineTexts
<1>4. LineTexts(h) = [j \in 1..Len(h.lines) |-> LineTexts(h)[j]]
    BY <1>1 DEF LineTexts
<1>5. \A j \in 1..Len(h.lines) : LineTexts(h)[j] \in T
    BY <1>2, <1>3
<1> HIDE DEF T
<1>6. LineTexts(h) \in Seq(T)
    BY <1>1, <1>4, <1>5, SeqDef
<1>7. Len(LineTexts(h)) = Len(h.lines)
    BY <1>1, <1>4, <1>6, LenProperties
<1> QED BY <1>3, <1>6, <1>7 DEF T

HeaderTextIs(h) == HeaderText(h) = (<<h.name, ":">> \o Space(h)) \o Joined(LineTexts(h))

LEMMA HeaderTextTyped ==
    ASSUME NEW h, h.lines \in Seq(Seq(Chars \ Ctl)), h.name \in Words
    PROVE  /\ HeaderText(h) \in Seq(Chars) /\ HeaderTextIs(h)
           /\ Space(h) \in Seq(Chars) /\ <<h.name>> \in Seq(Chars) /\ <<h.name, ":">> \in Seq(Chars)
           /\ Joined(LineTexts(h)) \in Seq(Chars)
<1>1. Space(h) \in Seq(Chars) /\ <<h.name>> \in Seq(Chars) /\ <<h.name, ":">> \in Seq(Chars)
    BY CharsFacts DEF Space
<1>2. LineTexts(h) \in Seq(Seq(Chars))
    BY LineTextsTyped
<1>3. PICK J \in Seq(Chars) : J = Joined(LineTexts(h))
    BY <1>2, JoinedText
<1>4. HeaderTextIs(h)
    BY DEF HeaderTextIs, HeaderText, Space, LineTexts
<1>5. <<h.name, ":">> \o Space(h) \in Seq(Chars)
    BY <1>1, Concat
<1>6. (<<h.name, ":">> \o Space(h)) \o J \in Seq(Chars)
    BY <1>5, Concat
<1> QED BY <1>1, <1>3, <1>4, <1>6 DEF HeaderTextIs

LEMMA HeaderTextsTyped ==
    ASSUME NEW r, IsRequest(r)
    PROVE  /\ HeaderTexts(r) \in Seq(Seq(Chars)) /\ Len(HeaderTexts(r)) = Len(r.headers)
           /\ \A k \in 1..Len(r.headers) : HeaderTexts(r)[k] = HeaderText(r.headers[k])
<1>1. /\ DOMAIN r.headers = 1..Len(r.headers) /\ Len(r.headers) \in Nat
      /\ \A k \in 1..Len(r.headers) :
            r.headers[k].name \in Words /\ r.headers[k].lines \in Seq(Seq(Chars \ Ctl))
    BY HeadersTyped
<1> DEFINE T == Seq(Chars)
<1>2. \A k \in 1..Len(r.headers) : HeaderText(r.headers[k]) \in T
    BY <1>1, HeaderTextTyped
<1>3. \A k \in 1..Len(r.headers) : HeaderTexts(r)[k] = HeaderText(r.headers[k])
    BY <1>1 DEF HeaderTexts
<1>7. PICK n \in Nat : n = Len(r.headers)
    BY <1>1
<1>8. HeaderTexts(r) = [k \in 1..n |-> HeaderTexts(r)[k]]
    BY <1>1, <1>7 DEF HeaderTexts
<1> HIDE DEF T
<1>4. \A k \in 1..Len(r.headers) : HeaderTexts(r)[k] \in T
    BY <1>2, <1>3
<1>5. HeaderTexts(r) \in Seq(T)
    BY <1>4, <1>7, <1>8, SeqDef
<1>6. Len(HeaderTexts(r)) = Len(r.headers)
    BY <1>5, <1>7, <1>8, LenProperties
<1> QED BY <1>3, <1>5, <1>6 DEF T

LEMMA FromTyped ==
    ASSUME NEW ps \in Seq(Seq(Chars)), NEW i \in 1..(Len(ps) + 1)
    PROVE  From(ps, i) \in Seq(Chars)
<1>1. Len(ps) \in Nat
    BY LenProperties
<1>2. CASE i = Len(ps) + 1
    <2>1. <<>> \in Seq(Chars)
        OBVIOUS
    <2> QED BY <1>2, <2>1, FromAll
<1>3. CASE i # Len(ps) + 1
    <2>1. i \in 1..Len(ps)
        BY <1>1, <1>3
    <2> QED BY <2>1, FromOne
<1> QED BY <1>2, <1>3

LEMMA AtTyped ==
    ASSUME NEW r, IsRequest(r)
    PROVE  /\ \A k \in 1..(Len(r.headers) + 1) : AtHeader(r, k) \in Seq(Chars)
           /\ \A k \in 1..Len(r.headers) : \A j \in 1..(Len(r.headers[k].lines) + 1) :
                 AtLine(r, k, j) \in Seq(Chars)
           /\ \A k \in 1..Len(r.headers) : \A j \in 1..Len(r.headers[k].lines) :
                 AfterLine(r, k, j) \in Seq(Chars)
<1>1. /\ FormText(r.form) \in Seq(Chars) /\ Len(r.headers) \in Nat
      /\ \A k \in 1..Len(r.headers) :
            r.headers[k].name \in Words /\ r.headers[k].lines \in Seq(Seq(Chars \ Ctl))
    BY HeadersTyped
<1>2. HeaderTexts(r) \in Seq(Seq(Chars)) /\ Len(HeaderTexts(r)) = Len(r.headers)
    BY HeaderTextsTyped
<1>3. Crlf \in Seq(Chars)
    BY CharsFacts
<1>4. Crlf \o FormText(r.form) \in Seq(Chars)
    BY <1>1, <1>3, Concat
<1>5. ASSUME NEW k \in 1..(Len(r.headers) + 1) PROVE AtHeader(r, k) \in Seq(Chars)
    <2>1. From(HeaderTexts(r), k) \in Seq(Chars)
        BY <1>2, FromTyped
    <2> QED BY <1>4, <2>1, Concat DEF AtHeader
<1>6. ASSUME NEW k \in 1..Len(r.headers), NEW j \in 1..(Len(r.headers[k].lines) + 1)
      PROVE  AtLine(r, k, j) \in Seq(Chars)
    <2>1. PICK h : h = r.headers[k]
        OBVIOUS
    <2>2. LineTexts(h) \in Seq(Seq(Chars)) /\ Len(LineTexts(h)) = Len(h.lines)
        BY <1>1, <2>1, LineTextsTyped
    <2>3. From(LineTexts(h), j) \in Seq(Chars)
        BY <2>1, <2>2, FromTyped
    <2>4. k + 1 \in 1..(Len(r.headers) + 1)
        BY <1>1
    <2>5. AtHeader(r, k + 1) \in Seq(Chars)
        BY <1>5, <2>4
    <2> QED BY <2>1, <2>3, <2>5, Concat DEF AtLine
<1>7. ASSUME NEW k \in 1..Len(r.headers), NEW j \in 1..Len(r.headers[k].lines)
      PROVE  AfterLine(r, k, j) \in Seq(Chars)
    <2>1. Len(r.headers[k].lines) \in Nat
        BY <1>1, LenProperties
    <2>2. j + 1 \in 1..(Len(r.headers[k].lines) + 1)
        BY <2>1
    <2>3. AtLine(r, k, j + 1) \in Seq(Chars)
        BY <1>6, <2>2
    <2> QED BY <1>3, <2>3, Concat DEF AfterLine
<1> QED BY <1>5, <1>6, <1>7

\* How the text goes on at each place.
HeaderLaw(r, k) ==
    AtHeader(r, k) = <<r.headers[k].name>> \o (<<":">> \o (Space(r.headers[k]) \o AtLine(r, k, 1)))
EndLaw(r) == AtHeader(r, Len(r.headers) + 1) = <<"cr">> \o (<<"lf">> \o FormText(r.form))
FirstLaw(r, k) == AtLine(r, k, 1) = r.headers[k].lines[1] \o AfterLine(r, k, 1)
LineLaw(r, k, j) == AtLine(r, k, j) = <<"tab">> \o (<<"sp">> \o (r.headers[k].lines[j] \o AfterLine(r, k, j)))
BreakLaw(r, k, j) == AfterLine(r, k, j) = <<"cr">> \o (<<"lf">> \o AtLine(r, k, j + 1))
LastLaw(r, k) == AtLine(r, k, Len(r.headers[k].lines) + 1) = AtHeader(r, k + 1)
VersionLaw(r, i) == AtVersion(r, i) = <<Version[i]>> \o AtVersion(r, i + 1)
TextLaw(r) == Text(r) = <<r.method>> \o (<<"sp">> \o (UriText(r) \o AfterUri(r)))

LEMMA Letters ==
    /\ <<"cr">> \in Seq(Chars) /\ <<"lf">> \in Seq(Chars) /\ <<"sp">> \in Seq(Chars) /\ <<"tab">> \in Seq(Chars)
    /\ <<":">> \in Seq(Chars) /\ <<"tab", "sp">> \in Seq(Chars)
    /\ <<"sp", "H", "T", "T", "P", "/", "1", ".", "1">> \in Seq(Chars)
    /\ Crlf \in Seq(Chars) /\ Version \in Seq(Chars)
    /\ \A c \in Chars : <<c>> \in Seq(Chars) /\ <<c, "sp">> \in Seq(Chars)
<1>1. "H" \in Chars /\ "T" \in Chars /\ "P" \in Chars /\ "/" \in Chars /\ "1" \in Chars /\ "." \in Chars
    BY DEF Chars, Digits
<1>2. "cr" \in Chars /\ "lf" \in Chars /\ "sp" \in Chars /\ "tab" \in Chars /\ ":" \in Chars
    BY CharsFacts
<1>3. <<"sp", "H", "T", "T", "P", "/", "1", ".", "1">> \in Seq(Chars)
    BY <1>1, <1>2
<1>4. /\ <<"cr">> \in Seq(Chars) /\ <<"lf">> \in Seq(Chars) /\ <<"sp">> \in Seq(Chars) /\ <<"tab">> \in Seq(Chars)
      /\ <<":">> \in Seq(Chars) /\ <<"tab", "sp">> \in Seq(Chars)
    BY <1>2
<1>5. \A c \in Chars : <<c>> \in Seq(Chars) /\ <<c, "sp">> \in Seq(Chars)
    BY <1>2
<1> QED BY <1>3, <1>4, <1>5, CharsFacts

LEMMA BreaksSo ==
    ASSUME NEW s \in Seq(Chars)
    PROVE  Crlf \o s = <<"cr">> \o (<<"lf">> \o s)
<1>1. PICK a \in Seq(Chars), b \in Seq(Chars) : a = <<"cr">> /\ b = <<"lf">>
    BY Letters
<1>2. Crlf = a \o b
    BY <1>1, CharsFacts
<1>3. Assoc(a, b, s)
    BY Associates
<1> QED BY <1>1, <1>2, <1>3 DEF Assoc

LEMMA HeaderGoesOn ==
    ASSUME NEW r, IsRequest(r), NEW k \in 1..Len(r.headers)
    PROVE  HeaderLaw(r, k) /\ FirstLaw(r, k) /\ LastLaw(r, k)
<1>1. PICK h : h = r.headers[k]
    OBVIOUS
<1>2. /\ FormText(r.form) \in Seq(Chars) /\ Len(r.headers) \in Nat
      /\ h.name \in Words /\ h.lines \in Seq(Seq(Chars \ Ctl)) /\ h.lines # <<>>
    BY <1>1, HeadersTyped
<1>3. HeaderTexts(r) \in Seq(Seq(Chars)) /\ Len(HeaderTexts(r)) = Len(r.headers) /\ HeaderTexts(r)[k] = HeaderText(h)
    BY <1>1, HeaderTextsTyped
<1>4. /\ LineTexts(h) \in Seq(Seq(Chars)) /\ Len(LineTexts(h)) = Len(h.lines) /\ Len(h.lines) \in Nat \ {0}
      /\ LineTexts(h)[1] = <<>> \o h.lines[1] \o Crlf /\ h.lines[1] \in Seq(Chars)
    <2>1. Len(h.lines) \in Nat \ {0}
        BY <1>2, EmptySeq
    <2>2. 1 \in 1..Len(h.lines)
        BY <2>1
    <2>3. h.lines[1] \in Seq(Chars \ Ctl)
        BY <1>2, <2>2, LinesTyped
    <2>4. LineTexts(h)[1] = (IF 1 = 1 THEN <<>> ELSE <<"tab", "sp">>) \o h.lines[1] \o Crlf
        BY <1>2, <2>2, LineTextsTyped
    <2>5. LineTexts(h) \in Seq(Seq(Chars)) /\ Len(LineTexts(h)) = Len(h.lines)
        BY <1>2, LineTextsTyped
    <2>6. h.lines[1] \in Seq(Chars)
        BY <2>3
    <2> QED BY <2>1, <2>4, <2>5, <2>6
<1>5. k + 1 \in 1..(Len(r.headers) + 1) /\ 1 \in 1..(Len(h.lines) + 1) /\ 1 \in 1..Len(h.lines)
    BY <1>2, <1>4
<1>6. PICK X \in Seq(Chars) : X = AtHeader(r, k + 1)
    BY <1>5, AtTyped
<1>7. PICK F \in Seq(Chars) : F = From(HeaderTexts(r), k + 1) /\ From(HeaderTexts(r), k) = HeaderText(h) \o F
    BY <1>3, FromOne
<1>8. PICK E \in Seq(Chars) : E = Crlf \o FormText(r.form)
    BY <1>2, CharsFacts, Concat
<1>9. X = F \o E
    BY <1>6, <1>7, <1>8 DEF AtHeader
<1>10. PICK J \in Seq(Chars), S \in Seq(Chars), N \in Seq(Chars), C \in Seq(Chars), H \in Seq(Chars), NC \in Seq(Chars) :
         /\ J = Joined(LineTexts(h)) /\ S = Space(h) /\ N = <<h.name>> /\ C = <<":">> /\ H = HeaderText(h)
         /\ NC = <<h.name, ":">>
    <2>1. /\ HeaderText(h) \in Seq(Chars) /\ Space(h) \in Seq(Chars) /\ <<h.name>> \in Seq(Chars)
          /\ <<h.name, ":">> \in Seq(Chars) /\ Joined(LineTexts(h)) \in Seq(Chars)
        BY <1>2, HeaderTextTyped
    <2> QED BY <2>1, Letters
<1>11. H = (NC \o S) \o J
    <2>1. HeaderTextIs(h)
        BY <1>2, HeaderTextTyped
    <2> QED BY <1>10, <2>1 DEF HeaderTextIs
<1>12. NC = N \o C
    BY <1>10
<1>13. PICK L \in Seq(Chars) : L = J \o X
    BY Concat
<1>14. AtLine(r, k, 1) = L
    <2>1. From(LineTexts(h), 1) = J
        BY <1>4, <1>10, FromAll
    <2> QED BY <1>1, <1>6, <1>13, <2>1 DEF AtLine
<1>15. HeaderLaw(r, k)
    <2>1. AtHeader(r, k) = (H \o F) \o E
        BY <1>7, <1>8, <1>10 DEF AtHeader
    <2>2. Assoc(H, F, E)
        BY Associates
    <2>3. AtHeader(r, k) = ((NC \o S) \o J) \o X
        BY <1>9, <1>11, <2>1, <2>2 DEF Assoc
    <2>4. Regrouped(NC, S, J, X)
        BY ConcatFour
    <2>5. AtHeader(r, k) = NC \o (S \o L)
        BY <1>13, <2>3, <2>4 DEF Regrouped
    <2>6. PICK Y \in Seq(Chars) : Y = S \o L
        BY Concat
    <2>7. Assoc(N, C, Y)
        BY Associates
    <2>8. AtHeader(r, k) = N \o (C \o Y)
        BY <1>12, <2>5, <2>6, <2>7 DEF Assoc
    <2> QED BY <1>1, <1>10, <1>14, <2>6, <2>8 DEF HeaderLaw
<1>16. LastLaw(r, k)
    <2>1. From(LineTexts(h), Len(LineTexts(h)) + 1) = <<>>
        BY <1>4, FromAll
    <2>2. From(LineTexts(h), Len(h.lines) + 1) = <<>>
        BY <1>4, <2>1
    <2>3. <<>> \o X = X
        BY ConcatEmptySeq
    <2> QED BY <1>1, <1>6, <2>2, <2>3 DEF AtLine, LastLaw
<1>17. FirstLaw(r, k)
    <2>1. PICK l \in Seq(Chars) : l = h.lines[1]
        BY <1>4
    <2>2. PICK G \in Seq(Chars) : G = From(LineTexts(h), 2) /\ From(LineTexts(h), 1) = LineTexts(h)[1] \o G
        <3>1. 1 \in 1..Len(LineTexts(h)) /\ 1 + 1 = 2
            BY <1>4
        <3>2. From(LineTexts(h), 1) = LineTexts(h)[1] \o From(LineTexts(h), 1 + 1) /\ From(LineTexts(h), 1 + 1) \in Seq(Chars)
            BY <1>4, <3>1, FromOne
        <3> QED BY <3>1, <3>2
    <2>3. PICK B \in Seq(Chars) : B = Crlf
        BY CharsFacts
    <2>4. <<>> \o l = l
        BY ConcatEmptySeq
    <2>5. LineTexts(h)[1] = l \o B
        BY <1>4, <2>1, <2>3, <2>4
    <2>6. AtLine(r, k, 1) = ((l \o B) \o G) \o X
        BY <1>1, <1>6, <2>2, <2>5 DEF AtLine
    <2>7. Regrouped(l, B, G, X)
        BY ConcatFour
    <2>8. AfterLine(r, k, 1) = B \o (G \o X)
        <3>1. 1 + 1 = 2
            OBVIOUS
        <3> QED BY <1>1, <1>6, <2>2, <2>3, <3>1 DEF AfterLine, AtLine
    <2> QED BY <1>1, <2>1, <2>6, <2>7, <2>8 DEF Regrouped, FirstLaw
<1> QED BY <1>15, <1>16, <1>17

LEMMA LineGoesOn ==
    ASSUME NEW r, IsRequest(r), NEW k \in 1..Len(r.headers), NEW j \in 1..Len(r.headers[k].lines)
    PROVE  (j # 1 => LineLaw(r, k, j)) /\ BreakLaw(r, k, j)
<1>1. PICK h : h = r.headers[k]
    OBVIOUS
<1>2. h.lines \in Seq(Seq(Chars \ Ctl)) /\ Len(r.headers) \in Nat /\ k \in 1..Len(r.headers) /\ j \in 1..Len(h.lines)
    BY <1>1, HeadersTyped
<1>3. /\ LineTexts(h) \in Seq(Seq(Chars)) /\ Len(LineTexts(h)) = Len(h.lines) /\ Len(h.lines) \in Nat
      /\ h.lines[j] \in Seq(Chars)
      /\ LineTexts(h)[j] = (IF j = 1 THEN <<>> ELSE <<"tab", "sp">>) \o h.lines[j] \o Crlf
    <2>1. h.lines[j] \in Seq(Chars \ Ctl) /\ Len(h.lines) \in Nat
        BY <1>2, LinesTyped
    <2>2. LineTexts(h)[j] = (IF j = 1 THEN <<>> ELSE <<"tab", "sp">>) \o h.lines[j] \o Crlf
        BY <1>2, LineTextsTyped
    <2>3. LineTexts(h) \in Seq(Seq(Chars)) /\ Len(LineTexts(h)) = Len(h.lines)
        BY <1>2, LineTextsTyped
    <2>4. h.lines[j] \in Seq(Chars)
        BY <2>1
    <2> QED BY <2>1, <2>2, <2>3, <2>4
<1>4. BreakLaw(r, k, j)
    <2>1. j + 1 \in 1..(Len(h.lines) + 1)
        BY <1>2, <1>3
    <2>2. PICK s \in Seq(Chars) : s = AtLine(r, k, j + 1)
        BY <1>1, <2>1, AtTyped
    <2>3. Crlf \o s = <<"cr">> \o (<<"lf">> \o s)
        BY BreaksSo
    <2> QED BY <2>2, <2>3 DEF BreakLaw, AfterLine
<1>5. ASSUME j # 1 PROVE LineLaw(r, k, j)
    <2>1. PICK l \in Seq(Chars), B \in Seq(Chars), D \in Seq(Chars), Q \in Seq(Chars), W \in Seq(Chars) :
            l = h.lines[j] /\ B = Crlf /\ D = <<"tab">> /\ Q = <<"sp">> /\ W = <<"tab", "sp">>
        BY <1>3, Letters
    <2>2. W = D \o Q
        BY <2>1
    <2>3. PICK X \in Seq(Chars) : X = AtHeader(r, k + 1)
        <3>1. k + 1 \in 1..(Len(r.headers) + 1)
            BY <1>2
        <3> QED BY <3>1, AtTyped
    <2>4. PICK G \in Seq(Chars) : G = From(LineTexts(h), j + 1) /\ From(LineTexts(h), j) = LineTexts(h)[j] \o G
        <3>1. j \in 1..Len(LineTexts(h))
            BY <1>2, <1>3
        <3> QED BY <1>3, <3>1, FromOne
    <2>5. LineTexts(h)[j] = (W \o l) \o B
        BY <1>3, <1>5, <2>1
    <2>6. PICK A \in Seq(Chars) : A = AfterLine(r, k, j)
        BY <1>1, <1>2, AtTyped
    <2>7. A = B \o (G \o X)
        BY <1>1, <2>1, <2>3, <2>4, <2>6 DEF AfterLine, AtLine
    <2>8. AtLine(r, k, j) = (((W \o l) \o B) \o G) \o X
        BY <1>1, <2>3, <2>4, <2>5 DEF AtLine
    <2>9. PICK V \in Seq(Chars) : V = W \o l
        BY Concat
    <2>10. Regrouped(V, B, G, X)
        BY ConcatFour
    <2>11. AtLine(r, k, j) = (W \o l) \o A
        BY <2>7, <2>8, <2>9, <2>10 DEF Regrouped
    <2>12. Regrouped(D, Q, l, A)
        BY ConcatFour
    <2>13. AtLine(r, k, j) = D \o (Q \o (l \o A))
        BY <2>2, <2>11, <2>12 DEF Regrouped
    <2> QED BY <1>1, <2>1, <2>6, <2>13 DEF LineLaw
<1> QED BY <1>4, <1>5

LEMMA TextGoesOn ==
    ASSUME NEW r, IsRequest(r)
    PROVE  /\ EndLaw(r) /\ TextLaw(r) /\ AtVersion(r, 11) = AtHeader(r, 1)
           /\ \A i \in 1..10 : VersionLaw(r, i)
<1>1. /\ FormText(r.form) \in Seq(Chars) /\ UriText(r) \in Seq(Chars) /\ Len(r.headers) \in Nat /\ r.method \in Chars
    BY HeadersTyped, CharsFacts
<1>2. HeaderTexts(r) \in Seq(Seq(Chars)) /\ Len(HeaderTexts(r)) = Len(r.headers)
    BY HeaderTextsTyped
<1>3. EndLaw(r)
    <2>1. From(HeaderTexts(r), Len(HeaderTexts(r)) + 1) = <<>>
        BY <1>2, FromAll
    <2>2. PICK F \in Seq(Chars) : F = FormText(r.form)
        BY <1>1
    <2>3. Crlf \o F = <<"cr">> \o (<<"lf">> \o F) /\ Crlf \o F \in Seq(Chars)
        BY BreaksSo, CharsFacts, Concat
    <2>4. <<>> \o (Crlf \o F) = Crlf \o F
        BY <2>3, ConcatEmptySeq
    <2>5. AtHeader(r, Len(r.headers) + 1) = <<>> \o (Crlf \o F)
        BY <1>2, <2>1, <2>2 DEF AtHeader
    <2> QED BY <2>2, <2>3, <2>4, <2>5 DEF EndLaw
<1>4. PICK X \in Seq(Chars) : X = AtHeader(r, 1)
    <2>1. 1 \in 1..(Len(r.headers) + 1)
        BY <1>1
    <2> QED BY <2>1, AtTyped
<1>5. AtVersion(r, 11) = X
    <2>1. After(Version, Len(Version) + 1) = <<>>
        BY CharsFacts, AfterAll
    <2>2. Len(Version) + 1 = 11
        BY CharsFacts
    <2>3. <<>> \o X = X
        BY ConcatEmptySeq
    <2> QED BY <1>4, <2>1, <2>2, <2>3 DEF AtVersion
<1>6. ASSUME NEW i \in 1..10 PROVE VersionLaw(r, i)
    <2>1. i \in 1..Len(Version)
        BY CharsFacts
    <2>2. /\ After(Version, i) = <<Version[i]>> \o After(Version, i + 1)
          /\ After(Version, i + 1) \in Seq(Chars) /\ Version[i] \in Chars
        BY <2>1, CharsFacts, AfterOne
    <2>3. PICK a \in Seq(Chars), z \in Seq(Chars) : a = <<Version[i]>> /\ z = After(Version, i + 1)
        <3>1. <<Version[i]>> \in Seq(Chars)
            BY <2>2, Letters
        <3> QED BY <2>2, <3>1
    <2>4. Assoc(a, z, X)
        BY Associates
    <2> QED BY <1>4, <2>2, <2>3, <2>4 DEF VersionLaw, AtVersion, Assoc
<1>7. TextLaw(r)
    <2>1. PICK M \in Seq(Chars), Q \in Seq(Chars), MQ \in Seq(Chars), U \in Seq(Chars), B \in Seq(Chars), F \in Seq(Chars) :
            /\ M = <<r.method>> /\ Q = <<"sp">> /\ MQ = <<r.method, "sp">> /\ U = UriText(r) /\ B = Crlf
            /\ F = FormText(r.form)
        <3>1. <<r.method>> \in Seq(Chars) /\ <<r.method, "sp">> \in Seq(Chars)
            BY <1>1, Letters
        <3> QED BY <1>1, <3>1, Letters
    <2>2. MQ = M \o Q
        BY <2>1
    <2>3. PICK V \in Seq(Chars) : V = <<"sp", "H", "T", "T", "P", "/", "1", ".", "1">>
        BY Letters
    <2>4. PICK R \in Seq(Chars) : R = Version
        BY CharsFacts
    <2>5. V \o B = Q \o R
        BY <2>1, <2>3, <2>4 DEF Crlf, Version
    <2>6. PICK J \in Seq(Chars) : J = Joined(HeaderTexts(r))
        BY <1>2, JoinedText
    <2>7. X = J \o (B \o F)
        <3>1. From(HeaderTexts(r), 1) = J
            BY <1>2, <2>6, FromAll
        <3> QED BY <1>4, <2>1, <3>1 DEF AtHeader
    <2>8. Text(r) = (((((MQ \o U) \o V) \o B) \o J) \o B) \o F
        BY <2>1, <2>3, <2>6 DEF Text, HeaderTexts
    <2>9. AfterUri(r) = Q \o (R \o X)
        <3>1. After(Version, 1) = R
            BY <2>4, CharsFacts, AfterAll
        <3> QED BY <1>4, <2>1, <3>1 DEF AfterUri, AtVersion
    <2>10. PICK P \in Seq(Chars) : P = MQ \o U
        BY Concat
    <2>11. PICK S \in Seq(Chars) : S = (P \o V) \o B
        <3>1. PICK PV \in Seq(Chars) : PV = P \o V
            BY Concat
        <3> QED BY <3>1, Concat
    <2>12. Text(r) = S \o X
        <3>1. Regrouped(S, J, B, F)
            BY ConcatFour
        <3> QED BY <2>7, <2>8, <2>10, <2>11, <3>1 DEF Regrouped
    <2>13. S = P \o (V \o B)
        <3>1. Assoc(P, V, B)
            BY Associates
        <3> QED BY <2>11, <3>1 DEF Assoc
    <2>14. PICK W \in Seq(Chars) : W = R \o X
        BY Concat
    <2>15. PICK A \in Seq(Chars) : A = Q \o W
        BY Concat
    <2>16. S = (P \o Q) \o R
        <3>1. Assoc(P, Q, R)
            BY Associates
        <3> QED BY <2>5, <2>13, <3>1 DEF Assoc
    <2>17. Text(r) = P \o A
        <3>1. Regrouped(P, Q, R, X)
            BY ConcatFour
        <3> QED BY <2>12, <2>14, <2>15, <2>16, <3>1 DEF Regrouped
    <2>18. Regrouped(M, Q, U, A)
        BY ConcatFour
    <2>19. Text(r) = M \o (Q \o (U \o A))
        BY <2>2, <2>10, <2>17, <2>18 DEF Regrouped
    <2>20. AfterUri(r) = A
        BY <2>9, <2>14, <2>15
    <2> QED BY <2>1, <2>19, <2>20 DEF TextLaw
<1> QED BY <1>3, <1>4, <1>5, <1>6, <1>7

------------------------------------------------------------------------------
(* What is still to come, in each state of the parser.                     *)

VersionStates ==
    <<"http_version_h", "http_version_t_1", "http_version_t_2", "http_version_p", "http_version_slash",
      "http_version_major_start", "http_version_major", "http_version_minor_start", "http_version_minor",
      "expecting_newline_1">>

\* Of the request line, whose method is m and whose uri is u so far.
UriAhead(r, s, m, u, L) ==
    /\ s = "method_start" => m = <<>> /\ u = <<>> /\ L = Text(r)
    /\ s # "method_start" => m = <<r.method>>
    /\ s = "method" => u = <<>> /\ L = <<"sp">> \o (UriText(r) \o AfterUri(r))
    /\ s = "uri" => /\ u \in Seq(UriChars)
                    /\ \E b \in Seq(UriChars) : u \o b = UriText(r) /\ L = b \o AfterUri(r)
    /\ s \notin {"method_start", "method", "uri"} => u = UriText(r)
    /\ \A i \in 1..10 : s = VersionStates[i] => L = AtVersion(r, i)

\* The k-th header is read; those before it are in hs.
InHeader(r, k, hs, n) ==
    k \in 1..Len(r.headers) /\ n = <<r.headers[k].name>> /\ Keeps(r, k - 1, hs)
InLine(r, k, j, hs, n) == InHeader(r, k, hs, n) /\ j \in 1..Len(r.headers[k].lines)

LineAhead(r, hs, n, v, L) ==
    \/ hs = <<>> /\ n = <<>> /\ v = <<>> /\ L = AtHeader(r, 1)
    \/ \E k, j : /\ InLine(r, k, j, hs, n)
                 /\ v = Before(r.headers[k].lines, j + 1) /\ L = AtLine(r, k, j + 1)

\* Before the text of the j-th line, and within it.
TextAhead(r, k, j, hs, n, v, L) ==
    /\ InLine(r, k, j, hs, n) /\ v = Before(r.headers[k].lines, j)
    /\ L = r.headers[k].lines[j] \o AfterLine(r, k, j)
InText(r, k, j, hs, n, v, L) ==
    /\ InLine(r, k, j, hs, n)
    /\ \E a \in Seq(Chars \ Ctl) : \E b \in Seq(Chars \ Ctl) :
          /\ r.headers[k].lines[j] = a \o b
          /\ v = Before(r.headers[k].lines, j) \o a /\ L = b \o AfterLine(r, k, j)

\* The headers have ended, but the last one is still to be stored.
AllRead(r, hs, n, v) ==
    \/ r.headers = <<>> /\ hs = <<>> /\ n = <<>> /\ v = <<>>
    \/ r.headers # <<>> /\ InHeader(r, Len(r.headers), hs, n) /\ v = Joined(r.headers[Len(r.headers)].lines)

HeaderAhead(r, s, hs, n, v, L) ==
    /\ s \in RequestLine => hs = <<>> /\ n = <<>> /\ v = <<>>
    /\ s = "header_line_start" => LineAhead(r, hs, n, v, L)
    /\ s = "header_name" =>
          \E k : /\ InHeader(r, k, hs, n) /\ v = <<>>
                 /\ L = <<":">> \o (Space(r.headers[k]) \o AtLine(r, k, 1))
    /\ s = "space_before_header_value" =>
          \E k : InHeader(r, k, hs, n) /\ v = <<>> /\ L = Space(r.headers[k]) \o AtLine(r, k, 1)
    /\ s = "header_value" => \E k, j : InText(r, k, j, hs, n, v, L)
    /\ s = "header_lws" =>
          \E k, j : \E X \in Seq(Chars) :
              j # 1 /\ TextAhead(r, k, j, hs, n, v, X) /\ (L = X \/ L = <<"sp">> \o X)
    /\ s = "expecting_newline_2" =>
          \E k, j : /\ InLine(r, k, j, hs, n)
                    /\ v = Before(r.headers[k].lines, j + 1) /\ L = <<"lf">> \o AtLine(r, k, j + 1)
    /\ s = "expecting_newline_3" => AllRead(r, hs, n, v) /\ L = <<"lf">> \o FormText(r.form)

Ahead(r, s, m, u, hs, n, v, L) == UriAhead(r, s, m, u, L) /\ HeaderAhead(r, s, hs, n, v, L)

\* What Move and StartHeader make of the request and of the current header.
NextMethod(next, m, c) == IF next = "method" THEN Append(m, c) ELSE m
NextUri(s, next, u, c) == IF s = "uri" /\ next = "uri" THEN Append(u, c) ELSE u
BeginsHeader(s, next) == s = "header_line_start" /\ next = "header_name"
NextHeaders(s, next, hs, n, v) == IF BeginsHeader(s, next) /\ n # <<>> THEN With(hs, n, v) ELSE hs
NextName(s, next, n, c) ==
    IF BeginsHeader(s, next) THEN <<c>> ELSE IF next = "header_name" THEN Append(n, c) ELSE n
NextValue(s, next, v, c) ==
    IF BeginsHeader(s, next) THEN <<>>
    ELSE IF next = "header_value" /\ ~(s = "space_before_header_value" /\ c = "sp") THEN Append(v, c)
    ELSE v

Reaches(r, s, next, c, m, u, hs, n, v, L) ==
    Ahead(r, next, NextMethod(next, m, c), NextUri(s, next, u, c), NextHeaders(s, next, hs, n, v),
          NextName(s, next, n, c), NextValue(s, next, v, c), L)

Proceeds(r, s, c, m, u, hs, n, v, L) ==
    /\ \E next : Leads(s, c, next) /\ Reaches(r, s, next, c, m, u, hs, n, v, L)
    /\ s = "header_line_start" /\ c \in Blanks => hs # <<>>

Begins(L, c, Z) == L = <<c>> \o Z

LEMMA SameFront ==
    ASSUME NEW L, NEW c \in Chars, NEW d \in Chars, NEW Z \in Seq(Chars), NEW Y \in Seq(Chars),
           Begins(L, c, Z), Begins(L, d, Y)
    PROVE  c = d /\ Z = Y
<1>0. <<c>> \o Z = <<d>> \o Y
    BY DEF Begins
<1>1. (<<c>> \o Z)[1] = c /\ (<<d>> \o Y)[1] = d
    OBVIOUS
<1>2. /\ Tail(<<c>> \o Z) = Z
    OBVIOUS
<1>3. Tail(<<d>> \o Y) = Y
    OBVIOUS
<1> QED BY <1>0, <1>1, <1>2, <1>3

LEMMA VersionLeads ==
    \A i \in 1..10 :
       /\ VersionStates[i] \in RequestLine \ {"method_start", "method", "uri"}
       /\ Version[i] \in Chars
       /\ Leads(VersionStates[i], Version[i], IF i = 10 THEN "header_line_start" ELSE VersionStates[i + 1])
       /\ \A j \in 1..10 : VersionStates[i] = VersionStates[j] => i = j
<1> DEFINE P(i) == /\ VersionStates[i] \in RequestLine \ {"method_start", "method", "uri"}
                   /\ Version[i] \in Chars
                   /\ Leads(VersionStates[i], Version[i],
                            IF i = 10 THEN "header_line_start" ELSE VersionStates[i + 1])
<1>1. \A i \in 1..10 : i = 1 \/ i = 2 \/ i = 3 \/ i = 4 \/ i = 5 \/ i = 6 \/ i = 7 \/ i = 8 \/ i = 9 \/ i = 10
    OBVIOUS
<1>2. "1" \in Digits
    BY DEF Digits
<1>3. P(1) /\ P(2)
    BY DEF VersionStates, Version, RequestLine, Chars, Leads, Moves
<1>4. P(3) /\ P(4)
    BY DEF VersionStates, Version, RequestLine, Chars, Leads, Moves
<1>5. P(5) /\ P(6)
    BY <1>2 DEF VersionStates, Version, RequestLine, Chars, Leads, Moves
<1>6. P(7) /\ P(8)
    BY <1>2 DEF VersionStates, Version, RequestLine, Chars, Leads, Moves
<1>7. P(9) /\ P(10)
    BY DEF VersionStates, Version, RequestLine, Chars, Ctl, Leads, Moves
<1>8. \A i \in 1..10 : P(i)
    <2> HIDE DEF P
    <2> QED BY <1>1, <1>3, <1>4, <1>5, <1>6, <1>7
<1>9. \A i, j \in 1..10 : VersionStates[i] = VersionStates[j] => i = j
    BY <1>1 DEF VersionStates
<1> QED BY <1>8, <1>9

LEMMA RequestLineStates ==
    ASSUME NEW s \in RequestLine
    PROVE  s \in {"method_start", "method", "uri"} \/ \E i \in 1..10 : s = VersionStates[i]
<1>1. \A i \in 1..10 : VersionStates[i] \in RequestLine
    BY VersionLeads
<1>2. /\ VersionStates[1] = "http_version_h" /\ VersionStates[2] = "http_version_t_1"
      /\ VersionStates[3] = "http_version_t_2" /\ VersionStates[4] = "http_version_p"
      /\ VersionStates[5] = "http_version_slash" /\ VersionStates[6] = "http_version_major_start"
      /\ VersionStates[7] = "http_version_major" /\ VersionStates[8] = "http_version_minor_start"
      /\ VersionStates[9] = "http_version_minor" /\ VersionStates[10] = "expecting_newline_1"
    BY DEF VersionStates
<1>3. 1 \in 1..10 /\ 2 \in 1..10 /\ 3 \in 1..10 /\ 4 \in 1..10 /\ 5 \in 1..10 /\ 6 \in 1..10 /\ 7 \in 1..10
      /\ 8 \in 1..10 /\ 9 \in 1..10 /\ 10 \in 1..10
    OBVIOUS
<1> QED BY <1>2, <1>3 DEF RequestLine

LEMMA VersionTyped ==
    ASSUME NEW r, IsRequest(r)
    PROVE  (\A i \in 1..11 : AtVersion(r, i) \in Seq(Chars)) /\ AfterUri(r) \in Seq(Chars)
<1>1. Len(r.headers) \in Nat
    BY HeadersTyped
<1>4. PICK H \in Seq(Chars) : H = AtHeader(r, 1)
    <2>1. 1 \in 1..(Len(r.headers) + 1)
        BY <1>1
    <2> QED BY <2>1, AtTyped
<1>5. \A i \in 1..11 : AtVersion(r, i) \in Seq(Chars)
    <2>1. ASSUME NEW i \in 1..11 PROVE After(Version, i) \in Seq(Chars)
        <3>1. CASE i = 11
            <4>1. PICK W \in Seq(Chars) : W = Version
                BY CharsFacts
            <4>2. After(W, Len(W) + 1) = <<>>
                BY AfterAll
            <4>3. Len(W) + 1 = 11
                BY <4>1, CharsFacts
            <4>4. <<>> \in Seq(Chars)
                OBVIOUS
            <4> QED BY <3>1, <4>1, <4>2, <4>3, <4>4
        <3>2. CASE i # 11
            <4>1. i \in 1..Len(Version)
                BY <3>2, CharsFacts
            <4>2. PICK W \in Seq(Chars) : W = Version
                BY CharsFacts
            <4>3. i \in 1..Len(W)
                BY <4>1, <4>2
            <4>4. After(W, i) \in Seq(Chars)
                BY <4>3, AfterOne
            <4> QED BY <4>2, <4>4
        <3> QED BY <3>1, <3>2
    <2> QED BY <1>4, <2>1, Concat DEF AtVersion
<1>6. AfterUri(r) \in Seq(Chars)
    <2>1. AtVersion(r, 1) \in Seq(Chars)
        BY <1>5
    <2> QED BY <2>1, Letters, Concat DEF AfterUri
<1> QED BY <1>5, <1>6

LEMMA RequestLineProceeds ==
    ASSUME NEW r, IsRequest(r), NEW s \in RequestLine, NEW c \in Chars, NEW Z \in Seq(Chars),
           NEW m, NEW u, NEW hs, NEW n, NEW v, NEW L, Begins(L, c, Z), Ahead(r, s, m, u, hs, n, v, L)
    PROVE  Proceeds(r, s, c, m, u, hs, n, v, Z)
<1>1. /\ UriText(r) \in Seq(Chars) /\ UriText(r) \in Seq(UriChars) /\ r.method \in Token /\ r.method \in Chars
      /\ Len(r.headers) \in Nat
    BY HeadersTyped, CharsFacts
<1>2. hs = <<>> /\ n = <<>> /\ v = <<>> /\ s # "header_line_start"
    BY DEF Ahead, HeaderAhead, RequestLine
<1>3. UriAhead(r, s, m, u, L)
    BY DEF Ahead
<1>4. PICK H \in Seq(Chars) : H = AtHeader(r, 1)
    <2>1. 1 \in 1..(Len(r.headers) + 1)
        BY <1>1
    <2> QED BY <2>1, AtTyped
<1>5. \A i \in 1..11 : AtVersion(r, i) \in Seq(Chars)
    BY VersionTyped
<1>6. PICK A \in Seq(Chars), Q \in Seq(Chars), V \in Seq(Chars) :
         A = AfterUri(r) /\ Q = <<"sp">> /\ V = AtVersion(r, 1) /\ A = Q \o V
    <2>1. AtVersion(r, 1) \in Seq(Chars)
        BY <1>5
    <2>2. <<"sp">> \o AtVersion(r, 1) \in Seq(Chars)
        BY <2>1, Letters, Concat
    <2> QED BY <2>1, <2>2, Letters DEF AfterUri
<1>7. \A next \in RequestLine \cup {"header_line_start"} :
         /\ NextHeaders(s, next, hs, n, v) = <<>> /\ NextName(s, next, n, c) = <<>>
         /\ NextValue(s, next, v, c) = <<>>
    BY <1>2 DEF NextHeaders, NextName, NextValue, BeginsHeader, RequestLine
<1>8. \A next \in RequestLine : HeaderAhead(r, next, <<>>, <<>>, <<>>, Z)
    BY DEF HeaderAhead, RequestLine
<1>9. \A next \in RequestLine :
         UriAhead(r, next, NextMethod(next, m, c), NextUri(s, next, u, c), Z)
            => Reaches(r, s, next, c, m, u, hs, n, v, Z)
    BY <1>7, <1>8 DEF Reaches, Ahead
<1>10. SUFFICES \E next : Leads(s, c, next) /\ Reaches(r, s, next, c, m, u, hs, n, v, Z)
    BY <1>2 DEF Proceeds
<1>11. \A i \in 1..10 : VersionStates[i] \notin {"method_start", "method", "uri"}
    BY VersionLeads
<1>12. CASE s = "method_start"
    <2>1. m = <<>> /\ u = <<>> /\ L = Text(r)
        BY <1>3, <1>12 DEF UriAhead
    <2>2. PICK Y \in Seq(Chars) : Y = Q \o (UriText(r) \o A)
        <3>1. UriText(r) \o A \in Seq(Chars)
            BY <1>1, Concat
        <3> QED BY <3>1, Concat
    <2>3. Begins(L, r.method, Y)
        BY <1>6, <2>1, <2>2, TextGoesOn DEF TextLaw, Begins
    <2>4. c = r.method /\ Z = Y
        BY <1>1, <2>3, SameFront
    <2>5. Leads(s, c, "method")
        BY <1>1, <1>12, <2>4 DEF Leads, Moves
    <2>6. NextMethod("method", m, c) = <<r.method>> /\ NextUri(s, "method", u, c) = <<>>
        BY <1>12, <2>1, <2>4 DEF NextMethod, NextUri
    <2>7. UriAhead(r, "method", <<r.method>>, <<>>, Z)
        BY <1>6, <1>11, <2>2, <2>4 DEF UriAhead
    <2>8. "method" \in RequestLine
        BY DEF RequestLine
    <2> QED BY <1>9, <2>5, <2>6, <2>7, <2>8
<1>13. CASE s = "method"
    <2>1. m = <<r.method>> /\ u = <<>> /\ L = <<"sp">> \o (UriText(r) \o A)
        BY <1>3, <1>6, <1>13 DEF UriAhead
    <2>2. PICK Y \in Seq(Chars) : Y = UriText(r) \o A
        BY <1>1, Concat
    <2>10. Begins(L, "sp", Y)
        BY <2>1, <2>2 DEF Begins
    <2>11. c = "sp" /\ Z = Y
        BY <2>10, SameFront, CharsFacts
    <2>3. c = "sp" /\ Z = UriText(r) \o A
        BY <2>2, <2>11
    <2>4. Leads(s, c, "uri")
        BY <1>13, <2>3 DEF Leads, Moves
    <2>5. NextMethod("uri", m, c) = <<r.method>> /\ NextUri(s, "uri", u, c) = <<>>
        BY <1>13, <2>1 DEF NextMethod, NextUri
    <2>6. <<>> \o UriText(r) = UriText(r)
        BY <1>1, ConcatEmptySeq
    <2>9. <<>> \in Seq(UriChars)
        OBVIOUS
    <2>7. UriAhead(r, "uri", <<r.method>>, <<>>, Z)
        BY <1>1, <1>6, <1>11, <2>3, <2>6, <2>9 DEF UriAhead
    <2>8. "uri" \in RequestLine
        BY DEF RequestLine
    <2> QED BY <1>9, <2>4, <2>5, <2>7, <2>8
<1>14. CASE s = "uri"
    <2>1. m = <<r.method>> /\ u \in Seq(UriChars)
        BY <1>3, <1>14 DEF UriAhead
    <2>2. PICK b \in Seq(UriChars) : u \o b = UriText(r) /\ L = b \o A
        BY <1>3, <1>6, <1>14 DEF UriAhead
    <2>3. CASE b = <<>>
        <3>1. Begins(L, "sp", V)
            <4>1. <<>> \o A = A
                BY ConcatEmptySeq
            <4> QED BY <1>6, <2>2, <2>3, <4>1 DEF Begins
        <3>2. c = "sp" /\ Z = V
            BY <3>1, SameFront, CharsFacts
        <3>3. Leads(s, c, "http_version_h")
            BY <1>14, <3>2 DEF Leads, Moves
        <3>4. NextMethod("http_version_h", m, c) = m /\ NextUri(s, "http_version_h", u, c) = u
            BY DEF NextMethod, NextUri
        <3>5. u = UriText(r)
            <4>1. u \o <<>> = u
                BY <2>1, ConcatEmptySeq
            <4> QED BY <2>2, <2>3, <4>1
        <3>6. VersionStates[1] = "http_version_h" /\ 1 \in 1..10
            BY DEF VersionStates
        <3>7. \A i \in 1..10 : "http_version_h" = VersionStates[i] => i = 1
            BY <3>6, VersionLeads
        <3>8. UriAhead(r, "http_version_h", m, u, Z)
            BY <1>6, <2>1, <3>2, <3>5, <3>7 DEF UriAhead
        <3>9. "http_version_h" \in RequestLine
            BY DEF RequestLine
        <3> QED BY <1>9, <3>3, <3>4, <3>8, <3>9
    <2>4. CASE b # <<>>
        <3>1. PICK d \in UriChars, b2 \in Seq(UriChars) : IsSplit(b, d, b2)
            BY <2>4, FrontAndRest
        <3>2. b = <<d>> \o b2
            BY <3>1 DEF IsSplit
        <3>3. d \in Chars /\ <<d>> \in Seq(Chars) /\ b2 \in Seq(Chars)
            BY UriCharsFacts, Letters
        <3>4. PICK x \in Seq(Chars), Y \in Seq(Chars) : x = <<d>> /\ Y = b2 \o A
            BY <3>3, Concat
        <3>5. Assoc(x, b2, A)
            BY <3>3, Associates
        <3>6. Begins(L, d, Y)
            BY <2>2, <3>2, <3>4, <3>5 DEF Assoc, Begins
        <3>7. c = d /\ Z = Y
            BY <3>3, <3>6, SameFront
        <3>8. Leads(s, c, "uri")
            BY <1>14, <3>7 DEF Leads, Moves, UriChars
        <3>9. NextMethod("uri", m, c) = m /\ NextUri(s, "uri", u, c) = Append(u, c)
            BY <1>14 DEF NextMethod, NextUri
        <3>10. Append(u, c) \in Seq(UriChars) /\ Append(u, c) = u \o x
            BY <2>1, <3>4, <3>7
        <3>11. Append(u, c) \o b2 = UriText(r)
            <4>1. u \in Seq(Chars)
                BY <2>1, UriCharsFacts
            <4>2. Assoc(u, x, b2)
                BY <3>3, <4>1, Associates
            <4> QED BY <2>2, <3>2, <3>4, <3>10, <4>2 DEF Assoc
        <3>12. UriAhead(r, "uri", m, Append(u, c), Z)
            BY <1>6, <1>11, <2>1, <3>4, <3>7, <3>10, <3>11 DEF UriAhead
        <3>13. "uri" \in RequestLine
            BY DEF RequestLine
        <3> QED BY <1>9, <3>8, <3>9, <3>12, <3>13
    <2> QED BY <2>3, <2>4
<1>15. ASSUME NEW i \in 1..10, s = VersionStates[i]
       PROVE  \E next : Leads(s, c, next) /\ Reaches(r, s, next, c, m, u, hs, n, v, Z)
    <2>1. L = AtVersion(r, i) /\ m = <<r.method>> /\ u = UriText(r)
        BY <1>3, <1>11, <1>15 DEF UriAhead
    <2>2. PICK Y \in Seq(Chars) : Y = AtVersion(r, i + 1)
        <3>1. i + 1 \in 1..11
            OBVIOUS
        <3> QED BY <1>5, <3>1
    <2>3. Begins(L, Version[i], Y)
        <3>1. VersionLaw(r, i)
            BY TextGoesOn
        <3> QED BY <2>1, <2>2, <3>1 DEF VersionLaw, Begins
    <2>4. Version[i] \in Chars
        BY VersionLeads
    <2>5. c = Version[i] /\ Z = Y
        BY <2>3, <2>4, SameFront
    <2>6. s \notin {"method_start", "method", "uri"} /\ s # "header_line_start"
        BY <1>2, <1>11, <1>15
    <2>7. CASE i = 10
        <3>1. Leads(s, c, "header_line_start")
            BY <1>15, <2>5, <2>7, VersionLeads
        <3>2. Z = AtHeader(r, 1)
            <4>1. 10 + 1 = 11
                OBVIOUS
            <4> QED BY <2>2, <2>5, <2>7, <4>1, TextGoesOn
        <3>3. NextMethod("header_line_start", m, c) = m /\ NextUri(s, "header_line_start", u, c) = u
            BY DEF NextMethod, NextUri
        <3>4. \A j \in 1..10 : "header_line_start" # VersionStates[j]
            BY VersionLeads DEF RequestLine
        <3>5. UriAhead(r, "header_line_start", m, u, Z)
            BY <2>1, <3>4 DEF UriAhead
        <3>6. HeaderAhead(r, "header_line_start", <<>>, <<>>, <<>>, Z)
            BY <3>2 DEF HeaderAhead, LineAhead
        <3> QED BY <1>7, <3>1, <3>3, <3>5, <3>6 DEF Reaches, Ahead
    <2>8. CASE i # 10
        <3>1. PICK next : next = VersionStates[i + 1]
            OBVIOUS
        <3>2. i + 1 \in 1..10
            BY <2>8
        <3>3. Leads(s, c, next)
            BY <1>15, <2>5, <2>8, <3>1, VersionLeads
        <3>4. next \in RequestLine /\ next \notin {"method_start", "method", "uri"}
            BY <3>1, <3>2, VersionLeads
        <3>5. NextMethod(next, m, c) = m /\ NextUri(s, next, u, c) = u
            BY <3>4 DEF NextMethod, NextUri
        <3>6. \A j \in 1..10 : next = VersionStates[j] => j = i + 1
            BY <3>1, <3>2, VersionLeads
        <3>7. UriAhead(r, next, m, u, Z)
            BY <2>1, <2>2, <2>5, <3>4, <3>6 DEF UriAhead
        <3> QED BY <1>9, <3>3, <3>4, <3>5, <3>7
    <2> QED BY <2>7, <2>8
<1> QED BY <1>12, <1>13, <1>14, <1>15, RequestLineStates

HeaderReaches(r, s, next, c, hs, n, v, L) ==
    HeaderAhead(r, next, NextHeaders(s, next, hs, n, v), NextName(s, next, n, c), NextValue(s, next, v, c), L)

HeaderProceeds(r, s, c, hs, n, v, L) ==
    \E next : next \notin RequestLine /\ Leads(s, c, next) /\ HeaderReaches(r, s, next, c, hs, n, v, L)

LEMMA HeaderTyped ==
    ASSUME NEW r, IsRequest(r), NEW k, NEW hs, NEW n, InHeader(r, k, hs, n)
    PROVE  /\ k \in 1..Len(r.headers) /\ Len(r.headers) \in Nat /\ k \in Nat /\ k - 1 \in Nat /\ (k - 1) + 1 = k
           /\ r.headers[k].name \in Words /\ r.headers[k].spaced \in BOOLEAN
           /\ r.headers[k].lines \in Seq(Seq(Chars \ Ctl)) /\ r.headers[k].lines \in Seq(Seq(Chars))
           /\ Len(r.headers[k].lines) \in Nat \ {0}
           /\ \A j \in 1..Len(r.headers[k].lines) : r.headers[k].lines[j] \in Seq(Chars \ Ctl)
           /\ AtHeader(r, k + 1) \in Seq(Chars) /\ AtLine(r, k, 1) \in Seq(Chars)
           /\ Space(r.headers[k]) \in Seq(Chars)
<1>1. k \in 1..Len(r.headers) /\ Len(r.headers) \in Nat
    BY HeadersTyped DEF InHeader
<1>2. k \in Nat /\ k - 1 \in Nat /\ (k - 1) + 1 = k /\ k + 1 \in 1..(Len(r.headers) + 1)
    BY <1>1
<1>3. PICK h : h = r.headers[k]
    OBVIOUS
<1>4. h.name \in Words /\ h.spaced \in BOOLEAN /\ h.lines \in Seq(Seq(Chars \ Ctl)) /\ h.lines # <<>>
    BY <1>1, <1>3, HeadersTyped
<1>5. Len(h.lines) \in Nat \ {0}
    BY <1>4, EmptySeq
<1>6. h.lines \in Seq(Seq(Chars)) /\ \A j \in 1..Len(h.lines) : h.lines[j] \in Seq(Chars \ Ctl)
    BY <1>4, LinesTyped
<1>7. AtHeader(r, k + 1) \in Seq(Chars)
    BY <1>2, AtTyped
<1>8. AtLine(r, k, 1) \in Seq(Chars)
    <2>1. 1 \in 1..(Len(h.lines) + 1)
        BY <1>5
    <2> QED BY <1>1, <1>3, <2>1, AtTyped
<1>9. Space(h) \in Seq(Chars)
    BY <1>4, HeaderTextTyped
<1> QED BY <1>1, <1>2, <1>3, <1>4, <1>5, <1>6, <1>7, <1>8, <1>9

LEMMA LineTyped ==
    ASSUME NEW r, IsRequest(r), NEW k, NEW j, NEW hs, NEW n, InLine(r, k, j, hs, n)
    PROVE  /\ j \in 1..Len(r.headers[k].lines) /\ j \in Nat \ {0} /\ r.headers[k].lines[j] \in Seq(Chars \ Ctl)
           /\ AfterLine(r, k, j) \in Seq(Chars) /\ AtLine(r, k, j + 1) \in Seq(Chars)
           /\ Before(r.headers[k].lines, j) \in Seq(Chars)
           /\ Before(r.headers[k].lines, j + 1) = Before(r.headers[k].lines, j) \o r.headers[k].lines[j]
<1>1. InHeader(r, k, hs, n) /\ j \in 1..Len(r.headers[k].lines)
    BY DEF InLine
<1>2. PICK ls : ls = r.headers[k].lines
    OBVIOUS
<1>3. /\ k \in 1..Len(r.headers) /\ Len(ls) \in Nat \ {0} /\ ls \in Seq(Seq(Chars))
      /\ \A i \in 1..Len(ls) : ls[i] \in Seq(Chars \ Ctl)
    BY <1>1, <1>2, HeaderTyped
<1>4. j \in Nat \ {0} /\ j + 1 \in 1..(Len(ls) + 1) /\ j \in 1..Len(ls)
    BY <1>1, <1>2, <1>3
<1>5. Before(ls, j + 1) = Before(ls, j) \o ls[j] /\ Before(ls, j) \in Seq(Chars)
    BY <1>3, <1>4, BeforeOne
<1>6. AfterLine(r, k, j) \in Seq(Chars) /\ AtLine(r, k, j + 1) \in Seq(Chars)
    BY <1>2, <1>3, <1>4, AtTyped
<1> QED BY <1>2, <1>3, <1>4, <1>5, <1>6

LEMMA NotInRequestLine ==
    /\ "header_line_start" \notin RequestLine /\ "header_name" \notin RequestLine
    /\ "space_before_header_value" \notin RequestLine /\ "header_value" \notin RequestLine
    /\ "header_lws" \notin RequestLine /\ "expecting_newline_2" \notin RequestLine
    /\ "expecting_newline_3" \notin RequestLine /\ "reading_body" \notin RequestLine
BY DEF RequestLine

------------------------------------------------------------------------------
(* Each step through the headers.                                          *)

\* A header starts, or they end.
LEMMA NextHeaderProceeds ==
    ASSUME NEW r, IsRequest(r), NEW c \in Chars, NEW Z \in Seq(Chars), NEW L, Begins(L, c, Z),
           NEW hs, NEW n, NEW v, NEW k \in 0..Len(r.headers), L = AtHeader(r, k + 1),
           k = Len(r.headers) => AllRead(r, hs, n, v),
           k # Len(r.headers) => Keeps(r, k, IF n # <<>> THEN With(hs, n, v) ELSE hs)
    PROVE  HeaderProceeds(r, "header_line_start", c, hs, n, v, Z) /\ c \notin Blanks
<1>1. Len(r.headers) \in Nat /\ FormText(r.form) \in Seq(Chars)
    BY HeadersTyped
<1>2. CASE k = Len(r.headers)
    <2>1. L = <<"cr">> \o (<<"lf">> \o FormText(r.form))
        BY <1>2, TextGoesOn DEF EndLaw
    <2>2. PICK Y \in Seq(Chars) : Y = <<"lf">> \o FormText(r.form)
        BY <1>1, Letters, Concat
    <2>3. Begins(L, "cr", Y)
        BY <2>1, <2>2 DEF Begins
    <2>4. c = "cr" /\ Z = Y
        BY <2>3, SameFront, CharsFacts
    <2>5. Leads("header_line_start", c, "expecting_newline_3")
        BY <2>4 DEF Leads, Moves
    <2>6. /\ NextHeaders("header_line_start", "expecting_newline_3", hs, n, v) = hs
          /\ NextName("header_line_start", "expecting_newline_3", n, c) = n
          /\ NextValue("header_line_start", "expecting_newline_3", v, c) = v
        BY DEF NextHeaders, NextName, NextValue, BeginsHeader
    <2>7. HeaderAhead(r, "expecting_newline_3", hs, n, v, Z)
        BY <1>2, <2>2, <2>4, NotInRequestLine DEF HeaderAhead
    <2>8. c \notin Blanks
        BY <2>4 DEF Blanks
    <2> QED BY <2>5, <2>6, <2>7, <2>8, NotInRequestLine DEF HeaderProceeds, HeaderReaches
<1>3. CASE k # Len(r.headers)
    <2>1. PICK i : i = k + 1
        OBVIOUS
    <2>2. i \in 1..Len(r.headers) /\ i - 1 = k
        BY <1>1, <1>3, <2>1
    <2>3. PICK new : new = IF n # <<>> THEN With(hs, n, v) ELSE hs
        OBVIOUS
    <2>4. InHeader(r, i, new, <<r.headers[i].name>>)
        BY <1>3, <2>2, <2>3 DEF InHeader
    <2>5. PICK Y \in Seq(Chars) : Y = <<":">> \o (Space(r.headers[i]) \o AtLine(r, i, 1))
        <3>1. Space(r.headers[i]) \in Seq(Chars) /\ AtLine(r, i, 1) \in Seq(Chars)
            BY <2>4, HeaderTyped
        <3>2. Space(r.headers[i]) \o AtLine(r, i, 1) \in Seq(Chars)
            BY <3>1, Concat
        <3> QED BY <3>2, Letters, Concat
    <2>6. PICK d \in Chars : d = r.headers[i].name /\ d \in Token
        <3>1. r.headers[i].name \in Words
            BY <2>4, HeaderTyped
        <3> QED BY <3>1, CharsFacts
    <2>7. Begins(L, d, Y)
        <3>1. HeaderLaw(r, i)
            BY <2>2, HeaderGoesOn
        <3> QED BY <2>1, <2>5, <2>6, <3>1 DEF HeaderLaw, Begins
    <2>8. c = d /\ Z = Y
        BY <2>7, SameFront
    <2>9. Leads("header_line_start", c, "header_name")
        BY <2>6, <2>8 DEF Leads
    <2>10. /\ NextHeaders("header_line_start", "header_name", hs, n, v) = new
           /\ NextName("header_line_start", "header_name", n, c) = <<c>>
           /\ NextValue("header_line_start", "header_name", v, c) = <<>>
        BY <2>3 DEF NextHeaders, NextName, NextValue, BeginsHeader
    <2>11. HeaderAhead(r, "header_name", new, <<c>>, <<>>, Z)
        BY <2>4, <2>5, <2>6, <2>8, NotInRequestLine DEF HeaderAhead
    <2>12. c \notin Blanks
        BY <2>6, <2>8, TokenFacts
    <2> QED BY <2>9, <2>10, <2>11, <2>12, NotInRequestLine DEF HeaderProceeds, HeaderReaches
<1> QED BY <1>2, <1>3

\* What stands in headers once the k-th has been stored.
LEMMA StoredOne ==
    ASSUME NEW r, IsRequest(r), NEW k, NEW hs, NEW n, NEW v, InHeader(r, k, hs, n),
           v = Joined(r.headers[k].lines)
    PROVE  n # <<>> /\ Keeps(r, k, With(hs, n, v))
<1>1. k - 1 \in Nat /\ (k - 1) + 1 = k /\ r.headers[k].name \in Words
    BY HeaderTyped
<1>2. n = <<r.headers[k].name>> /\ Keeps(r, k - 1, hs)
    BY DEF InHeader
<1>3. PICK i \in Nat : i = k - 1
    BY <1>1
<1>4. i + 1 = k /\ Keeps(r, i, hs) /\ r.headers[i + 1].name \in Words
    BY <1>1, <1>2, <1>3
<1>5. Keeps(r, i + 1, With(hs, <<r.headers[i + 1].name>>, Joined(r.headers[i + 1].lines)))
    BY <1>4, KeepsWith
<1>6. n # <<>>
    BY <1>2
<1> QED BY <1>2, <1>4, <1>5, <1>6

LEMMA LineStartProceeds ==
    ASSUME NEW r, IsRequest(r), NEW c \in Chars, NEW Z \in Seq(Chars), NEW L, Begins(L, c, Z),
           NEW hs, NEW n, NEW v, LineAhead(r, hs, n, v, L)
    PROVE  HeaderProceeds(r, "header_line_start", c, hs, n, v, Z) /\ (c \in Blanks => hs # <<>>)
<1>1. Len(r.headers) \in Nat
    BY HeadersTyped
<1>2. CASE hs = <<>> /\ n = <<>> /\ v = <<>> /\ L = AtHeader(r, 1)
    <2>1. 0 \in 0..Len(r.headers) /\ 0 + 1 = 1
        BY <1>1
    <2>2. 0 = Len(r.headers) => AllRead(r, hs, n, v)
        <3>1. r.headers \in Seq(HeaderLines)
            BY HeadersTyped
        <3>2. Len(r.headers) = 0 => r.headers = <<>>
            BY <3>1, EmptySeq
        <3> QED BY <1>2, <3>2 DEF AllRead
    <2>3. Keeps(r, 0, IF n # <<>> THEN With(hs, n, v) ELSE hs)
        BY <1>2, KeepsNone
    <2>4. L = AtHeader(r, 0 + 1)
        BY <1>2, <2>1
    <2> QED BY <2>1, <2>2, <2>3, <2>4, NextHeaderProceeds
<1>3. ASSUME NEW k, NEW j, InLine(r, k, j, hs, n), v = Before(r.headers[k].lines, j + 1), L = AtLine(r, k, j + 1)
      PROVE  HeaderProceeds(r, "header_line_start", c, hs, n, v, Z) /\ (c \in Blanks => hs # <<>>)
    <2>1. PICK ls : ls = r.headers[k].lines
        OBVIOUS
    <2>2. InHeader(r, k, hs, n) /\ j \in 1..Len(ls)
        BY <1>3, <2>1 DEF InLine
    <2>3. /\ k \in 1..Len(r.headers) /\ k \in Nat /\ Len(ls) \in Nat \ {0} /\ ls \in Seq(Seq(Chars))
          /\ k - 1 \in Nat /\ \A i \in 1..Len(ls) : ls[i] \in Seq(Chars \ Ctl)
        BY <2>1, <2>2, HeaderTyped
    <2>4. CASE j = Len(ls)
        <3>1. v = Joined(ls)
            BY <1>3, <2>1, <2>3, <2>4, BeforeAll
        <3>2. n # <<>> /\ Keeps(r, k, With(hs, n, v))
            BY <2>1, <2>2, <3>1, StoredOne
        <3>3. L = AtHeader(r, k + 1)
            BY <1>3, <2>1, <2>3, <2>4, HeaderGoesOn DEF LastLaw
        <3>4. k \in 0..Len(r.headers)
            BY <2>3
        <3>5. k = Len(r.headers) => AllRead(r, hs, n, v)
            <4>1. k = Len(r.headers) => r.headers # <<>>
                BY <2>3, EmptySeq
            <4> QED BY <2>1, <2>2, <3>1, <4>1 DEF AllRead
        <3>6. Keeps(r, k, IF n # <<>> THEN With(hs, n, v) ELSE hs)
            BY <3>2
        <3> QED BY <3>3, <3>4, <3>5, <3>6, NextHeaderProceeds
    <2>5. CASE j # Len(ls)
        <3>1. PICK i : i = j + 1
            OBVIOUS
        <3>2. i \in 1..Len(ls) /\ i # 1 /\ Len(ls) # 1
            BY <2>2, <2>3, <2>5, <3>1
        <3>3. InLine(r, k, i, hs, n)
            BY <2>1, <2>2, <3>2 DEF InLine
        <3>4. PICK X \in Seq(Chars) : X = ls[i] \o AfterLine(r, k, i)
            <4>1. ls[i] \in Seq(Chars \ Ctl) /\ AfterLine(r, k, i) \in Seq(Chars)
                BY <2>1, <3>3, LineTyped
            <4>2. ls[i] \in Seq(Chars)
                BY <4>1
            <4> QED BY <4>1, <4>2, Concat
        <3>5. TextAhead(r, k, i, hs, n, v, X)
            BY <1>3, <2>1, <3>1, <3>3, <3>4 DEF TextAhead
        <3>6. PICK Y \in Seq(Chars) : Y = <<"sp">> \o X
            BY Letters, Concat
        <3>7. Begins(L, "tab", Y)
            <4>1. LineLaw(r, k, i)
                BY <2>1, <2>3, <3>2, LineGoesOn
            <4> QED BY <1>3, <2>1, <3>1, <3>4, <3>6, <4>1 DEF LineLaw, Begins
        <3>8. c = "tab" /\ Z = Y
            BY <3>7, SameFront, CharsFacts
        <3>9. Leads("header_line_start", c, "header_lws")
            BY <3>8 DEF Leads, Blanks
        <3>10. /\ NextHeaders("header_line_start", "header_lws", hs, n, v) = hs
               /\ NextName("header_line_start", "header_lws", n, c) = n
               /\ NextValue("header_line_start", "header_lws", v, c) = v
            BY DEF NextHeaders, NextName, NextValue, BeginsHeader
        <3>11. HeaderAhead(r, "header_lws", hs, n, v, Z)
            <4>1. \E k2, j2 : \E X2 \in Seq(Chars) :
                     j2 # 1 /\ TextAhead(r, k2, j2, hs, n, v, X2) /\ (Z = X2 \/ Z = <<"sp">> \o X2)
                BY <3>2, <3>5, <3>6, <3>8
            <4> QED BY <4>1, NotInRequestLine DEF HeaderAhead
        <3>12. hs # <<>>
            <4>1. k # 1
                <5>1. r.headers # <<>> => Len(r.headers[1].lines) = 1
                    BY DEF IsRequest
                <5>2. r.headers # <<>>
                    BY <2>3, EmptySeq
                <5> QED BY <2>1, <3>2, <5>1, <5>2
            <4>2. 1 \in 1..(k - 1)
                BY <2>3, <4>1
            <4>3. UpName(r, 1) \in DOMAIN hs
                BY <2>2, <4>2 DEF InHeader, Keeps
            <4>4. DOMAIN <<>> = {}
                OBVIOUS
            <4> QED BY <4>3, <4>4
        <3> QED BY <3>9, <3>10, <3>11, <3>12, NotInRequestLine DEF HeaderProceeds, HeaderReaches
    <2> QED BY <2>4, <2>5
<1> QED BY <1>2, <1>3 DEF LineAhead

LEMMA NameProceeds ==
    ASSUME NEW r, IsRequest(r), NEW c \in Chars, NEW Z \in Seq(Chars), NEW L, Begins(L, c, Z),
           NEW hs, NEW n, NEW v, NEW k, InHeader(r, k, hs, n), v = <<>>,
           L = <<":">> \o (Space(r.headers[k]) \o AtLine(r, k, 1))
    PROVE  HeaderProceeds(r, "header_name", c, hs, n, v, Z)
<1>1. PICK Y \in Seq(Chars) : Y = Space(r.headers[k]) \o AtLine(r, k, 1)
    BY HeaderTyped, Concat
<1>2. Begins(L, ":", Y)
    BY <1>1 DEF Begins
<1>3. c = ":" /\ Z = Y
    BY <1>2, SameFront, CharsFacts
<1>4. Leads("header_name", c, "space_before_header_value")
    BY <1>3 DEF Leads, Moves
<1>5. /\ NextHeaders("header_name", "space_before_header_value", hs, n, v) = hs
      /\ NextName("header_name", "space_before_header_value", n, c) = n
      /\ NextValue("header_name", "space_before_header_value", v, c) = v
    BY DEF NextHeaders, NextName, NextValue, BeginsHeader
<1>6. HeaderAhead(r, "space_before_header_value", hs, n, v, Z)
    BY <1>1, <1>3, NotInRequestLine DEF HeaderAhead
<1> QED BY <1>4, <1>5, <1>6, NotInRequestLine DEF HeaderProceeds, HeaderReaches

\* The text of a line, of which a has been read.
LEMMA TextProceeds ==
    ASSUME NEW r, IsRequest(r), NEW c \in Chars, NEW Z \in Seq(Chars), NEW L, Begins(L, c, Z),
           NEW hs, NEW n, NEW v, NEW k, NEW j, InLine(r, k, j, hs, n),
           NEW a \in Seq(Chars \ Ctl), NEW b \in Seq(Chars \ Ctl),
           r.headers[k].lines[j] = a \o b, v = Before(r.headers[k].lines, j) \o a, L = b \o AfterLine(r, k, j),
           NEW s \in {"header_value", "header_lws"}, s = "header_lws" /\ b # <<>> => b[1] \notin Blanks
    PROVE  HeaderProceeds(r, s, c, hs, n, v, Z)
<1>1. PICK ls : ls = r.headers[k].lines
    OBVIOUS
<1>2. /\ ls[j] = a \o b /\ Before(ls, j + 1) = Before(ls, j) \o ls[j]
      /\ k \in 1..Len(r.headers) /\ j \in 1..Len(ls)
    BY <1>1, LineTyped, HeaderTyped DEF InLine
<1>3. PICK B \in Seq(Chars), A \in Seq(Chars), X \in Seq(Chars) :
         B = Before(ls, j) /\ A = AfterLine(r, k, j) /\ X = AtLine(r, k, j + 1)
    BY <1>1, LineTyped
<1>4. a \in Seq(Chars) /\ b \in Seq(Chars)
    OBVIOUS
<1>5. CASE b = <<>>
    <2>1. PICK Y \in Seq(Chars) : Y = <<"lf">> \o X
        BY Letters, Concat
    <2>2. Begins(L, "cr", Y)
        <3>1. BreakLaw(r, k, j)
            BY <1>1, <1>2, LineGoesOn
        <3>2. <<>> \o A = A
            BY ConcatEmptySeq
        <3> QED BY <1>3, <1>5, <2>1, <3>1, <3>2 DEF BreakLaw, Begins
    <2>3. c = "cr" /\ Z = Y
        BY <2>2, SameFront, CharsFacts
    <2>4. Leads(s, c, "expecting_newline_2")
        BY <2>3 DEF Leads, Moves
    <2>5. /\ NextHeaders(s, "expecting_newline_2", hs, n, v) = hs
          /\ NextName(s, "expecting_newline_2", n, c) = n
          /\ NextValue(s, "expecting_newline_2", v, c) = v
        BY DEF NextHeaders, NextName, NextValue, BeginsHeader
    <2>6. v = Before(ls, j + 1)
        <3>1. a \o <<>> = a
            BY ConcatEmptySeq
        <3> QED BY <1>1, <1>2, <1>5, <3>1
    <2>7. HeaderAhead(r, "expecting_newline_2", hs, n, v, Z)
        <3>1. \E k2, j2 : /\ InLine(r, k2, j2, hs, n)
                          /\ v = Before(r.headers[k2].lines, j2 + 1) /\ Z = <<"lf">> \o AtLine(r, k2, j2 + 1)
            BY <1>1, <1>3, <2>1, <2>3, <2>6
        <3> QED BY <3>1, NotInRequestLine DEF HeaderAhead
    <2> QED BY <2>4, <2>5, <2>7, NotInRequestLine DEF HeaderProceeds, HeaderReaches
<1>6. CASE b # <<>>
    <2>1. PICK d \in Chars \ Ctl, b2 \in Seq(Chars \ Ctl) : IsSplit(b, d, b2)
        BY <1>6, FrontAndRest
    <2>2. b = <<d>> \o b2
        BY <2>1 DEF IsSplit
    <2>3. PICK x \in Seq(Chars), y \in Seq(Chars) : x = <<d>> /\ y = b2
        <3>1. b2 \in Seq(Chars) /\ <<d>> \in Seq(Chars)
            OBVIOUS
        <3> QED BY <3>1
    <2>4. PICK Y \in Seq(Chars) : Y = y \o A
        BY Concat
    <2>5. Begins(L, d, Y)
        <3>1. Assoc(x, y, A)
            BY Associates
        <3> QED BY <1>3, <2>2, <2>3, <2>4, <3>1 DEF Assoc, Begins
    <2>6. c = d /\ Z = Y
        BY <2>5, SameFront
    <2>7. Leads(s, c, "header_value")
        <3>1. b[1] = d
            BY <2>2
        <3>2. s = "header_lws" => c \notin Blanks
            BY <1>6, <2>6, <3>1
        <3> QED BY <2>6, <3>2 DEF Leads, Moves
    <2>8. PICK w : w = Append(v, c)
        OBVIOUS
    <2>9. /\ NextHeaders(s, "header_value", hs, n, v) = hs
          /\ NextName(s, "header_value", n, c) = n
          /\ NextValue(s, "header_value", v, c) = w
        BY <2>8 DEF NextHeaders, NextName, NextValue, BeginsHeader
    <2>10. PICK a2 \in Seq(Chars \ Ctl) : a2 = a \o x
        <3>1. <<d>> \in Seq(Chars \ Ctl)
            OBVIOUS
        <3>2. a \o <<d>> \in Seq(Chars \ Ctl)
            BY <3>1, ConcatProperties
        <3> QED BY <2>3, <3>2
    <2>11. w = B \o a2
        <3>1. v \in Seq(Chars) /\ v = B \o a
            BY <1>1, <1>3, <1>4, Concat
        <3>4. \A t \in Seq(Chars) : Append(t, d) = t \o <<d>>
            OBVIOUS
        <3>5. v \in Seq(Chars)
            BY <3>1
        <3>2. w = v \o x
            BY <2>3, <2>6, <2>8, <3>4, <3>5
        <3>3. Assoc(B, a, x)
            BY <1>4, Associates
        <3> QED BY <2>10, <3>1, <3>2, <3>3 DEF Assoc
    <2>12. ls[j] = a2 \o b2
        <3>1. Assoc(a, x, y)
            BY <1>4, Associates
        <3> QED BY <1>2, <2>2, <2>3, <2>10, <3>1 DEF Assoc
    <2>13. InText(r, k, j, hs, n, w, Z)
        BY <1>1, <1>3, <2>3, <2>4, <2>6, <2>11, <2>12 DEF InText
    <2>14. HeaderAhead(r, "header_value", hs, n, w, Z)
        BY <2>13, NotInRequestLine DEF HeaderAhead
    <2> QED BY <2>7, <2>9, <2>14, NotInRequestLine DEF HeaderProceeds, HeaderReaches
<1> QED BY <1>5, <1>6

LEMMA SpaceProceeds ==
    ASSUME NEW r, IsRequest(r), NEW c \in Chars, NEW Z \in Seq(Chars), NEW L, Begins(L, c, Z),
           NEW hs, NEW n, NEW v, NEW k, InHeader(r, k, hs, n), v = <<>>,
           L = Space(r.headers[k]) \o AtLine(r, k, 1)
    PROVE  HeaderProceeds(r, "space_before_header_value", c, hs, n, v, Z)
<1>1. PICK h, ls : h = r.headers[k] /\ ls = h.lines
    OBVIOUS
<1>2. /\ k \in 1..Len(r.headers) /\ h.spaced \in BOOLEAN /\ ls \in Seq(Seq(Chars)) /\ Len(ls) \in Nat \ {0}
      /\ \A j \in 1..Len(ls) : ls[j] \in Seq(Chars \ Ctl)
    BY <1>1, HeaderTyped
<1>3. 1 \in 1..Len(ls)
    BY <1>2
<1>4. InLine(r, k, 1, hs, n)
    BY <1>1, <1>3 DEF InLine
<1>5. PICK A \in Seq(Chars), l \in Seq(Chars \ Ctl) : A = AfterLine(r, k, 1) /\ l = ls[1]
    BY <1>1, <1>2, <1>3, <1>4, LineTyped
<1>6. l \in Seq(Chars)
    OBVIOUS
<1>7. PICK X \in Seq(Chars) : X = l \o A
    BY <1>6, Concat
<1>8. AtLine(r, k, 1) = X
    BY <1>1, <1>2, <1>5, <1>7, HeaderGoesOn DEF FirstLaw
<1>9. Before(ls, 1) = <<>>
    BY <1>2, BeforeAll
<1>10. Leads("space_before_header_value", c, "header_value")
    BY DEF Leads, Moves
<1>11. PICK w : w = IF c = "sp" THEN <<>> ELSE <<c>>
    OBVIOUS
<1>12. /\ NextHeaders("space_before_header_value", "header_value", hs, n, v) = hs
       /\ NextName("space_before_header_value", "header_value", n, c) = n
       /\ NextValue("space_before_header_value", "header_value", v, c) = w
    <2>1. Append(<<>>, c) = <<c>>
        OBVIOUS
    <2> QED BY <1>11, <2>1 DEF NextHeaders, NextName, NextValue, BeginsHeader
<1>13. SUFFICES \E a \in Seq(Chars \ Ctl) : \E b \in Seq(Chars \ Ctl) : l = a \o b /\ w = a /\ Z = b \o A
    <2>1. PICK a \in Seq(Chars \ Ctl), b \in Seq(Chars \ Ctl) : l = a \o b /\ w = a /\ Z = b \o A
        BY <1>13
    <2>2. w = <<>> \o a
        BY <2>1, ConcatEmptySeq
    <2>3. InText(r, k, 1, hs, n, w, Z)
        BY <1>1, <1>4, <1>5, <1>9, <2>1, <2>2 DEF InText
    <2>4. HeaderAhead(r, "header_value", hs, n, w, Z)
        BY <2>3, NotInRequestLine DEF HeaderAhead
    <2> QED BY <1>10, <1>12, <2>4, NotInRequestLine DEF HeaderProceeds, HeaderReaches
<1>14. CASE h.spaced
    <2>1. Begins(L, "sp", X)
        BY <1>1, <1>8, <1>14 DEF Begins, Space
    <2>2. c = "sp" /\ Z = X
        BY <2>1, SameFront, CharsFacts
    <2>3. <<>> \in Seq(Chars \ Ctl) /\ <<>> \o l = l
        BY ConcatEmptySeq
    <2> QED BY <1>7, <1>11, <2>2, <2>3
<1>15. CASE ~h.spaced
    <2>1. l # <<>> /\ l[1] # "sp"
        <3>1. IsHeader(h)
            BY <1>1, <1>2, HeadersTyped
        <3> QED BY <1>1, <1>5, <1>15, <3>1 DEF IsHeader
    <2>2. PICK d \in Chars \ Ctl, b \in Seq(Chars \ Ctl) : IsSplit(l, d, b)
        BY <2>1, FrontAndRest
    <2>3. l = <<d>> \o b
        BY <2>2 DEF IsSplit
    <2>4. d # "sp"
        BY <2>1, <2>3
    <2>5. PICK x \in Seq(Chars), y \in Seq(Chars) : x = <<d>> /\ y = b
        <3>1. b \in Seq(Chars) /\ <<d>> \in Seq(Chars)
            OBVIOUS
        <3> QED BY <3>1
    <2>6. PICK Y \in Seq(Chars) : Y = y \o A
        BY Concat
    <2>7. Begins(L, d, Y)
        <3>1. Assoc(x, y, A)
            BY Associates
        <3>2. <<>> \o X = X
            BY ConcatEmptySeq
        <3>3. L = X
            BY <1>1, <1>8, <1>15, <3>2 DEF Space
        <3> QED BY <1>7, <2>3, <2>5, <2>6, <3>1, <3>3 DEF Assoc, Begins
    <2>8. c = d /\ Z = Y
        BY <2>7, SameFront
    <2>9. <<d>> \in Seq(Chars \ Ctl)
        OBVIOUS
    <2>10. w = <<d>>
        BY <1>11, <2>4, <2>8
    <2> QED BY <2>3, <2>5, <2>6, <2>8, <2>9, <2>10
<1> QED BY <1>14, <1>15

LEMMA ValueProceeds ==
    ASSUME NEW r, IsRequest(r), NEW c \in Chars, NEW Z \in Seq(Chars), NEW L, Begins(L, c, Z),
           NEW hs, NEW n, NEW v, NEW k, NEW j, InText(r, k, j, hs, n, v, L)
    PROVE  HeaderProceeds(r, "header_value", c, hs, n, v, Z)
<1>1. PICK a \in Seq(Chars \ Ctl), b \in Seq(Chars \ Ctl) :
         /\ r.headers[k].lines[j] = a \o b
         /\ v = Before(r.headers[k].lines, j) \o a /\ L = b \o AfterLine(r, k, j)
    BY DEF InText
<1>2. InLine(r, k, j, hs, n)
    BY DEF InText
<1>3. "header_value" \in {"header_value", "header_lws"} /\ "header_value" # "header_lws"
    OBVIOUS
<1> QED BY <1>1, <1>2, <1>3, TextProceeds

LEMMA BlanksProceed ==
    ASSUME NEW r, IsRequest(r), NEW c \in Chars, NEW Z \in Seq(Chars), NEW L, Begins(L, c, Z),
           NEW hs, NEW n, NEW v, NEW k, NEW j, NEW X \in Seq(Chars), j # 1, TextAhead(r, k, j, hs, n, v, X),
           L = X \/ L = <<"sp">> \o X
    PROVE  HeaderProceeds(r, "header_lws", c, hs, n, v, Z)
<1>1. /\ InLine(r, k, j, hs, n) /\ v = Before(r.headers[k].lines, j)
      /\ X = r.headers[k].lines[j] \o AfterLine(r, k, j)
    BY DEF TextAhead
<1>2. CASE L = X
    <2>1. PICK b \in Seq(Chars \ Ctl) : b = r.headers[k].lines[j]
        BY <1>1, LineTyped
    <2>2. b # <<>> => b[1] \notin Blanks
        <3>1. IsHeader(r.headers[k]) /\ j \in 1..Len(r.headers[k].lines) /\ Len(r.headers[k].lines) \in Nat
            BY <1>1, HeadersTyped, HeaderTyped DEF InLine, InHeader
        <3>2. j \in 2..Len(r.headers[k].lines)
            BY <3>1
        <3> QED BY <2>1, <3>1, <3>2 DEF IsHeader
    <2>3. PICK a \in Seq(Chars \ Ctl) : a = <<>>
        <3>1. <<>> \in Seq(Chars \ Ctl)
            OBVIOUS
        <3> QED BY <3>1
    <2>4. PICK B \in Seq(Chars) : B = Before(r.headers[k].lines, j)
        BY <1>1, LineTyped
    <2>5. a \o b = b /\ B \o a = B
        BY <2>3, ConcatEmptySeq
    <2>6. r.headers[k].lines[j] = a \o b /\ v = Before(r.headers[k].lines, j) \o a /\ L = b \o AfterLine(r, k, j)
        BY <1>1, <1>2, <2>1, <2>4, <2>5
    <2>7. "header_lws" \in {"header_value", "header_lws"}
        OBVIOUS
    <2> QED BY <1>1, <2>2, <2>6, <2>7, TextProceeds
<1>3. CASE L = <<"sp">> \o X
    <2>1. Begins(L, "sp", X)
        BY <1>3 DEF Begins
    <2>2. c = "sp" /\ Z = X
        BY <2>1, SameFront, CharsFacts
    <2>3. Leads("header_lws", c, "header_lws")
        BY <2>2 DEF Leads, Moves, Blanks
    <2>4. /\ NextHeaders("header_lws", "header_lws", hs, n, v) = hs
          /\ NextName("header_lws", "header_lws", n, c) = n
          /\ NextValue("header_lws", "header_lws", v, c) = v
        BY DEF NextHeaders, NextName, NextValue, BeginsHeader
    <2>5. HeaderAhead(r, "header_lws", hs, n, v, Z)
        <3>1. \E k2, j2 : \E X2 \in Seq(Chars) :
                 j2 # 1 /\ TextAhead(r, k2, j2, hs, n, v, X2) /\ (Z = X2 \/ Z = <<"sp">> \o X2)
            BY <2>2
        <3> QED BY <3>1, NotInRequestLine DEF HeaderAhead
    <2> QED BY <2>3, <2>4, <2>5, NotInRequestLine DEF HeaderProceeds, HeaderReaches
<1> QED BY <1>2, <1>3

LEMMA BreakProceeds ==
    ASSUME NEW r, IsRequest(r), NEW c \in Chars, NEW Z \in Seq(Chars), NEW L, Begins(L, c, Z),
           NEW hs, NEW n, NEW v, NEW k, NEW j, InLine(r, k, j, hs, n),
           v = Before(r.headers[k].lines, j + 1), L = <<"lf">> \o AtLine(r, k, j + 1)
    PROVE  HeaderProceeds(r, "expecting_newline_2", c, hs, n, v, Z)
<1>1. PICK X \in Seq(Chars) : X = AtLine(r, k, j + 1)
    BY LineTyped
<1>2. Begins(L, "lf", X)
    BY <1>1 DEF Begins
<1>3. c = "lf" /\ Z = X
    BY <1>2, SameFront, CharsFacts
<1>4. Leads("expecting_newline_2", c, "header_line_start")
    BY <1>3 DEF Leads, Moves
<1>5. /\ NextHeaders("expecting_newline_2", "header_line_start", hs, n, v) = hs
      /\ NextName("expecting_newline_2", "header_line_start", n, c) = n
      /\ NextValue("expecting_newline_2", "header_line_start", v, c) = v
    BY DEF NextHeaders, NextName, NextValue, BeginsHeader
<1>6. LineAhead(r, hs, n, v, Z)
    BY <1>1, <1>3 DEF LineAhead
<1>7. HeaderAhead(r, "header_line_start", hs, n, v, Z)
    BY <1>6, NotInRequestLine DEF HeaderAhead
<1> QED BY <1>4, <1>5, <1>7, NotInRequestLine DEF HeaderProceeds, HeaderReaches

HeadStates ==
    RequestLine \cup {"header_line_start", "header_name", "space_before_header_value", "header_value",
                      "header_lws", "expecting_newline_2"}

LEMMA UriBehind ==
    ASSUME NEW r, NEW s, s \notin RequestLine, NEW next, next \notin RequestLine,
           NEW m, NEW u, NEW c, NEW L, NEW Z, UriAhead(r, s, m, u, L)
    PROVE  /\ UriAhead(r, next, m, u, Z)
           /\ NextMethod(next, m, c) = m /\ NextUri(s, next, u, c) = u
<1>1. "method_start" \in RequestLine /\ "method" \in RequestLine /\ "uri" \in RequestLine
    BY DEF RequestLine
<1>2. \A i \in 1..10 : VersionStates[i] \in RequestLine
    BY VersionLeads
<1>3. UriAhead(r, next, m, u, Z)
    BY <1>1, <1>2 DEF UriAhead
<1> QED BY <1>1, <1>3 DEF NextMethod, NextUri

LEMMA HeadProceeds ==
    ASSUME NEW r, IsRequest(r), NEW s \in HeadStates, NEW c \in Chars, NEW Z \in Seq(Chars),
           NEW m, NEW u, NEW hs, NEW n, NEW v, NEW L, Begins(L, c, Z), Ahead(r, s, m, u, hs, n, v, L)
    PROVE  Proceeds(r, s, c, m, u, hs, n, v, Z)
<1>1. CASE s \in RequestLine
    BY <1>1, RequestLineProceeds
<1>2. CASE s \notin RequestLine
    <2>1. UriAhead(r, s, m, u, L) /\ HeaderAhead(r, s, hs, n, v, L)
        BY DEF Ahead
    <2>2. SUFFICES HeaderProceeds(r, s, c, hs, n, v, Z) /\ (s = "header_line_start" /\ c \in Blanks => hs # <<>>)
        <3>1. PICK next : next \notin RequestLine /\ Leads(s, c, next) /\ HeaderReaches(r, s, next, c, hs, n, v, Z)
            BY <2>2 DEF HeaderProceeds
        <3>2. /\ UriAhead(r, next, m, u, Z)
              /\ NextMethod(next, m, c) = m /\ NextUri(s, next, u, c) = u
            BY <1>2, <2>1, <3>1, UriBehind
        <3>3. Reaches(r, s, next, c, m, u, hs, n, v, Z)
            BY <3>1, <3>2 DEF Reaches, Ahead, HeaderReaches
        <3> QED BY <2>2, <3>1, <3>3 DEF Proceeds
    <2>3. CASE s = "header_line_start"
        <3>1. LineAhead(r, hs, n, v, L)
            BY <2>1, <2>3 DEF HeaderAhead
        <3> QED BY <2>3, <3>1, LineStartProceeds
    <2>4. CASE s = "header_name"
        <3>1. PICK k : /\ InHeader(r, k, hs, n) /\ v = <<>>
                       /\ L = <<":">> \o (Space(r.headers[k]) \o AtLine(r, k, 1))
            BY <2>1, <2>4 DEF HeaderAhead
        <3> QED BY <2>4, <3>1, NameProceeds
    <2>5. CASE s = "space_before_header_value"
        <3>1. PICK k : InHeader(r, k, hs, n) /\ v = <<>> /\ L = Space(r.headers[k]) \o AtLine(r, k, 1)
            BY <2>1, <2>5 DEF HeaderAhead
        <3> QED BY <2>5, <3>1, SpaceProceeds
    <2>6. CASE s = "header_value"
        <3>1. PICK k, j : InText(r, k, j, hs, n, v, L)
            BY <2>1, <2>6 DEF HeaderAhead
        <3> QED BY <2>6, <3>1, ValueProceeds
    <2>7. CASE s = "header_lws"
        <3>1. PICK k, j : \E X \in Seq(Chars) :
                 j # 1 /\ TextAhead(r, k, j, hs, n, v, X) /\ (L = X \/ L = <<"sp">> \o X)
            BY <2>1, <2>7 DEF HeaderAhead
        <3>2. PICK X \in Seq(Chars) : j # 1 /\ TextAhead(r, k, j, hs, n, v, X) /\ (L = X \/ L = <<"sp">> \o X)
            BY <3>1
        <3> QED BY <2>7, <3>2, BlanksProceed
    <2>8. CASE s = "expecting_newline_2"
        <3>1. PICK k, j : /\ InLine(r, k, j, hs, n)
                          /\ v = Before(r.headers[k].lines, j + 1) /\ L = <<"lf">> \o AtLine(r, k, j + 1)
            BY <2>1, <2>8 DEF HeaderAhead
        <3> QED BY <2>8, <3>1, BreakProceeds
    <2> QED BY <1>2, <2>3, <2>4, <2>5, <2>6, <2>7, <2>8 DEF HeadStates
<1> QED BY <1>1, <1>2

LEMMA LeadsOnce ==
    ASSUME NEW s, NEW c \in Chars, NEW a, NEW b, Leads(s, c, a), Leads(s, c, b)
    PROVE  a = b
<1>1. CASE s \in {"header_line_start", "header_lws", "header_value", "header_name"}
    BY <1>1, TokenFacts DEF Leads, Moves, Blanks, Ctl
<1>2. CASE s \in {"method_start", "method", "uri"}
    BY <1>2, TokenFacts DEF Leads, Moves
<1>3. CASE s \notin {"header_line_start", "header_lws", "header_value", "header_name", "method_start", "method", "uri"}
    BY <1>3 DEF Leads, Moves, Digits
<1> QED BY <1>1, <1>2, <1>3

LEMMA LeadsInHead ==
    ASSUME NEW s, NEW c, NEW next, Leads(s, c, next)
    PROVE  s \in HeadStates /\ (next \in HeadStates \/ next = "expecting_newline_3")
BY DEF Leads, Moves, HeadStates, RequestLine

LEMMA ConcatNotEmpty ==
    ASSUME NEW a \in Seq(Chars), NEW b \in Seq(Chars), b # <<>>
    PROVE  a \o b # <<>> /\ a \o b \in Seq(Chars)
BY ConcatProperties, EmptySeq

\* Nothing is complete before the head ends.
LEMMA AheadNotEmpty ==
    ASSUME NEW r, IsRequest(r), NEW s \in HeadStates \cup {"expecting_newline_3"},
           NEW m, NEW u, NEW hs, NEW n, NEW v, NEW L, Ahead(r, s, m, u, hs, n, v, L)
    PROVE  L # <<>>
<1>1. \A Z \in Seq(Chars) : \A c \in Chars : <<c>> \o Z # <<>> /\ <<c>> \o Z \in Seq(Chars)
    OBVIOUS
<1>2. /\ FormText(r.form) \in Seq(Chars) /\ UriText(r) \in Seq(Chars) /\ Len(r.headers) \in Nat
      /\ r.method \in Chars /\ "sp" \in Chars /\ "lf" \in Chars /\ ":" \in Chars
    BY HeadersTyped, CharsFacts
<1>3. UriAhead(r, s, m, u, L) /\ HeaderAhead(r, s, hs, n, v, L)
    BY DEF Ahead
<1>4. ASSUME NEW k \in 1..(Len(r.headers) + 1) PROVE AtHeader(r, k) # <<>>
    <2>1. From(HeaderTexts(r), k) \in Seq(Chars)
        BY HeaderTextsTyped, FromTyped
    <2>2. PICK F \in Seq(Chars), E \in Seq(Chars) : F = FormText(r.form) /\ E = <<"lf">> \o F
        BY <1>2, Letters, Concat
    <2>3. Crlf \o F = <<"cr">> \o E
        BY <2>2, BreaksSo
    <2>4. Crlf \o F # <<>> /\ Crlf \o F \in Seq(Chars)
        <3>1. "cr" \in Chars
            BY CharsFacts
        <3> QED BY <1>1, <2>3, <3>1
    <2>5. PICK D \in Seq(Chars) : D = Crlf \o F
        BY <2>4
    <2>6. From(HeaderTexts(r), k) \o D # <<>>
        BY <2>1, <2>4, <2>5, ConcatNotEmpty
    <2> QED BY <2>2, <2>5, <2>6 DEF AtHeader
<1>5. ASSUME NEW k \in 1..Len(r.headers), NEW j \in 1..(Len(r.headers[k].lines) + 1)
      PROVE  AtLine(r, k, j) # <<>>
    <2>1. k + 1 \in 1..(Len(r.headers) + 1)
        BY <1>2
    <2>2. PICK X \in Seq(Chars) : X = AtHeader(r, k + 1) /\ X # <<>>
        BY <1>4, <2>1, AtTyped
    <2>3. From(LineTexts(r.headers[k]), j) \in Seq(Chars)
        <3>1. r.headers[k].lines \in Seq(Seq(Chars \ Ctl))
            BY HeadersTyped
        <3>2. PICK h : h = r.headers[k]
            OBVIOUS
        <3>3. LineTexts(h) \in Seq(Seq(Chars)) /\ Len(LineTexts(h)) = Len(h.lines)
            BY <3>1, <3>2, LineTextsTyped
        <3> QED BY <3>2, <3>3, FromTyped
    <2>4. From(LineTexts(r.headers[k]), j) \o X # <<>>
        BY <2>2, <2>3, ConcatNotEmpty
    <2> QED BY <2>2, <2>4 DEF AtLine
<1>6. ASSUME NEW k, NEW j, InLine(r, k, j, hs, n)
      PROVE  /\ AtLine(r, k, j + 1) # <<>> /\ AfterLine(r, k, j) # <<>>
             /\ AfterLine(r, k, j) \in Seq(Chars) /\ AtLine(r, k, j + 1) \in Seq(Chars)
             /\ r.headers[k].lines[j] \in Seq(Chars)
    <2>1. k \in 1..Len(r.headers) /\ j \in 1..Len(r.headers[k].lines) /\ Len(r.headers[k].lines) \in Nat
        BY <1>6, HeaderTyped DEF InLine
    <2>2. j + 1 \in 1..(Len(r.headers[k].lines) + 1)
        BY <2>1
    <2>3. AtLine(r, k, j + 1) # <<>>
        BY <1>5, <2>1, <2>2
    <2>4. AfterLine(r, k, j) \in Seq(Chars) /\ AtLine(r, k, j + 1) \in Seq(Chars)
          /\ r.headers[k].lines[j] \in Seq(Chars \ Ctl)
        BY <1>6, LineTyped
    <2>5. r.headers[k].lines[j] \in Seq(Chars)
        BY <2>4
    <2>6. Crlf \o AtLine(r, k, j + 1) # <<>>
        BY <2>3, <2>4, Letters, ConcatNotEmpty
    <2> QED BY <2>3, <2>4, <2>5, <2>6 DEF AfterLine
<1>7. CASE s \in RequestLine
    <2>1. CASE s = "method_start"
        <3>1. L = Text(r)
            BY <1>3, <2>1 DEF UriAhead
        <3>2. PICK Y \in Seq(Chars) : Y = <<"sp">> \o (UriText(r) \o AfterUri(r))
            <4>1. UriText(r) \o AfterUri(r) \in Seq(Chars)
                BY <1>2, VersionTyped, Concat
            <4> QED BY <4>1, Letters, Concat
        <3>3. L = <<r.method>> \o Y
            BY <3>1, <3>2, TextGoesOn DEF TextLaw
        <3> QED BY <1>1, <1>2, <3>3
    <2>2. CASE s = "method"
        <3>1. L = <<"sp">> \o (UriText(r) \o AfterUri(r))
            BY <1>3, <2>2 DEF UriAhead
        <3>2. UriText(r) \o AfterUri(r) \in Seq(Chars)
            BY <1>2, VersionTyped, Concat
        <3> QED BY <1>1, <1>2, <3>1, <3>2
    <2>3. CASE s = "uri"
        <3>1. PICK b \in Seq(UriChars) : L = b \o AfterUri(r)
            BY <1>3, <2>3 DEF UriAhead
        <3>2. b \in Seq(Chars)
            BY UriCharsFacts
        <3>3. AtVersion(r, 1) \in Seq(Chars)
            BY VersionTyped
        <3>4. AfterUri(r) # <<>> /\ AfterUri(r) \in Seq(Chars)
            BY <1>1, <1>2, <3>3 DEF AfterUri
        <3> QED BY <3>1, <3>2, <3>4, ConcatNotEmpty
    <2>4. ASSUME NEW i \in 1..10, s = VersionStates[i] PROVE L # <<>>
        <3>1. i + 1 \in 1..11
            OBVIOUS
        <3>2. PICK Y \in Seq(Chars) : Y = AtVersion(r, i + 1)
            BY <3>1, VersionTyped
        <3>3. AtVersion(r, i) = <<Version[i]>> \o Y
            BY <3>2, TextGoesOn DEF VersionLaw
        <3>4. L = AtVersion(r, i)
            BY <1>3, <2>4 DEF UriAhead
        <3> QED BY <1>1, <3>3, <3>4, VersionLeads
    <2> QED BY <1>7, <2>1, <2>2, <2>3, <2>4, RequestLineStates
<1>8. CASE s = "header_line_start"
    <2>1. LineAhead(r, hs, n, v, L)
        BY <1>3, <1>8 DEF HeaderAhead
    <2>2. 1 \in 1..(Len(r.headers) + 1)
        BY <1>2
    <2> QED BY <1>4, <1>6, <2>1, <2>2 DEF LineAhead
<1>9. CASE s = "header_name"
    <2>1. PICK k : InHeader(r, k, hs, n) /\ L = <<":">> \o (Space(r.headers[k]) \o AtLine(r, k, 1))
        BY <1>3, <1>9 DEF HeaderAhead
    <2>2. Space(r.headers[k]) \o AtLine(r, k, 1) \in Seq(Chars)
        BY <2>1, HeaderTyped, Concat
    <2> QED BY <1>1, <1>2, <2>1, <2>2
<1>10. CASE s = "space_before_header_value"
    <2>1. PICK k : InHeader(r, k, hs, n) /\ L = Space(r.headers[k]) \o AtLine(r, k, 1)
        BY <1>3, <1>10 DEF HeaderAhead
    <2>2. /\ Space(r.headers[k]) \in Seq(Chars) /\ AtLine(r, k, 1) \in Seq(Chars) /\ k \in 1..Len(r.headers)
          /\ Len(r.headers[k].lines) \in Nat \ {0}
        BY <2>1, HeaderTyped
    <2>3. 1 \in 1..(Len(r.headers[k].lines) + 1)
        BY <2>2
    <2>4. AtLine(r, k, 1) # <<>>
        BY <1>5, <2>2, <2>3
    <2> QED BY <2>1, <2>2, <2>4, ConcatNotEmpty
<1>11. CASE s = "header_value"
    <2>1. PICK k, j : InText(r, k, j, hs, n, v, L)
        BY <1>3, <1>11 DEF HeaderAhead
    <2>2. PICK b \in Seq(Chars \ Ctl) : L = b \o AfterLine(r, k, j)
        BY <2>1 DEF InText
    <2>3. InLine(r, k, j, hs, n)
        BY <2>1 DEF InText
    <2>4. b \in Seq(Chars)
        OBVIOUS
    <2>5. AfterLine(r, k, j) # <<>> /\ AfterLine(r, k, j) \in Seq(Chars)
        BY <1>6, <2>3
    <2> QED BY <2>2, <2>4, <2>5, ConcatNotEmpty
<1>12. CASE s = "header_lws"
    <2>1. PICK k, j : \E X \in Seq(Chars) : TextAhead(r, k, j, hs, n, v, X) /\ (L = X \/ L = <<"sp">> \o X)
        BY <1>3, <1>12 DEF HeaderAhead
    <2>2. PICK X \in Seq(Chars) : TextAhead(r, k, j, hs, n, v, X) /\ (L = X \/ L = <<"sp">> \o X)
        BY <2>1
    <2>3. InLine(r, k, j, hs, n) /\ X = r.headers[k].lines[j] \o AfterLine(r, k, j)
        BY <2>2 DEF TextAhead
    <2>4. X # <<>>
        BY <1>6, <2>3, ConcatNotEmpty
    <2> QED BY <1>1, <1>2, <2>2, <2>4
<1>13. CASE s = "expecting_newline_2"
    <2>1. PICK k, j : InLine(r, k, j, hs, n) /\ L = <<"lf">> \o AtLine(r, k, j + 1)
        BY <1>3, <1>13 DEF HeaderAhead
    <2>2. AtLine(r, k, j + 1) \in Seq(Chars)
        BY <1>6, <2>1
    <2> QED BY <1>1, <1>2, <2>1, <2>2
<1>14. CASE s = "expecting_newline_3"
    <2>1. L = <<"lf">> \o FormText(r.form)
        BY <1>3, <1>14 DEF HeaderAhead
    <2> QED BY <1>1, <1>2, <2>1
<1> QED BY <1>7, <1>8, <1>9, <1>10, <1>11, <1>12, <1>13, <1>14 DEF HeadStates

------------------------------------------------------------------------------
(* ReadsAsSent.                                                            *)

Left == After(wire, pos + 1)

\* What ReadsAsSent says of a request that is complete.
WasSent ==
    /\ method = <<sent.method>> /\ body = FormText(sent.form)
    /\ Len(sent.path) <= CharMax =>
          final.elements = IF sent.path = <<>> THEN << <<>> >>
                           ELSE SubSeq(sent.path, 1, Min({Len(sent.path), 5}))
    /\ final.variables = sent.query \o sent.form \o sent.cookie
    /\ sent.cookie # <<>> /\ sent.query \o sent.form = <<>> => final.ticket = sent.cookie[1][2]
    /\ HeadersAre(sent, headers)

HeadToCome ==
    /\ state \in HeadStates \cup {"expecting_newline_3"} /\ body = <<>>
    /\ Ahead(sent, state, method, uri, headers, name, value, Left)

BodyToCome ==
    /\ state = "reading_body" /\ method = <<sent.method>> /\ uri = UriText(sent)
    /\ HeadersAre(sent, headers)
    /\ body \o Left = FormText(sent.form) /\ length = Len(FormText(sent.form)) /\ Left # <<>>

OnTheWay ==
    ~garbled =>
        /\ sent \in Requests /\ verdict \in {"more", "complete"}
        /\ verdict = "more" => HeadToCome \/ BodyToCome
        /\ verdict = "complete" => Left = <<>> /\ WasSent

LEMMA LeftTyped ==
    ASSUME Typed PROVE Left \in Seq(Chars) /\ (Left = <<>> <=> pos = Len(wire))
<1>1. wire \in Seq(Chars) /\ pos \in Nat /\ pos <= Len(wire) /\ Len(wire) \in Nat
    BY LenProperties DEF Typed
<1>2. CASE pos = Len(wire)
    <2>1. After(wire, Len(wire) + 1) = <<>>
        BY <1>1, AfterAll
    <2>2. <<>> \in Seq(Chars)
        OBVIOUS
    <2> QED BY <1>2, <2>1, <2>2 DEF Left
<1>3. CASE pos # Len(wire)
    <2>1. pos + 1 \in 1..Len(wire)
        BY <1>1, <1>3
    <2>2. PICK i \in 1..Len(wire) : i = pos + 1
        BY <2>1
    <2>3. /\ After(wire, i) = <<wire[i]>> \o After(wire, i + 1)
          /\ After(wire, i) \in Seq(Chars) /\ After(wire, i + 1) \in Seq(Chars) /\ wire[i] \in Chars
        BY <1>1, AfterOne
    <2>4. \A Z \in Seq(Chars) : \A c \in Chars : <<c>> \o Z # <<>>
        OBVIOUS
    <2>5. After(wire, i) # <<>>
        BY <2>3, <2>4
    <2> QED BY <1>3, <2>2, <2>3, <2>5 DEF Left
<1> QED BY <1>2, <1>3

LEMMA Advances ==
    ASSUME Typed, Consumes, wire' = wire
    PROVE  Begins(Left, input, Left') /\ input \in Chars /\ Left' \in Seq(Chars)
<1>1. wire \in Seq(Chars) /\ pos \in Nat /\ pos < Len(wire) /\ Len(wire) \in Nat /\ pos' = pos + 1
    BY LenProperties DEF Typed, Consumes
<1>2. PICK i \in 1..Len(wire) : i = pos + 1
    BY <1>1
<1>3. /\ After(wire, i) = <<wire[i]>> \o After(wire, i + 1)
      /\ After(wire, i + 1) \in Seq(Chars) /\ wire[i] \in Chars
    BY <1>1, AfterOne
<1>4. Left' = After(wire, i + 1)
    BY <1>1, <1>2 DEF Left, After
<1>5. Left = After(wire, i) /\ input = wire[i]
    BY <1>2 DEF Left, input
<1> QED BY <1>3, <1>4, <1>5 DEF Begins

LEMMA SentWritten == ASSUME OnTheWay, ~garbled PROVE IsRequest(sent)
BY RequestsAreWritten DEF OnTheWay

\* Where the state machine stands before a step through the head.
LEMMA HeadGoesOn ==
    ASSUME Typed, OnTheWay, ~garbled, Consumes, wire' = wire, state \in HeadStates
    PROVE  /\ Proceeds(sent, state, input, method, uri, headers, name, value, Left')
           /\ body = <<>> /\ sent \in Requests
<1>1. verdict = "more"
    BY DEF Consumes
<1>2. state # "reading_body"
    BY DEF HeadStates, RequestLine
<1>3. HeadToCome /\ sent \in Requests
    BY <1>1, <1>2 DEF OnTheWay, BodyToCome
<1>4. body = <<>> /\ Ahead(sent, state, method, uri, headers, name, value, Left)
    BY <1>3 DEF HeadToCome
<1>5. IsRequest(sent)
    BY SentWritten
<1>6. PICK c \in Chars, Z \in Seq(Chars), L \in Seq(Chars) : c = input /\ Z = Left' /\ L = Left
    BY Advances, LeftTyped
<1>7. Begins(L, c, Z)
    BY <1>6, Advances
<1>8. Proceeds(sent, state, c, method, uri, headers, name, value, Z)
    BY <1>4, <1>5, <1>6, <1>7, HeadProceeds
<1> QED BY <1>3, <1>4, <1>6, <1>8

LEMMA HeadArrives ==
    ASSUME Typed, OnTheWay, ~garbled, Consumes, wire' = wire, Leads(state, input, state')
    PROVE  /\ Reaches(sent, state, state', input, method, uri, headers, name, value, Left')
           /\ body = <<>> /\ sent \in Requests /\ state' \in HeadStates \cup {"expecting_newline_3"}
<1>1. state \in HeadStates /\ state' \in HeadStates \cup {"expecting_newline_3"}
    BY LeadsInHead
<1>2. Proceeds(sent, state, input, method, uri, headers, name, value, Left') /\ body = <<>> /\ sent \in Requests
    BY <1>1, HeadGoesOn
<1>3. PICK next : Leads(state, input, next)
                  /\ Reaches(sent, state, next, input, method, uri, headers, name, value, Left')
    BY <1>2 DEF Proceeds
<1>4. input \in Chars
    BY Advances
<1>5. next = state'
    BY <1>3, <1>4, LeadsOnce
<1> QED BY <1>1, <1>2, <1>3, <1>5

LEMMA InitReads ==
    ASSUME Init PROVE OnTheWay
<1>1. /\ sent \in Requests /\ wire = Text(sent) /\ pos = 0
      /\ state = "method_start" /\ verdict = "more" /\ method = <<>> /\ uri = <<>> /\ headers = <<>>
      /\ body = <<>> /\ name = <<>> /\ value = <<>>
    BY DEF Init
<1>2. wire \in Seq(Chars)
    BY <1>1, RequestTexts
<1>3. Left = wire
    <2>1. After(wire, 1) = wire
        BY <1>2, AfterAll
    <2>2. pos + 1 = 1
        BY <1>1
    <2> QED BY <2>1, <2>2 DEF Left
<1>4. \A i \in 1..10 : VersionStates[i] # "method_start"
    BY VersionLeads
<1>5. UriAhead(sent, state, method, uri, Left)
    BY <1>1, <1>3, <1>4 DEF UriAhead
<1>6. HeaderAhead(sent, state, headers, name, value, Left)
    BY <1>1 DEF HeaderAhead
<1>7. state \in HeadStates
    BY <1>1 DEF HeadStates, RequestLine
<1>8. HeadToCome
    BY <1>1, <1>5, <1>6, <1>7 DEF HeadToCome, Ahead
<1> QED BY <1>1, <1>8 DEF OnTheWay

LEMMA MoveReads ==
    ASSUME Typed, OnTheWay, Move PROVE OnTheWay'
<1>1. PICK m \in Moves :
        /\ Consumes /\ state = m[1] /\ input \in m[2] /\ state' = m[3]
        /\ method' = IF m[3] = "method" THEN Append(method, input) ELSE method
        /\ uri' = IF m[1] = "uri" /\ m[3] = "uri" THEN Append(uri, input) ELSE uri
        /\ name' = IF m[3] = "header_name" THEN Append(name, input) ELSE name
        /\ value' = IF m[3] = "header_value" /\ ~(m[1] = "space_before_header_value" /\ input = "sp")
                    THEN Append(value, input) ELSE value
        /\ UNCHANGED <<client, verdict, headers, body, length, final>>
    BY DEF Move
<1>2. sent' = sent /\ wire' = wire /\ garbled' = garbled /\ verdict' = "more" /\ headers' = headers /\ body' = body
    BY <1>1 DEF client, Consumes
<1>3. SUFFICES ASSUME ~garbled PROVE OnTheWay'
    BY <1>2 DEF OnTheWay
<1>4. Leads(state, input, state')
    BY <1>1 DEF Leads
<1>5. ~BeginsHeader(state, state')
    <2>1. m[1] = "header_line_start" => m[3] = "expecting_newline_3"
        BY DEF Moves
    <2> QED BY <1>1, <2>1 DEF BeginsHeader
<1>6. /\ Reaches(sent, state, state', input, method, uri, headers, name, value, Left')
      /\ body = <<>> /\ sent \in Requests /\ state' \in HeadStates \cup {"expecting_newline_3"}
    BY <1>1, <1>2, <1>3, <1>4, HeadArrives
<1>7. /\ method' = NextMethod(state', method, input) /\ uri' = NextUri(state, state', uri, input)
      /\ headers' = NextHeaders(state, state', headers, name, value)
      /\ name' = NextName(state, state', name, input) /\ value' = NextValue(state, state', value, input)
    BY <1>1, <1>2, <1>5 DEF NextMethod, NextUri, NextHeaders, NextName, NextValue
<1>8. Ahead(sent, state', method', uri', headers', name', value', Left')
    BY <1>6, <1>7 DEF Reaches
<1>9. HeadToCome'
    BY <1>2, <1>6, <1>8 DEF HeadToCome
<1> QED BY <1>2, <1>6, <1>9 DEF OnTheWay

LEMMA StartHeaderReads ==
    ASSUME Typed, OnTheWay, StartHeader PROVE OnTheWay'
<1>1. /\ Consumes /\ state = "header_line_start" /\ input \in Token /\ state' = "header_name"
      /\ headers' = (IF name = <<>> THEN headers ELSE Stored)
      /\ name' = <<input>> /\ value' = <<>> /\ method' = method /\ uri' = uri
      /\ sent' = sent /\ wire' = wire /\ garbled' = garbled /\ verdict' = "more" /\ body' = body
    BY DEF StartHeader, Consumes, client, line
<1>2. SUFFICES ASSUME ~garbled PROVE OnTheWay'
    BY <1>1 DEF OnTheWay
<1>3. Leads(state, input, state')
    BY <1>1 DEF Leads
<1>4. /\ Reaches(sent, state, state', input, method, uri, headers, name, value, Left')
      /\ body = <<>> /\ sent \in Requests /\ state' \in HeadStates \cup {"expecting_newline_3"}
    BY <1>1, <1>2, <1>3, HeadArrives
<1>5. Stored = With(headers, name, value)
    BY DEF Stored, With
<1>6. /\ method' = NextMethod(state', method, input) /\ uri' = NextUri(state, state', uri, input)
      /\ headers' = NextHeaders(state, state', headers, name, value)
      /\ name' = NextName(state, state', name, input) /\ value' = NextValue(state, state', value, input)
    BY <1>1, <1>5 DEF NextMethod, NextUri, NextHeaders, NextName, NextValue, BeginsHeader
<1>7. Ahead(sent, state', method', uri', headers', name', value', Left')
    BY <1>4, <1>6 DEF Reaches
<1>8. HeadToCome'
    BY <1>1, <1>4, <1>7 DEF HeadToCome
<1> QED BY <1>1, <1>4, <1>8 DEF OnTheWay

LEMMA FoldHeaderReads ==
    ASSUME Typed, OnTheWay, FoldHeader PROVE OnTheWay'
<1>1. /\ Consumes /\ state = "header_line_start" /\ input \in Blanks /\ state' = "header_lws"
      /\ headers' = headers /\ name' = name /\ value' = value /\ method' = method /\ uri' = uri
      /\ sent' = sent /\ wire' = wire /\ garbled' = garbled /\ verdict' = "more" /\ body' = body
    BY DEF FoldHeader, Consumes, client, line, current
<1>2. SUFFICES ASSUME ~garbled PROVE OnTheWay'
    BY <1>1 DEF OnTheWay
<1>3. Leads(state, input, state')
    BY <1>1 DEF Leads
<1>4. /\ Reaches(sent, state, state', input, method, uri, headers, name, value, Left')
      /\ body = <<>> /\ sent \in Requests /\ state' \in HeadStates \cup {"expecting_newline_3"}
    BY <1>1, <1>2, <1>3, HeadArrives
<1>5. /\ method' = NextMethod(state', method, input) /\ uri' = NextUri(state, state', uri, input)
      /\ headers' = NextHeaders(state, state', headers, name, value)
      /\ name' = NextName(state, state', name, input) /\ value' = NextValue(state, state', value, input)
    BY <1>1 DEF NextMethod, NextUri, NextHeaders, NextName, NextValue, BeginsHeader
<1>6. Ahead(sent, state', method', uri', headers', name', value', Left')
    BY <1>4, <1>5 DEF Reaches
<1>7. HeadToCome'
    BY <1>1, <1>4, <1>6 DEF HeadToCome
<1> QED BY <1>1, <1>4, <1>7 DEF OnTheWay

\* A request that arrives as it was sent is never refused.
LEMMA NotRefused ==
    ASSUME Typed, OnTheWay, ~garbled, Refuse PROVE FALSE
<1>1. Consumes /\ ~Accepts /\ wire' = wire
    BY DEF Refuse, client
<1>2. verdict = "more"
    BY <1>1 DEF Consumes
<1>3. CASE state \in HeadStates
    <2>1. Proceeds(sent, state, input, method, uri, headers, name, value, Left')
        BY <1>1, <1>3, HeadGoesOn
    <2>2. PICK next : Leads(state, input, next)
        BY <2>1 DEF Proceeds
    <2>3. state = "header_line_start" /\ input \in Blanks => headers # <<>>
        BY <2>1 DEF Proceeds
    <2> QED BY <1>1, <2>2, <2>3 DEF Leads, Accepts
<1>4. CASE state = "expecting_newline_3"
    <2>1. HeadToCome
        BY <1>2, <1>4 DEF OnTheWay, BodyToCome
    <2>2. Left = <<"lf">> \o FormText(sent.form)
        BY <1>4, <2>1 DEF HeadToCome, Ahead, HeaderAhead
    <2>3. PICK F \in Seq(Chars) : F = FormText(sent.form)
        BY SentWritten, HeadersTyped
    <2>4. Begins(Left, "lf", F)
        BY <2>2, <2>3 DEF Begins
    <2>5. input = "lf"
        BY <1>1, <2>4, Advances, SameFront, CharsFacts
    <2> QED BY <1>1, <1>4, <2>5 DEF Accepts
<1>5. CASE state = "reading_body"
    BY <1>1, <1>5 DEF Accepts
<1> QED BY <1>2, <1>3, <1>4, <1>5 DEF OnTheWay, HeadToCome, BodyToCome

LEMMA AllHeld ==
    ASSUME NEW r, IsRequest(r), NEW hs, NEW n, NEW v, AllRead(r, hs, n, v)
    PROVE  HeadersAre(r, With(hs, n, v))
<1>1. DOMAIN r.headers = 1..Len(r.headers) /\ Len(r.headers) \in Nat
    BY HeadersTyped
<1>2. CASE r.headers = <<>> /\ hs = <<>> /\ n = <<>> /\ v = <<>>
    <2>1. DOMAIN r.headers = {} /\ DOMAIN hs = {}
        BY <1>2
    <2>2. Upper(Decode(n)) = <<>>
        BY <1>2, NothingDecoded
    <2>3. PICK new : new = With(hs, n, v)
        OBVIOUS
    <2>4. DOMAIN new = {<<>>}
        BY <2>1, <2>2, <2>3 DEF With
    <2> QED BY <2>1, <2>3, <2>4 DEF HeadersAre
<1>3. CASE r.headers # <<>> /\ InHeader(r, Len(r.headers), hs, n) /\ v = Joined(r.headers[Len(r.headers)].lines)
    <2>1. Keeps(r, Len(r.headers), With(hs, n, v))
        BY <1>3, StoredOne
    <2> QED BY <1>1, <2>1, KeepsAll
<1> QED BY <1>2, <1>3 DEF AllRead

LEMMA LengthIs ==
    ASSUME NEW r, IsRequest(r), NEW hs, HeadersAre(r, hs)
    PROVE  /\ r.method = "POST" /\ <<"LENGTH">> \in DOMAIN hs =>
                 IsNumber(Header(hs, "LENGTH")) /\ Number(Header(hs, "LENGTH")) = Len(FormText(r.form))
           /\ ~(r.method = "POST" /\ <<"LENGTH">> \in DOMAIN hs) => FormText(r.form) = <<>>
<1>1. DOMAIN r.headers = 1..Len(r.headers) /\ Len(r.headers) \in Nat
    BY HeadersTyped
<1>2. HeaderHeld(r, hs, "LENGTH")
    BY <1>1, HeaderIs
<1>3. PICK said : said = Decode(ValueOf(r, "LENGTH"))
    OBVIOUS
<1>4. <<"LENGTH">> \in DOMAIN hs => LastOf(r, "LENGTH") # 0 /\ Header(hs, "LENGTH") = said
    BY <1>2, <1>3 DEF HeaderHeld, Header
<1>5. /\ r.method = "POST" /\ LastOf(r, "LENGTH") # 0 => IsNumber(said) /\ Number(said) = Len(FormText(r.form))
      /\ ~(r.method = "POST" /\ LastOf(r, "LENGTH") # 0) => r.form = <<>>
    BY <1>3 DEF IsRequest
<1>6. LastOf(r, "LENGTH") # 0 => <<"LENGTH">> \in DOMAIN hs
    BY <1>2 DEF HeaderHeld
<1>7. r.form = <<>> => FormText(r.form) = <<>>
    <2>1. r.form \in Seq(Pairs)
        BY DEF IsRequest
    <2> QED BY <2>1, FormFacts
<1> QED BY <1>4, <1>5, <1>6, <1>7

LEMMA ResultIs ==
    ASSUME NEW r, IsRequest(r), sent' = r, NEW hs, HeadersAre(r, hs), headers' = hs,
           uri = UriText(r), method' = <<r.method>>, NEW b, b = FormText(r.form), body' = b,
           final' = FinalDecode(hs, b)
    PROVE  WasSent'
<1>1. PICK f : f = FinalDecode(hs, FormText(r.form))
    OBVIOUS
<1>2. /\ Len(r.path) <= CharMax =>
            f.elements = IF r.path = <<>> THEN << <<>> >> ELSE SubSeq(r.path, 1, Min({Len(r.path), 5}))
      /\ f.variables = r.query \o r.form \o r.cookie
      /\ r.cookie # <<>> /\ r.query \o r.form = <<>> => f.ticket = r.cookie[1][2]
    BY <1>1, FinalIs
<1>3. final' = f
    BY <1>1
<1>4. PICK es, vs : /\ es = IF r.path = <<>> THEN << <<>> >> ELSE SubSeq(r.path, 1, Min({Len(r.path), 5}))
                    /\ vs = r.query \o r.form \o r.cookie
    OBVIOUS
<1>5. /\ Len(r.path) <= CharMax => final'.elements = es
      /\ final'.variables = vs
      /\ r.cookie # <<>> /\ r.query \o r.form = <<>> => final'.ticket = r.cookie[1][2]
    <2>1. Len(r.path) <= CharMax => f.elements = es
        BY <1>2, <1>4
    <2>2. f.variables = vs
        BY <1>2, <1>4
    <2>3. r.cookie # <<>> /\ r.query \o r.form = <<>> => f.ticket = r.cookie[1][2]
        BY <1>2
    <2> QED BY <1>3, <2>1, <2>2, <2>3
<1>6. /\ es = IF sent'.path = <<>> THEN << <<>> >> ELSE SubSeq(sent'.path, 1, Min({Len(sent'.path), 5}))
      /\ vs = sent'.query \o sent'.form \o sent'.cookie
    BY <1>4
<1>7. method' = <<sent'.method>> /\ body' = FormText(sent'.form) /\ HeadersAre(sent', headers')
    OBVIOUS
<1>8. sent'.cookie # <<>> /\ sent'.query \o sent'.form = <<>> => final'.ticket = sent'.cookie[1][2]
    BY <1>5
<1> QED BY <1>5, <1>6, <1>7, <1>8 DEF WasSent

LEMMA EndHeadersReads ==
    ASSUME Typed, OnTheWay, EndHeaders PROVE OnTheWay'
<1> DEFINE said == Header(headers', "LENGTH")
           needed == method = <<"POST">> /\ <<"LENGTH">> \in DOMAIN headers'
<1>1. /\ Consumes /\ state = "expecting_newline_3" /\ input = "lf"
      /\ headers' = Stored /\ name' = <<>> /\ value' = <<>> /\ body' = body /\ method' = method /\ uri' = uri
      /\ sent' = sent /\ garbled' = garbled /\ wire' = wire /\ verdict = "more"
      /\ length' = (IF needed /\ IsNumber(said) THEN Number(said) ELSE 0)
      /\ verdict' = (IF needed /\ ~IsNumber(said) THEN "throws"
                     ELSE IF length' = 0 THEN "complete" ELSE "more")
      /\ state' = (IF verdict' = "more" THEN "reading_body" ELSE state)
      /\ verdict' = "complete" => final' = FinalDecode(headers', body)
    BY DEF EndHeaders, Consumes, Ends, client, line
<1>2. SUFFICES ASSUME ~garbled PROVE OnTheWay'
    BY <1>1 DEF OnTheWay
<1>3. HeadToCome /\ sent \in Requests
    BY <1>1, <1>2 DEF OnTheWay, BodyToCome
<1>4. PICK r : r = sent /\ IsRequest(r)
    BY <1>2, SentWritten
<1>5. /\ body = <<>> /\ method = <<r.method>> /\ uri = UriText(r)
      /\ AllRead(r, headers, name, value) /\ Left = <<"lf">> \o FormText(r.form)
    BY <1>1, <1>3, <1>4 DEF HeadToCome, Ahead, UriAhead, HeaderAhead
<1>6. PICK F \in Seq(Chars) : F = FormText(r.form)
    BY <1>4, HeadersTyped
<1>7. Left' = F
    <2>1. Begins(Left, "lf", F)
        BY <1>5, <1>6 DEF Begins
    <2> QED BY <1>1, <2>1, Advances, SameFront, CharsFacts
<1>8. PICK hs : hs = headers' /\ HeadersAre(r, hs)
    <2>1. Stored = With(headers, name, value)
        BY DEF Stored, With
    <2> QED BY <1>1, <1>4, <1>5, <2>1, AllHeld
<1>9. needed <=> r.method = "POST" /\ <<"LENGTH">> \in DOMAIN hs
    <2>1. <<r.method>> = <<"POST">> <=> r.method = "POST"
        OBVIOUS
    <2> QED BY <1>5, <1>8, <2>1
<1>10. /\ needed => IsNumber(said) /\ Number(said) = Len(F)
       /\ ~needed => F = <<>>
    <2>1. said = Header(hs, "LENGTH")
        BY <1>8
    <2> HIDE DEF needed, said
    <2> QED BY <1>4, <1>6, <1>8, <1>9, <2>1, LengthIs
<1> HIDE DEF needed, said
<1>11. Len(F) \in Nat /\ (F = <<>> <=> Len(F) = 0)
    BY EmptySeq, LenProperties
<1>12. /\ length' = Len(F)
       /\ verdict' = IF F = <<>> THEN "complete" ELSE "more"
    BY <1>1, <1>10, <1>11
<1>13. CASE F = <<>>
    <2>1. verdict' = "complete"
        BY <1>12, <1>13
    <2>2. final' = FinalDecode(hs, body) /\ body' = body /\ body = FormText(r.form)
        BY <1>1, <1>5, <1>6, <1>8, <1>13, <2>1
    <2>3. headers' = hs /\ method' = <<r.method>> /\ sent' = r
        BY <1>1, <1>4, <1>5, <1>8
    <2>4. WasSent'
        BY <1>4, <1>5, <1>8, <2>2, <2>3, ResultIs
    <2> QED BY <1>1, <1>3, <1>7, <1>13, <2>1, <2>4 DEF OnTheWay
<1>14. CASE F # <<>>
    <2>1. verdict' = "more" /\ state' = "reading_body"
        BY <1>1, <1>12, <1>14
    <2>2. body' \o Left' = F
        <3>1. <<>> \o F = F
            BY ConcatEmptySeq
        <3> QED BY <1>1, <1>5, <1>7, <3>1
    <2>3. BodyToCome'
        BY <1>1, <1>4, <1>5, <1>6, <1>7, <1>8, <1>12, <1>14, <2>1, <2>2 DEF BodyToCome
    <2> QED BY <1>1, <1>3, <2>1, <2>3 DEF OnTheWay
<1> QED BY <1>13, <1>14

LEMMA ReadBodyReads ==
    ASSUME Typed, OnTheWay, ReadBody PROVE OnTheWay'
<1>1. /\ Consumes /\ state = "reading_body" /\ body' = Append(body, input)
      /\ verdict' = (IF Len(body') = length THEN "complete" ELSE "more")
      /\ headers' = headers /\ state' = state /\ method' = method /\ uri' = uri
      /\ length' = length /\ sent' = sent /\ garbled' = garbled /\ wire' = wire /\ verdict = "more"
      /\ verdict' = "complete" => final' = FinalDecode(headers, body')
    BY DEF ReadBody, Consumes, Ends, client, line, current
<1>2. SUFFICES ASSUME ~garbled PROVE OnTheWay'
    BY <1>1 DEF OnTheWay
<1>3. BodyToCome /\ sent \in Requests
    <2>1. "reading_body" \notin HeadStates \cup {"expecting_newline_3"}
        BY DEF HeadStates, RequestLine
    <2> QED BY <1>1, <1>2, <2>1 DEF OnTheWay, HeadToCome
<1>4. PICK r : r = sent /\ IsRequest(r)
    BY <1>2, SentWritten
<1>5. /\ method = <<r.method>> /\ uri = UriText(r) /\ HeadersAre(r, headers)
      /\ body \o Left = FormText(r.form) /\ length = Len(FormText(r.form))
    BY <1>3, <1>4 DEF BodyToCome
<1>6. PICK F \in Seq(Chars), c \in Chars, Z \in Seq(Chars), B \in Seq(Chars), x \in Seq(Chars) :
         F = FormText(r.form) /\ c = input /\ Z = Left' /\ B = body /\ x = <<c>>
    BY <1>1, <1>4, HeadersTyped, Advances, Letters DEF Typed
<1>7. Left = x \o Z
    <2>1. Begins(Left, c, Z)
        BY <1>1, <1>6, Advances
    <2> QED BY <1>6, <2>1 DEF Begins
<1>8. PICK D \in Seq(Chars) : D = body' /\ D = B \o x
    <2>1. Append(B, c) = B \o <<c>> /\ Append(B, c) \in Seq(Chars)
        BY AppendProperties
    <2> QED BY <1>1, <1>6, <2>1
<1>9. D \o Z = F
    <2>1. Assoc(B, x, Z)
        BY Associates
    <2> QED BY <1>5, <1>6, <1>7, <1>8, <2>1 DEF Assoc
<1>10. Len(D) = Len(F) <=> Z = <<>>
    <2>1. Len(D \o Z) = Len(D) + Len(Z) /\ Len(D) \in Nat /\ Len(Z) \in Nat
        BY ConcatProperties, LenProperties
    <2>2. Z = <<>> <=> Len(Z) = 0
        BY EmptySeq
    <2> QED BY <1>9, <2>1, <2>2
<1>11. verdict' = IF Z = <<>> THEN "complete" ELSE "more"
    BY <1>1, <1>5, <1>6, <1>8, <1>10
<1>12. CASE Z = <<>>
    <2>1. D = F
        <3>1. D \o <<>> = D
            BY ConcatEmptySeq
        <3> QED BY <1>9, <1>12, <3>1
    <2>2. PICK hs : hs = headers /\ HeadersAre(r, hs)
        BY <1>5
    <2>3. verdict' = "complete"
        BY <1>11, <1>12
    <2>4. final' = FinalDecode(hs, D) /\ body' = D /\ D = FormText(r.form)
        BY <1>1, <1>6, <1>8, <2>1, <2>2, <2>3
    <2>5. headers' = hs /\ method' = <<r.method>> /\ sent' = r
        BY <1>1, <1>4, <1>5, <2>2
    <2>6. WasSent'
        BY <1>4, <1>5, <2>2, <2>4, <2>5, ResultIs
    <2> QED BY <1>1, <1>3, <1>6, <1>12, <2>3, <2>6 DEF OnTheWay
<1>13. CASE Z # <<>>
    <2>1. verdict' = "more"
        BY <1>11, <1>13
    <2>2. BodyToCome'
        BY <1>1, <1>4, <1>5, <1>6, <1>8, <1>9, <1>13 DEF BodyToCome
    <2> QED BY <1>1, <1>3, <2>1, <2>2 DEF OnTheWay
<1> QED BY <1>12, <1>13

LEMMA RestReads ==
    ASSUME Typed, OnTheWay, Garble \/ Refuse \/ UNCHANGED vars PROVE OnTheWay'
<1>1. CASE Garble
    BY <1>1 DEF Garble, OnTheWay
<1>2. CASE Refuse
    <2>1. garbled' = garbled
        BY <1>2 DEF Refuse, client
    <2>2. CASE ~garbled
        BY <1>2, <2>2, NotRefused
    <2>3. CASE garbled
        BY <2>1, <2>3 DEF OnTheWay
    <2> QED BY <2>2, <2>3
<1>3. CASE UNCHANGED vars
    <2>1. /\ sent' = sent /\ wire' = wire /\ pos' = pos /\ garbled' = garbled /\ state' = state
          /\ verdict' = verdict /\ method' = method /\ uri' = uri /\ headers' = headers /\ body' = body
          /\ name' = name /\ value' = value /\ length' = length /\ final' = final
        BY <1>3 DEF vars, client, line, current
    <2>2. Left' = Left
        BY <2>1 DEF Left, After
    <2>3. HeadToCome' <=> HeadToCome
        BY <2>1, <2>2 DEF HeadToCome
    <2>4. BodyToCome' <=> BodyToCome
        BY <2>1, <2>2 DEF BodyToCome
    <2>5. WasSent' <=> WasSent
        BY <2>1 DEF WasSent
    <2> QED BY <2>1, <2>2, <2>3, <2>4, <2>5 DEF OnTheWay
<1> QED BY <1>1, <1>2, <1>3

LEMMA OnTheWayReads ==
    ASSUME Typed, OnTheWay PROVE ReadsAsSent
<1>1. SUFFICES ASSUME ~garbled PROVE ReadsAsSent
    BY DEF ReadsAsSent
<1>2. IsRequest(sent)
    BY <1>1, SentWritten
<1>3. verdict = "more" => Left # <<>>
    <2>1. ASSUME HeadToCome PROVE Left # <<>>
        <3>1. /\ state \in HeadStates \cup {"expecting_newline_3"}
              /\ Ahead(sent, state, method, uri, headers, name, value, Left)
            BY <2>1 DEF HeadToCome
        <3> QED BY <1>2, <3>1, AheadNotEmpty
    <2>2. ASSUME BodyToCome PROVE Left # <<>>
        BY <2>2 DEF BodyToCome
    <2> QED BY <1>1, <2>1, <2>2 DEF OnTheWay
<1>4. verdict \in {"more", "complete"} /\ (verdict = "complete" => Left = <<>> /\ WasSent)
    BY <1>1 DEF OnTheWay
<1>5. Left = <<>> <=> pos = Len(wire)
    BY LeftTyped
<1>6. verdict = IF pos = Len(wire) THEN "complete" ELSE "more"
    BY <1>3, <1>4, <1>5
<1>7. WasSent => \A i \in DOMAIN sent.headers :
                    LET n == Upper(<<sent.headers[i].name>>)
                    IN  headers[n] = Decode(ValueOf(sent, n[1]))
    BY DEF WasSent, HeadersAre, UpName
<1> QED BY <1>1, <1>4, <1>6, <1>7 DEF ReadsAsSent, WasSent

\* A request that arrives unchanged is accepted with its last character, not earlier, and
\* perform_final_decode yields the path, the variables and the ticket that the client wrote,
\* the body it sent, and each header with all the lines of its value.
THEOREM ReadsAsSentEver == Spec => []ReadsAsSent
<1>1. Init => Typed /\ OnTheWay
    BY InitOK, InitReads DEF IInv
<1>2. IInv /\ IInv' /\ OnTheWay /\ [Next]_vars => OnTheWay'
    <2>1. SUFFICES ASSUME IInv, OnTheWay, [Next]_vars PROVE OnTheWay'
        OBVIOUS
    <2>2. Typed
        BY <2>1 DEF IInv
    <2> QED BY <2>1, <2>2, MoveReads, StartHeaderReads, FoldHeaderReads, EndHeadersReads, ReadBodyReads,
               RestReads DEF Next
<1>3. IInv /\ OnTheWay => ReadsAsSent
    BY OnTheWayReads DEF IInv
<1>4. Init => OnTheWay
    BY <1>1
<1> QED BY <1>2, <1>3, <1>4, Invariant, PTL DEF Spec

==============================================================================
