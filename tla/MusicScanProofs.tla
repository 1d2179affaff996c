--------------------------- MODULE MusicScanProofs ---------------------------
(***************************************************************************)
(* What the tables of MusicScan keep and what a scan leaves in them:       *)
(* proved for any paths, roots and depth, any number of changes, crashes   *)
(* and starts.                                                             *)
(*                                                                         *)
(* The first invariant describes the stack of activations: each is of a    *)
(* child of the directory below it, and a destroy knows all that is left   *)
(* of its directory (Remains), so that nothing is in a directory that      *)
(* goes.  The second one says what each activation has seen of a file      *)
(* system that does not change, and the third one which entries may have   *)
(* a second row.  The last one follows a whole scan over such a file       *)
(* system: which rows it has not reached yet, and what holds of the rest.  *)
(***************************************************************************)
EXTENDS MusicScan, NumberFacts, SequenceTheorems

\* The rows under a directory, in any state of the tables.
Under(D, d) == {k \in DOMAIN D : D[k].parent = d}
In(S, d) == {k \in DOMAIN S : S[k].dir = d}

\* NoOrphans, of any tables, and a root that is configured has one row.
Rooted(D, S) ==
    /\ \A d \in DOMAIN D : D[d].parent \in (DOMAIN D \cap 1..(d-1)) \cup {0}
    /\ \A s \in DOMAIN S : S[s].dir \in DOMAIN D
RootsApart(D) == \A d, e \in DOMAIN D : D[d].parent = 0 /\ D[d] = D[e] => d = e

TablesOK(D, S) == Bounded(D) /\ Bounded(S) /\ Rooted(D, S) /\ RootsApart(D)

\* What an activation has on its lists.
OnLists(f, D, S) == f.dirs \subseteq Under(D, f.id) /\ f.songs \subseteq In(S, f.id)

FrameOK(f, D, S) ==
    /\ f.id \in DOMAIN D
    /\ f.mode # "enter" => OnLists(f, D, S)
    /\ f.mode = "destroy" => In(S, f.id) \subseteq f.songs

\* f has called g.
LinkOK(f, g, D) ==
    /\ D[g.id].parent = f.id
    /\ g.id \notin f.dirs
    /\ f.mode # "enter"
    /\ f.mode = "destroy" => g.mode = "destroy" /\ Under(D, f.id) \subseteq f.dirs \cup {g.id}

\* A destroy that has called none has all that is left on its list.
Remains(f, D) == f.mode = "destroy" => Under(D, f.id) \subseteq f.dirs

StackOK(t, D, S) ==
    /\ t \in Seq(Frames)
    /\ \A i \in 1..Len(t) : FrameOK(t[i], D, S)
    /\ \A i \in 1..(Len(t) - 1) : LinkOK(t[i], t[i + 1], D)
    /\ \A i, j \in 1..Len(t) : i < j => t[i].id < t[j].id
    /\ t # <<>> => Remains(t[Len(t)], D)

IInv == TablesOK(dirs, songs) /\ StackOK(stack, dirs, songs)

------------------------------------------------------------------------------
(* Sequences.                                                              *)

LEMMA TopReturns ==
    ASSUME NEW F, NEW t \in Seq(F), t # <<>>
    PROVE  /\ Len(t) \in Nat \ {0}
           /\ Front(t) \in Seq(F) /\ Len(Front(t)) = Len(t) - 1
           /\ \A i \in 1..(Len(t) - 1) : Front(t)[i] = t[i]
<1>1. Len(t) \in Nat \ {0}
    OBVIOUS
<1>2. 1 \in Int /\ Len(t) - 1 \in 0..Len(t)
    BY <1>1
<1>3. /\ SubSeq(t, 1, Len(t) - 1) \in Seq(F)
      /\ Len(SubSeq(t, 1, Len(t) - 1)) = Len(t) - 1
      /\ \A i \in 1..(Len(t) - 1) : SubSeq(t, 1, Len(t) - 1)[i] = t[i]
    <2>1. PICK n \in Int : n = Len(t) - 1 /\ n \in Nat
        BY <1>1
    <2>2. \A i \in 1..n : t[i] \in F
        <3>1. \A i \in 1..n : i \in 1..Len(t)
            BY <1>1, <2>1
        <3> QED BY <3>1, ElementOfSeq
    <2>3. /\ SubSeq(t, 1, n) \in Seq(F)
          /\ Len(SubSeq(t, 1, n)) = IF 1 <= n THEN n - 1 + 1 ELSE 0
          /\ \A i \in 1..(n - 1 + 1) : SubSeq(t, 1, n)[i] = t[1 + i - 1]
        BY <1>2, <2>2, SubSeqProperties
    <2>4. n - 1 + 1 = n /\ \A i \in 1..n : 1 + i - 1 = i
        BY <2>1
    <2> QED BY <2>1, <2>3, <2>4
<1> QED BY <1>1, <1>3 DEF Front

LEMMA TopReplaced ==
    ASSUME NEW F, NEW t \in Seq(F), t # <<>>, NEW x \in F
    PROVE  /\ Append(Front(t), x) \in Seq(F) /\ Len(Append(Front(t), x)) = Len(t)
           /\ \A i \in 1..(Len(t) - 1) : Append(Front(t), x)[i] = t[i]
           /\ Append(Front(t), x)[Len(t)] = x
<1> DEFINE below == Front(t)
<1>1. /\ Len(t) \in Nat \ {0}
      /\ below \in Seq(F) /\ Len(below) = Len(t) - 1
      /\ \A i \in 1..(Len(t) - 1) : below[i] = t[i]
    BY TopReturns
<1> HIDE DEF below
<1>2. Append(below, x) \in Seq(F) /\ Len(Append(below, x)) = Len(t)
    BY <1>1
<1>3. \A i \in 1..(Len(t) - 1) : Append(below, x)[i] = t[i]
    BY <1>1
<1>4. Append(below, x)[Len(t)] = x
    BY <1>1
<1> QED BY <1>2, <1>3, <1>4 DEF below

LEMMA TopCalls ==
    ASSUME NEW F, NEW t \in Seq(F), t # <<>>, NEW x \in F, NEW y \in F
    PROVE  LET u == Front(t) \o <<x, y>> IN
           /\ u \in Seq(F) /\ Len(u) = Len(t) + 1
           /\ \A i \in 1..(Len(t) - 1) : u[i] = t[i]
           /\ u[Len(t)] = x /\ u[Len(t) + 1] = y
<1> DEFINE below == Front(t)
           two == <<x, y>>
<1>1. /\ Len(t) \in Nat \ {0}
      /\ below \in Seq(F) /\ Len(below) = Len(t) - 1
      /\ \A i \in 1..(Len(t) - 1) : below[i] = t[i]
    BY TopReturns
<1>2. two \in Seq(F) /\ Len(two) = 2 /\ two[1] = x /\ two[2] = y
    OBVIOUS
<1> HIDE DEF below, two
<1>3. below \o two \in Seq(F) /\ Len(below \o two) = Len(t) + 1
    <2>1. /\ below \o two \in Seq(F)
          /\ Len(below \o two) = Len(below) + Len(two)
        BY <1>1, <1>2, ConcatProperties
    <2> QED BY <1>1, <1>2, <2>1
<1>4. \A i \in 1..(Len(t) - 1) : (below \o two)[i] = t[i]
    BY <1>1, <1>2, ConcatProperties
<1>5. (below \o two)[Len(t)] = x /\ (below \o two)[Len(t) + 1] = y
    <2>1. /\ (below \o two)[Len(t)] = two[Len(t) - Len(below)]
          /\ (below \o two)[Len(t) + 1] = two[Len(t) + 1 - Len(below)]
        <3>1. \A i \in 1..(Len(below) + Len(two)) :
                 (below \o two)[i] = IF i <= Len(below) THEN below[i] ELSE two[i - Len(below)]
            BY <1>1, <1>2, ConcatProperties
        <3>2. /\ Len(t) \in 1..(Len(below) + Len(two)) /\ ~(Len(t) <= Len(below))
              /\ Len(t) + 1 \in 1..(Len(below) + Len(two)) /\ ~(Len(t) + 1 <= Len(below))
            BY <1>1, <1>2
        <3> QED BY <3>1, <3>2
    <2>2. Len(t) - Len(below) = 1 /\ Len(t) + 1 - Len(below) = 2
        BY <1>1
    <2> QED BY <1>2, <2>1, <2>2
<1> QED BY <1>3, <1>4, <1>5 DEF below, two

------------------------------------------------------------------------------
(* The stack.                                                              *)

\* An activation does not notice what happens in other directories.
LEMMA FrameKept ==
    ASSUME NEW f, NEW D, NEW S, NEW D2, NEW S2, FrameOK(f, D, S), f.id \in DOMAIN D2,
           Under(D2, f.id) = Under(D, f.id), \A k \in Under(D, f.id) : D2[k] = D[k],
           In(S2, f.id) = In(S, f.id), \A k \in In(S, f.id) : S2[k] = S[k]
    PROVE  FrameOK(f, D2, S2)
BY DEF FrameOK, OnLists

LEMMA LinkKept ==
    ASSUME NEW f, NEW g, NEW D, NEW D2, LinkOK(f, g, D), D2[g.id] = D[g.id],
           Under(D2, f.id) = Under(D, f.id)
    PROVE  LinkOK(f, g, D2)
BY DEF LinkOK

\* The activation on top goes on.
LEMMA GoesOn ==
    ASSUME NEW t, NEW D, NEW S, NEW S2, StackOK(t, D, S), t # <<>>, NEW g \in Frames,
           g.id = t[Len(t)].id, FrameOK(g, D, S2), Remains(g, D),
           t[Len(t)].mode = "destroy" => g.mode = "destroy",
           \A i \in 1..(Len(t) - 1) : FrameOK(t[i], D, S2)
    PROVE  StackOK(Append(Front(t), g), D, S2)
<1> DEFINE u == Append(Front(t), g)
           n == Len(t)
<1>1. /\ u \in Seq(Frames) /\ Len(u) = n /\ u[n] = g /\ n \in Nat \ {0}
      /\ \A i \in 1..(n - 1) : u[i] = t[i]
    BY TopReplaced DEF StackOK
<1> HIDE DEF u
<1>2. \A i \in 1..n : FrameOK(u[i], D, S2)
    BY <1>1
<1>3. ASSUME NEW i \in 1..(n - 1) PROVE LinkOK(u[i], u[i + 1], D)
    <2>1. LinkOK(t[i], t[i + 1], D) /\ u[i] = t[i]
        BY <1>1 DEF StackOK
    <2>2. CASE i + 1 = n
        BY <1>1, <2>1, <2>2 DEF LinkOK
    <2>3. CASE i + 1 # n
        BY <1>1, <2>1, <2>3
    <2> QED BY <2>2, <2>3
<1>4. \A i \in 1..n : u[i].id = t[i].id
    BY <1>1
<1> QED BY <1>1, <1>2, <1>3, <1>4 DEF StackOK, u

\* The activation on top calls another.
LEMMA Calls ==
    ASSUME NEW t, NEW D, NEW S, NEW D2, StackOK(t, D, S), t # <<>>,
           NEW n, n = Len(t), NEW g \in Frames, NEW h \in Frames,
           g.id = t[n].id, g.mode = t[n].mode, g.id < h.id,
           FrameOK(g, D2, S), FrameOK(h, D2, S), LinkOK(g, h, D2), Remains(h, D2),
           \A i \in 1..(n - 1) : FrameOK(t[i], D2, S) /\ LinkOK(t[i], t[i + 1], D2)
    PROVE  StackOK(Front(t) \o <<g, h>>, D2, S)
<1>1. PICK u : /\ u = Front(t) \o <<g, h>>
               /\ u \in Seq(Frames) /\ Len(u) = n + 1 /\ u[n] = g /\ u[n + 1] = h
               /\ \A i \in 1..(n - 1) : u[i] = t[i]
    <2> DEFINE v == Front(t) \o <<g, h>>
    <2>1. t \in Seq(Frames)
        BY DEF StackOK
    <2>2. /\ v \in Seq(Frames) /\ Len(v) = Len(t) + 1
          /\ \A i \in 1..(Len(t) - 1) : v[i] = t[i]
          /\ v[Len(t)] = g /\ v[Len(t) + 1] = h
        BY <2>1, TopCalls
    <2> HIDE DEF v
    <2>3. /\ v \in Seq(Frames) /\ Len(v) = n + 1 /\ v[n] = g /\ v[n + 1] = h
          /\ \A i \in 1..(n - 1) : v[i] = t[i]
        BY <2>2
    <2> QED BY <2>3 DEF v
<1>2. n \in Nat \ {0}
    BY DEF StackOK
<1>3. \A i \in 1..(n + 1) : i \in 1..(n - 1) \/ i = n \/ i = n + 1
    BY <1>2
<1>4. \A i \in 1..(n + 1) : FrameOK(u[i], D2, S)
    BY <1>1, <1>3
<1>5. ASSUME NEW i \in 1..n PROVE LinkOK(u[i], u[i + 1], D2)
    <2>1. CASE i = n
        BY <1>1, <2>1
    <2>2. CASE i = n - 1
        <3>1. i \in 1..(n - 1) /\ i + 1 = n
            BY <1>2, <2>2
        <3>2. u[i] = t[i] /\ u[i + 1] = g /\ LinkOK(t[i], t[n], D2)
            BY <1>1, <3>1
        <3> QED BY <3>2 DEF LinkOK
    <2>3. CASE i < n - 1
        <3>1. i \in 1..(n - 1) /\ i + 1 \in 1..(n - 1)
            BY <1>2, <2>3
        <3> QED BY <1>1, <3>1
    <2> QED BY <1>2, <2>1, <2>2, <2>3
<1>6. \A i \in 1..n : u[i].id = t[i].id
    <2>1. \A i \in 1..n : i \in 1..(n - 1) \/ i = n
        BY <1>2
    <2> QED BY <1>1, <2>1
<1>7. \A i, j \in 1..n : i < j => t[i].id < t[j].id
    BY DEF StackOK
<1>8. ASSUME NEW i \in 1..n PROVE u[i].id < h.id
    <2>1. n \in 1..n /\ (i = n \/ i < n)
        BY <1>2
    <2>2. t[i] \in Frames /\ t[n] \in Frames
        BY <2>1 DEF StackOK
    <2>3. u[i].id = t[i].id /\ t[i].id \in Nat /\ t[n].id \in Nat /\ h.id \in Nat
        BY <1>6, <2>2 DEF Frames
    <2>4. t[i].id <= t[n].id
        BY <1>7, <2>1, <2>3
    <2> QED BY <2>3, <2>4
<1>9. ASSUME NEW i \in 1..(n + 1), NEW j \in 1..(n + 1), i < j PROVE u[i].id < u[j].id
    <2>1. i \in 1..n /\ (j = n + 1 \/ j \in 1..n)
        BY <1>2, <1>9
    <2>2. CASE j = n + 1
        BY <1>1, <1>8, <2>1, <2>2
    <2>3. CASE j \in 1..n
        BY <1>6, <1>7, <1>9, <2>1, <2>3
    <2> QED BY <2>1, <2>2, <2>3
<1>10. Len(u) - 1 = n
    BY <1>1, <1>2
<1> QED BY <1>1, <1>4, <1>5, <1>9, <1>10 DEF StackOK

\* The activation on top returns.
LEMMA Returns ==
    ASSUME NEW t, NEW D, NEW S, NEW D2, StackOK(t, D, S), t # <<>>,
           \A i \in 1..(Len(t) - 1) : FrameOK(t[i], D2, S),
           \A i \in 1..(Len(t) - 2) : LinkOK(t[i], t[i + 1], D2),
           Len(t) > 1 => Remains(t[Len(t) - 1], D2)
    PROVE  StackOK(Front(t), D2, S)
<1> DEFINE u == Front(t)
           n == Len(t)
<1>1. /\ u \in Seq(Frames) /\ Len(u) = n - 1 /\ n \in Nat \ {0}
      /\ \A i \in 1..(n - 1) : u[i] = t[i]
    BY TopReturns DEF StackOK
<1> HIDE DEF u
<1>2. \A i \in 1..(n - 1) : FrameOK(u[i], D2, S)
    BY <1>1
<1>3. \A i \in 1..(n - 2) : LinkOK(u[i], u[i + 1], D2)
    BY <1>1
<1>4. \A i, j \in 1..(n - 1) : i < j => u[i].id < u[j].id
    BY <1>1, SMTT(30) DEF StackOK
<1>5. u # <<>> => Remains(u[n - 1], D2)
    BY <1>1
<1> QED BY <1>1, <1>2, <1>3, <1>4, <1>5 DEF StackOK, u

------------------------------------------------------------------------------
(* The tables.                                                             *)

\* A row for a directory, and for a root that has none.
LEMMA DirInserted ==
    ASSUME NEW D, NEW S, TablesOK(D, S), NEW p \in DOMAIN D \cup {0},
           NEW row, row.parent = p, p = 0 => \A k \in DOMAIN D : D[k] # row
    PROVE  /\ TablesOK(Insert(D, row), S)
           /\ NewId(D) \in Nat \ {0} /\ NewId(D) \notin DOMAIN D /\ p < NewId(D)
<1> DEFINE D2 == Insert(D, row)
           id == NewId(D)
<1>1. /\ id \in Nat \ {0}
      /\ \A k \in DOMAIN D : k \in Nat /\ 0 < k /\ k < id
    BY NextRowid DEF NewId, TablesOK
<1>2. /\ DOMAIN D2 = DOMAIN D \cup {id} /\ D2[id] = row /\ row.parent = p
      /\ \A k \in DOMAIN D : D2[k] = D[k]
    BY <1>1 DEF Insert
<1> HIDE DEF D2, id
<1>3. id \notin DOMAIN D /\ p < id
    BY <1>1
<1>4. /\ \A d \in DOMAIN D : D[d].parent \in (DOMAIN D \cap 1..(d-1)) \cup {0}
      /\ \A s \in DOMAIN S : S[s].dir \in DOMAIN D
    BY DEF TablesOK, Rooted
<1>5. Bounded(D2)
    <2>1. DOMAIN D2 \subseteq 1..id
        BY <1>1, <1>2
    <2> QED BY <1>1, <2>1 DEF Bounded
<1>6. Rooted(D2, S)
    <2>1. p \in (DOMAIN D \cap 1..(id - 1)) \cup {0}
        BY <1>1
    <2>2. \A d \in DOMAIN D : D2[d].parent \in (DOMAIN D2 \cap 1..(d-1)) \cup {0}
        BY <1>2, <1>4
    <2>3. D2[id].parent \in (DOMAIN D2 \cap 1..(id-1)) \cup {0}
        BY <1>2, <2>1
    <2> QED BY <1>2, <1>4, <2>2, <2>3 DEF Rooted
<1>7. RootsApart(D2)
    BY <1>2 DEF TablesOK, RootsApart
<1> QED BY <1>1, <1>3, <1>5, <1>6, <1>7 DEF TablesOK, D2, id

LEMMA SongInserted ==
    ASSUME NEW D, NEW S, TablesOK(D, S), NEW d \in DOMAIN D,
           NEW row, row.dir = d
    PROVE  TablesOK(D, Insert(S, row)) /\ NewId(S) \in Nat \ {0} /\ NewId(S) \notin DOMAIN S
<1> DEFINE S2 == Insert(S, row)
           id == NewId(S)
<1>1. /\ id \in Nat \ {0}
      /\ \A k \in DOMAIN S : k \in Nat /\ 0 < k /\ k < id
    BY NextRowid DEF NewId, TablesOK
<1>2. /\ DOMAIN S2 = DOMAIN S \cup {id} /\ S2[id] = row
      /\ id \notin DOMAIN S /\ \A k \in DOMAIN S : S2[k] = S[k]
    BY <1>1 DEF Insert
<1> HIDE DEF S2, id
<1>3. Bounded(S2)
    <2>1. DOMAIN S2 \subseteq 1..id
        BY <1>1, <1>2
    <2> QED BY <1>1, <2>1 DEF Bounded
<1>4. Rooted(D, S2)
    BY <1>2 DEF TablesOK, Rooted
<1> QED BY <1>1, <1>2, <1>3, <1>4 DEF TablesOK, S2, id

LEMMA SongDeleted ==
    ASSUME NEW D, NEW S, TablesOK(D, S), NEW k PROVE TablesOK(D, Delete(S, k))
<1> DEFINE S2 == Delete(S, k)
<1>1. DOMAIN S2 = DOMAIN S \ {k} /\ \A s \in DOMAIN S2 : S2[s] = S[s]
    BY DEF Delete
<1> HIDE DEF S2
<1>2. Bounded(S2)
    BY <1>1 DEF TablesOK, Bounded
<1>3. Rooted(D, S2)
    BY <1>1 DEF TablesOK, Rooted
<1> QED BY <1>2, <1>3 DEF TablesOK, S2

\* The row of a directory that is empty.
LEMMA DirDeleted ==
    ASSUME NEW D, NEW S, TablesOK(D, S), NEW k, Under(D, k) = {}, In(S, k) = {}
    PROVE  TablesOK(Delete(D, k), S)
<1> DEFINE D2 == Delete(D, k)
<1>1. DOMAIN D2 = DOMAIN D \ {k} /\ \A d \in DOMAIN D2 : D2[d] = D[d]
    BY DEF Delete
<1> HIDE DEF D2
<1>2. Bounded(D2)
    BY <1>1 DEF TablesOK, Bounded
<1>3. Rooted(D2, S) /\ RootsApart(D2)
    BY <1>1 DEF TablesOK, Rooted, RootsApart, Under, In
<1> QED BY <1>2, <1>3 DEF TablesOK, D2

------------------------------------------------------------------------------
(* What the activations below do not notice.                               *)

LEMMA BelowKept ==
    ASSUME NEW t, NEW D, NEW S, NEW D2, NEW S2, NEW n, n = Len(t), t # <<>>,
           TablesOK(D, S), StackOK(t, D, S),
           \A d \in DOMAIN D : d < t[n].id =>
               d \in DOMAIN D2 /\ Under(D2, d) = Under(D, d) /\ In(S2, d) = In(S, d),
           \A k \in DOMAIN D \cap DOMAIN D2 : D2[k] = D[k],
           \A k \in DOMAIN S \cap DOMAIN S2 : S2[k] = S[k]
    PROVE  \A i \in 1..(n - 1) : FrameOK(t[i], D2, S2)
<1> SUFFICES ASSUME NEW i \in 1..(n - 1) PROVE FrameOK(t[i], D2, S2)
    OBVIOUS
<1>1. n \in Nat \ {0} /\ i \in 1..n /\ n \in 1..n /\ i < n
    BY DEF StackOK
<1>2. FrameOK(t[i], D, S) /\ t[i].id < t[n].id /\ t[i].id \in DOMAIN D
    BY <1>1 DEF StackOK, FrameOK
<1>3. /\ t[i].id \in DOMAIN D2 /\ Under(D2, t[i].id) = Under(D, t[i].id)
      /\ In(S2, t[i].id) = In(S, t[i].id)
    BY <1>2
<1>4. /\ \A k \in Under(D, t[i].id) : k \in DOMAIN D \cap DOMAIN D2
      /\ \A k \in In(S, t[i].id) : k \in DOMAIN S \cap DOMAIN S2
    BY <1>3 DEF Under, In
<1> QED BY <1>2, <1>3, <1>4, FrameKept

\* The activation on top, and those below.
LEMMA TopFacts ==
    ASSUME IInv, stack # <<>>
    PROVE  /\ Len(stack) \in Nat \ {0} /\ Top = stack[Len(stack)] /\ Top \in Frames
           /\ FrameOK(Top, dirs, songs) /\ Remains(Top, dirs)
           /\ Top.id \in DOMAIN dirs /\ Top.id \in Nat \ {0}
           /\ Children(Top.id) = Under(dirs, Top.id) /\ SongsOf(Top.id) = In(songs, Top.id)
           /\ \A i \in 1..(Len(stack) - 1) :
                 /\ FrameOK(stack[i], dirs, songs)
                 /\ LinkOK(stack[i], stack[i + 1], dirs)
                 /\ stack[i].id < Top.id
                 /\ stack[i].id \in DOMAIN dirs
<1>1. Len(stack) \in Nat \ {0} /\ Top = stack[Len(stack)]
    BY DEF IInv, StackOK, Top, Last
<1>2. Len(stack) \in 1..Len(stack) /\ \A i \in 1..(Len(stack) - 1) : i \in 1..Len(stack) /\ i < Len(stack)
    BY <1>1
<1>3. /\ Top \in Frames /\ FrameOK(Top, dirs, songs) /\ Remains(Top, dirs)
      /\ \A i \in 1..(Len(stack) - 1) :
            /\ FrameOK(stack[i], dirs, songs)
            /\ LinkOK(stack[i], stack[i + 1], dirs)
            /\ stack[i].id < Top.id
    BY <1>1, <1>2 DEF IInv, StackOK
<1>4. Top.id \in DOMAIN dirs /\ \A i \in 1..(Len(stack) - 1) : stack[i].id \in DOMAIN dirs
    BY <1>3 DEF FrameOK
<1>5. \A d \in DOMAIN dirs : d \in Nat \ {0}
    BY DEF IInv, TablesOK, Bounded
<1> QED BY <1>1, <1>3, <1>4, <1>5 DEF Children, SongsOf, Under, In

------------------------------------------------------------------------------
(* Every step keeps the invariant.                                         *)

\* Nothing is scanned, and the tables stay.
LEMMA EmptyStack ==
    ASSUME IInv, stack' = <<>>, UNCHANGED tables PROVE IInv'
<1>1. StackOK(<<>>, dirs, songs)
    BY DEF StackOK
<1> QED BY <1>1 DEF IInv, tables

\* An activation that knows what it did before keeps on knowing it.
LEMMA GoesOnHere ==
    ASSUME IInv, stack # <<>>, UNCHANGED tables, NEW g \in Frames, g.id = Top.id,
           Top.mode = "destroy" => g.mode = "destroy",
           FrameOK(g, dirs, songs), Remains(g, dirs), stack' = Append(Below, g)
    PROVE  IInv'
<1>1. /\ Top = stack[Len(stack)]
      /\ \A i \in 1..(Len(stack) - 1) : FrameOK(stack[i], dirs, songs)
    BY TopFacts
<1>2. StackOK(Append(Front(stack), g), dirs, songs)
    BY <1>1, GoesOn DEF IInv
<1> QED BY <1>2 DEF IInv, Below, tables

\* An activation that is no destroy returns and leaves the tables.
LEMMA ReturnsHere ==
    ASSUME IInv, stack # <<>>, UNCHANGED tables, Top.mode # "destroy", stack' = Below
    PROVE  IInv'
<1> DEFINE n == Len(stack)
<1>1. /\ Top = stack[n] /\ n \in Nat \ {0}
      /\ \A i \in 1..(n - 1) : FrameOK(stack[i], dirs, songs) /\ LinkOK(stack[i], stack[i + 1], dirs)
    BY TopFacts
<1>2. n > 1 => Remains(stack[n - 1], dirs)
    <2>1. n > 1 => LinkOK(stack[n - 1], stack[(n - 1) + 1], dirs) /\ (n - 1) + 1 = n
        BY <1>1
    <2> QED BY <1>1, <2>1 DEF LinkOK, Remains
<1>3. \A i \in 1..(n - 2) : LinkOK(stack[i], stack[i + 1], dirs)
    BY <1>1
<1>4. StackOK(Front(stack), dirs, songs)
    BY <1>1, <1>2, <1>3, Returns DEF IInv
<1> QED BY <1>4 DEF IInv, Below, tables

LEMMA SkipDirStep == ASSUME IInv, SkipDir PROVE IInv'
BY ReturnsHere DEF SkipDir, InFrame

\* The variables keep their types: the file system's by its changes, the tables'
\* and the stack's by the invariant.
Kinds ==
    /\ fs \in [Paths -> {"none", "dir", "song"}]
    /\ app \in {"down", "scanning", "done", "aborted", "failed"}
    /\ changes \in Nat /\ made \in [Paths -> 0..changes]
    /\ stable \in BOOLEAN /\ quiet \in BOOLEAN

\* The frame that begins to look at its directory.
Entered(f, c, o, e, d, s) ==
    [f EXCEPT !.mode = "sync", !.depth = c, !.opened = o, !.entries = e, !.dirs = d, !.songs = s]

LEMMA EnteredFrame ==
    ASSUME NEW f \in Frames, NEW c \in 0..DepthLimit, NEW o \in Nat, NEW e \in SUBSET Names,
           NEW d \in SUBSET Nat, NEW s \in SUBSET Nat
    PROVE  /\ Entered(f, c, o, e, d, s) \in Frames /\ Entered(f, c, o, e, d, s).id = f.id
           /\ Entered(f, c, o, e, d, s).mode = "sync" /\ Entered(f, c, o, e, d, s).depth = c
           /\ Entered(f, c, o, e, d, s).opened = o /\ Entered(f, c, o, e, d, s).entries = e
           /\ Entered(f, c, o, e, d, s).late = f.late
           /\ Entered(f, c, o, e, d, s).dirs = d /\ Entered(f, c, o, e, d, s).songs = s
BY DEF Frames, Entered

\* The depth does not wrap: one more than a depth that is under the limit is its own
\* remainder.
LEMMA Deeper ==
    ASSUME NEW f \in Frames, f.depth < DepthLimit
    PROVE  (f.depth + 1) % (DepthLimit + 1) = f.depth + 1 /\ f.depth + 1 \in 0..DepthLimit
<1>1. f.depth \in Nat /\ DepthLimit \in Nat
    BY DepthIsLimited DEF Frames
<1>2. f.depth + 1 \in Nat /\ DepthLimit + 1 \in Nat /\ f.depth + 1 < DepthLimit + 1
    BY <1>1
<1> QED BY <1>1, <1>2, SmallRemainder

\* What the iterator of an opened directory has to return.
Contents == {n \in Names : Entry(n) \in Paths /\ fs[Entry(n)] # "none"}

LEMMA EnterDirIs ==
    ASSUME EnterDir, Top \in Frames
    PROVE  stack' = Append(Below, Entered(Top, Top.depth + 1, changes, Contents,
                                          Children(Top.id), SongsOf(Top.id)))
<1>1. stack' = Append(Below, Entered(Top, (Top.depth + 1) % (DepthLimit + 1), changes, Contents,
                                     Children(Top.id), SongsOf(Top.id)))
    BY DEF EnterDir, Entered, Contents, Frames
<1> QED BY <1>1, Deeper DEF EnterDir

LEMMA EnterDirStep == ASSUME IInv, Kinds, EnterDir PROVE IInv'
<1>1. stack # <<>> /\ Top.mode = "enter" /\ UNCHANGED tables /\ Top.depth < DepthLimit
    BY DEF EnterDir, InFrame
<1>2. /\ Top \in Frames /\ Top.id \in DOMAIN dirs
      /\ Children(Top.id) = Under(dirs, Top.id) /\ SongsOf(Top.id) = In(songs, Top.id)
    BY <1>1, TopFacts
<1> DEFINE g == Entered(Top, Top.depth + 1, changes, Contents, Children(Top.id), SongsOf(Top.id))
<1>3. Children(Top.id) \in SUBSET Nat /\ SongsOf(Top.id) \in SUBSET Nat
    BY DEF IInv, TablesOK, Bounded, Children, SongsOf
<1>4. /\ g \in Frames /\ g.id = Top.id /\ g.mode = "sync"
      /\ g.dirs = Children(Top.id) /\ g.songs = SongsOf(Top.id)
    <2>1. PICK c \in 0..DepthLimit : c = Top.depth + 1
        BY <1>1, <1>2, Deeper
    <2>2. Contents \in SUBSET Names /\ changes \in Nat
        BY DEF Contents, Kinds
    <2> QED BY <1>2, <1>3, <2>1, <2>2, EnteredFrame
<1>5. stack' = Append(Below, g)
    BY <1>2, EnterDirIs
<1> HIDE DEF g
<1>6. FrameOK(g, dirs, songs) /\ Remains(g, dirs)
    BY <1>2, <1>4 DEF FrameOK, Remains, OnLists
<1> QED BY <1>1, <1>4, <1>5, <1>6, GoesOnHere

\* A frame with fewer rows to destroy.
LEMMA FewerRows ==
    ASSUME NEW f \in Frames, NEW d, NEW s
    PROVE  /\ [f EXCEPT !.dirs = @ \ {d}] \in Frames
           /\ [f EXCEPT !.dirs = @ \ {d}].id = f.id
           /\ [f EXCEPT !.dirs = @ \ {d}].mode = f.mode
           /\ [f EXCEPT !.dirs = @ \ {d}].depth = f.depth
           /\ [f EXCEPT !.dirs = @ \ {d}].opened = f.opened
           /\ [f EXCEPT !.dirs = @ \ {d}].entries = f.entries
           /\ [f EXCEPT !.dirs = @ \ {d}].late = f.late
           /\ [f EXCEPT !.dirs = @ \ {d}].dirs = f.dirs \ {d}
           /\ [f EXCEPT !.dirs = @ \ {d}].songs = f.songs
           /\ [f EXCEPT !.songs = @ \ {s}] \in Frames
           /\ [f EXCEPT !.songs = @ \ {s}].id = f.id
           /\ [f EXCEPT !.songs = @ \ {s}].mode = f.mode
           /\ [f EXCEPT !.songs = @ \ {s}].depth = f.depth
           /\ [f EXCEPT !.songs = @ \ {s}].opened = f.opened
           /\ [f EXCEPT !.songs = @ \ {s}].entries = f.entries
           /\ [f EXCEPT !.songs = @ \ {s}].late = f.late
           /\ [f EXCEPT !.songs = @ \ {s}].dirs = f.dirs
           /\ [f EXCEPT !.songs = @ \ {s}].songs = f.songs \ {s}
BY DEF Frames

\* f has had an entry taken from it: one that was there when it was opened, or one
\* that was made since.
TakenFrom(f, top, n) ==
    /\ f \in Frames /\ f.id = top.id /\ f.mode = "sync" /\ f.depth = top.depth
    /\ f.opened = top.opened /\ f.dirs = top.dirs /\ f.songs = top.songs
    /\ \/ n \in top.entries /\ f.entries = top.entries \ {n} /\ f.late = top.late
       \/ /\ f.entries = top.entries
          /\ Entry(n) \in Paths /\ made[Entry(n)] > top.opened

LEMMA Taken ==
    ASSUME IInv, Kinds, NEW n, NEW kind, NEW f, Visits(n, kind, f)
    PROVE  /\ stack # <<>> /\ Top.mode = "sync" /\ Top \in Frames /\ fs[Entry(n)] = kind
           /\ TakenFrom(f, Top, n)
           /\ FrameOK(f, dirs, songs) /\ Remains(f, dirs)
<1>1. /\ stack # <<>> /\ Top.mode = "sync" /\ fs[Entry(n)] = kind
      /\ f \in Listed(n) \cup Late(n)
    BY DEF Visits, InFrame
<1>2. PICK t \in Frames : t = Top /\ FrameOK(t, dirs, songs)
    BY <1>1, TopFacts
<1>3. TakenFrom(f, Top, n)
    <2>1. CASE f \in Listed(n)
        <3>1. n \in t.entries /\ f = [t EXCEPT !.entries = @ \ {n}]
            BY <1>2, <2>1 DEF Listed
        <3> QED BY <1>1, <1>2, <3>1 DEF TakenFrom, Frames
    <2>2. CASE f \in Late(n)
        <3>1. PICK k : k = made[Entry(n)]
            OBVIOUS
        <3>2. Entry(n) \in Paths /\ k > t.opened /\ f = [t EXCEPT !.late = @ \cup {k}]
            BY <1>2, <2>2, <3>1 DEF Late
        <3>3. k \in Nat
            BY <3>1, <3>2 DEF Kinds
        <3>4. /\ f \in Frames /\ f.id = t.id /\ f.mode = t.mode /\ f.depth = t.depth
              /\ f.opened = t.opened /\ f.dirs = t.dirs /\ f.songs = t.songs
              /\ f.entries = t.entries
            BY <3>2, <3>3 DEF Frames
        <3> QED BY <1>1, <1>2, <3>1, <3>2, <3>4 DEF TakenFrom
    <2> QED BY <1>1, <2>1, <2>2
<1>4. FrameOK(f, dirs, songs) /\ Remains(f, dirs)
    BY <1>1, <1>2, <1>3 DEF TakenFrom, FrameOK, OnLists, Remains
<1> QED BY <1>1, <1>2, <1>3, <1>4

LEMMA VisitKnownSongStep == ASSUME IInv, Kinds, NEW n, NEW f, VisitKnownSong(n, f) PROVE IInv'
<1>1. /\ stack # <<>> /\ Top.mode = "sync" /\ UNCHANGED tables
      /\ TakenFrom(f, Top, n) /\ FrameOK(f, dirs, songs)
    BY Taken DEF VisitKnownSong
<1>2. PICK s : stack' = Append(Below, [f EXCEPT !.songs = @ \ {s}])
    BY DEF VisitKnownSong
<1> DEFINE g == [f EXCEPT !.songs = @ \ {s}]
<1>3. f \in Frames /\ f.id = Top.id /\ f.mode = "sync"
    BY <1>1 DEF TakenFrom
<1>4. /\ g \in Frames /\ g.id = Top.id /\ g.mode = "sync" /\ g.dirs = f.dirs
      /\ g.songs = f.songs \ {s}
    BY <1>3, FewerRows
<1>5. stack' = Append(Below, g)
    BY <1>2
<1> HIDE DEF g
<1>6. FrameOK(g, dirs, songs) /\ Remains(g, dirs)
    BY <1>1, <1>3, <1>4 DEF FrameOK, OnLists, Remains
<1> QED BY <1>1, <1>4, <1>5, <1>6, GoesOnHere

LEMMA VisitVanishingStep == ASSUME IInv, Kinds, NEW n, NEW f, VisitVanishing(n, f) PROVE IInv'
<1>1. /\ stack # <<>> /\ Top.mode = "sync" /\ UNCHANGED tables /\ stack' = Append(Below, f)
      /\ TakenFrom(f, Top, n) /\ FrameOK(f, dirs, songs) /\ Remains(f, dirs)
    BY Taken DEF VisitVanishing
<1> QED BY <1>1, GoesOnHere DEF TakenFrom

\* A directory that has a row is entered or destroyed.
LEMMA CallsHere ==
    ASSUME IInv, stack # <<>>, UNCHANGED tables, NEW g \in Frames, NEW h \in Frames,
           g.id = Top.id, g.mode = Top.mode,
           FrameOK(g, dirs, songs), FrameOK(h, dirs, songs),
           LinkOK(g, h, dirs), Remains(h, dirs), stack' = Below \o <<g, h>>
    PROVE  IInv'
<1>1. /\ Top = stack[Len(stack)] /\ Top.id \in Nat \ {0}
      /\ \A i \in 1..(Len(stack) - 1) :
            FrameOK(stack[i], dirs, songs) /\ LinkOK(stack[i], stack[i + 1], dirs)
    BY TopFacts
<1>2. g.id < h.id
    <2>1. h.id \in DOMAIN dirs /\ dirs[h.id].parent = g.id
        BY DEF FrameOK, LinkOK
    <2>2. dirs[h.id].parent \in 1..(h.id - 1) \cup {0}
        BY <2>1 DEF IInv, TablesOK, Rooted
    <2>3. h.id \in Nat
        BY DEF Frames
    <2> QED BY <1>1, <2>1, <2>2, <2>3
<1>3. StackOK(Front(stack) \o <<g, h>>, dirs, songs)
    BY <1>1, <1>2, Calls DEF IInv
<1> QED BY <1>3 DEF IInv, Below, tables

LEMMA EnteringFrame ==
    ASSUME NEW id \in Nat, NEW c \in 0..DepthLimit
    PROVE  /\ Entering(id, c) \in Frames /\ Entering(id, c).id = id
           /\ Entering(id, c).mode = "enter"
BY DEF Entering, Frames

LEMMA VisitKnownDir ==
    ASSUME IInv, Kinds, NEW n, NEW f, Visits(n, "dir", f), NEW d \in KnownDirs(n),
           stack' = Below \o <<[f EXCEPT !.dirs = @ \ {d}], Entering(d, Top.depth)>>,
           UNCHANGED tables
    PROVE  IInv'
<1> DEFINE g == [f EXCEPT !.dirs = @ \ {d}]
           h == Entering(d, Top.depth)
<1>1. /\ stack # <<>> /\ Top.mode = "sync" /\ Top \in Frames
      /\ TakenFrom(f, Top, n) /\ FrameOK(f, dirs, songs)
    BY Taken
<1>2. f \in Frames /\ f.id = Top.id /\ f.mode = "sync" /\ f.dirs = Top.dirs
    BY <1>1 DEF TakenFrom
<1>3. /\ g \in Frames /\ g.id = Top.id /\ g.mode = "sync" /\ g.dirs = f.dirs \ {d}
      /\ g.songs = f.songs
    BY <1>2, FewerRows
<1>4. d \in Under(dirs, Top.id) /\ d \in Nat /\ Top.depth \in 0..DepthLimit
    BY <1>1, <1>2 DEF FrameOK, OnLists, Frames, KnownDirs
<1>5. h \in Frames /\ h.id = d /\ h.mode = "enter"
    BY <1>4, EnteringFrame
<1> HIDE DEF g, h
<1>6. FrameOK(g, dirs, songs) /\ FrameOK(h, dirs, songs) /\ Remains(h, dirs) /\ LinkOK(g, h, dirs)
    BY <1>1, <1>2, <1>3, <1>4, <1>5 DEF FrameOK, OnLists, Remains, LinkOK, Under
<1>7. stack' = Below \o <<g, h>>
    BY DEF g, h
<1> QED BY <1>1, <1>3, <1>5, <1>6, <1>7, CallsHere

LEMMA VisitNewDir ==
    ASSUME IInv, Kinds, NEW n, NEW g, Visits(n, "dir", g),
           NEW row, row.parent = Top.id, dirs' = Insert(dirs, row), songs' = songs,
           stack' = Below \o <<g, Entering(NewId(dirs), Top.depth)>>
    PROVE  IInv'
<1> DEFINE id == NewId(dirs)
           h == Entering(id, Top.depth)
<1>1. stack # <<>> /\ Top.mode = "sync" /\ TakenFrom(g, Top, n) /\ FrameOK(g, dirs, songs)
    BY Taken
<1>2. /\ g \in Frames /\ g.id = Top.id /\ g.mode = "sync"
    BY <1>1 DEF TakenFrom
<1>3. /\ Top \in Frames /\ FrameOK(Top, dirs, songs) /\ Top.id \in DOMAIN dirs
      /\ Top.id \in Nat \ {0} /\ Top = stack[Len(stack)] /\ Len(stack) \in Nat \ {0}
      /\ \A i \in 1..(Len(stack) - 1) :
            /\ FrameOK(stack[i], dirs, songs)
            /\ LinkOK(stack[i], stack[i + 1], dirs)
            /\ stack[i].id < Top.id /\ stack[i].id \in DOMAIN dirs
    BY <1>1, TopFacts
<1>5. /\ TablesOK(dirs', songs)
      /\ id \in Nat \ {0} /\ id \notin DOMAIN dirs /\ DOMAIN dirs' = DOMAIN dirs \cup {id}
      /\ Top.id < id
      /\ dirs'[id] = row /\ \A k \in DOMAIN dirs : dirs'[k] = dirs[k]
      /\ Under(dirs', Top.id) = Under(dirs, Top.id) \cup {id}
      /\ \A d \in DOMAIN dirs : d # Top.id => Under(dirs', d) = Under(dirs, d)
    <2>1. TablesOK(dirs, songs)
        BY DEF IInv
    <2> HIDE DEF h
    <2>2. Top.id \in DOMAIN dirs \cup {0}
        BY <1>3
    <2>3. /\ TablesOK(Insert(dirs, row), songs) /\ Top.id < NewId(dirs)
          /\ NewId(dirs) \in Nat \ {0} /\ NewId(dirs) \notin DOMAIN dirs
        BY <1>3, <2>1, <2>2, DirInserted
    <2> HIDE DEF id
    <2>4. id \in Nat \ {0} /\ id \notin DOMAIN dirs /\ Top.id < id
        BY <2>3 DEF id
    <2>5. /\ DOMAIN dirs' = DOMAIN dirs \cup {id} /\ dirs'[id] = row
          /\ \A k \in DOMAIN dirs : dirs'[k] = dirs[k]
        BY <2>4 DEF Insert, id
    <2>6. /\ Under(dirs', Top.id) = Under(dirs, Top.id) \cup {id}
          /\ \A d \in DOMAIN dirs : d # Top.id => Under(dirs', d) = Under(dirs, d)
        BY <2>4, <2>5 DEF Under
    <2> QED BY <2>3, <2>4, <2>5, <2>6
<1>6. h \in Frames /\ h.id = id /\ h.mode = "enter"
    <2>1. Top.depth \in 0..DepthLimit
        BY <1>3 DEF Frames
    <2> QED BY <1>5, <2>1, EnteringFrame
<1>7. stack' = Front(stack) \o <<g, h>>
    BY DEF Below
<1> HIDE DEF h, id
<1>8. FrameOK(g, dirs', songs)
    BY <1>1, <1>2, <1>3, <1>5 DEF FrameOK, OnLists
<1>9. FrameOK(h, dirs', songs) /\ Remains(h, dirs') /\ LinkOK(g, h, dirs')
    <2>1. id \notin g.dirs
        BY <1>1, <1>2, <1>5 DEF FrameOK, OnLists, Under
    <2> QED BY <1>2, <1>5, <1>6, <2>1 DEF FrameOK, Remains, LinkOK
<1>10. \A i \in 1..(Len(stack) - 1) : FrameOK(stack[i], dirs', songs)
    <2>1. \A d \in DOMAIN dirs : d < Top.id => d \in DOMAIN dirs' /\ Under(dirs', d) = Under(dirs, d)
        BY <1>3, <1>5
    <2> QED BY <1>1, <1>3, <1>5, <2>1, BelowKept DEF IInv
<1>11. ASSUME NEW i \in 1..(Len(stack) - 1) PROVE LinkOK(stack[i], stack[i + 1], dirs')
    <2>1. stack[i + 1].id \in DOMAIN dirs
        <3>1. i + 1 = Len(stack) \/ i + 1 \in 1..(Len(stack) - 1)
            BY <1>3
        <3> QED BY <1>3, <3>1
    <2>2. stack[i].id # Top.id
        BY <1>3
    <2> QED BY <1>3, <1>5, <2>1, <2>2, LinkKept
<1>12. g.id < h.id /\ g.mode = Top.mode
    BY <1>1, <1>2, <1>5, <1>6
<1>13. StackOK(Front(stack) \o <<g, h>>, dirs', songs)
    BY <1>1, <1>2, <1>3, <1>6, <1>8, <1>9, <1>10, <1>11, <1>12, Calls DEF IInv
<1> QED BY <1>5, <1>7, <1>13 DEF IInv

LEMMA VisitDirStep == ASSUME IInv, Kinds, NEW n, NEW f, VisitDir(n, f) PROVE IInv'
<1> DEFINE row == [parent |-> Top.id, name |-> n]
<1>1. Visits(n, "dir", f) /\ songs' = songs
    BY DEF VisitDir
<1>2. CASE KnownDirs(n) = {}
    <2>1. dirs' = Insert(dirs, row) /\ stack' = Below \o <<f, Entering(NewId(dirs), Top.depth)>>
        BY <1>2 DEF VisitDir
    <2>2. row.parent = Top.id
        OBVIOUS
    <2> HIDE DEF row
    <2> QED BY <1>1, <2>1, <2>2, VisitNewDir
<1>3. CASE KnownDirs(n) # {}
    <2>1. PICK d \in KnownDirs(n) :
            stack' = Below \o <<[f EXCEPT !.dirs = @ \ {d}], Entering(d, Top.depth)>>
        BY <1>3 DEF VisitDir
    <2>2. UNCHANGED tables
        BY <1>3 DEF VisitDir, tables
    <2> QED BY <1>1, <2>1, <2>2, VisitKnownDir
<1> QED BY <1>2, <1>3

\* The songs of the directory on top change, and nothing else.
LEMMA SongsChange ==
    ASSUME IInv, stack # <<>>, dirs' = dirs, TablesOK(dirs, songs'),
           \A k \in DOMAIN songs \cap DOMAIN songs' : songs'[k] = songs[k],
           \A d : d # Top.id => In(songs', d) = In(songs, d),
           NEW g \in Frames, g.id = Top.id, Top.mode = "destroy" => g.mode = "destroy",
           FrameOK(g, dirs, songs'), Remains(g, dirs), stack' = Append(Below, g)
    PROVE  IInv'
<1>1. Top = stack[Len(stack)] /\ Top.id \in Nat \ {0}
    BY TopFacts
<1>2. \A d \in DOMAIN dirs : d < Top.id => In(songs', d) = In(songs, d)
    BY <1>1
<1>3. \A i \in 1..(Len(stack) - 1) : FrameOK(stack[i], dirs, songs')
    BY <1>1, <1>2, BelowKept DEF IInv
<1>4. StackOK(Append(Front(stack), g), dirs, songs')
    BY <1>1, <1>3, GoesOn DEF IInv
<1> QED BY <1>4 DEF IInv, Below

LEMMA VisitNewSongStep == ASSUME IInv, Kinds, NEW n, NEW g, VisitNewSong(n, g) PROVE IInv'
<1> DEFINE row == [dir |-> Top.id, name |-> n]
           id == NewId(songs)
<1>1. /\ stack # <<>> /\ Top.mode = "sync" /\ dirs' = dirs /\ songs' = Insert(songs, row)
      /\ stack' = Append(Below, g)
      /\ TakenFrom(g, Top, n) /\ FrameOK(g, dirs, songs) /\ Remains(g, dirs)
    BY Taken DEF VisitNewSong
<1>2. Top.id \in DOMAIN dirs /\ g \in Frames /\ g.id = Top.id /\ g.mode = "sync"
    BY <1>1, TopFacts DEF TakenFrom
<1>3. row.dir = Top.id
    OBVIOUS
<1> HIDE DEF row
<1>4. TablesOK(dirs, songs') /\ id \notin DOMAIN songs
    <2>1. TablesOK(dirs, songs)
        BY DEF IInv
    <2> QED BY <1>1, <1>2, <1>3, <2>1, SongInserted
<1>5. /\ DOMAIN songs' = DOMAIN songs \cup {id} /\ songs'[id] = row
      /\ \A k \in DOMAIN songs : songs'[k] = songs[k]
    BY <1>1, <1>4 DEF Insert
<1> HIDE DEF id
<1>6. /\ In(songs', Top.id) = In(songs, Top.id) \cup {id}
      /\ \A d : d # Top.id => In(songs', d) = In(songs, d)
    BY <1>3, <1>4, <1>5 DEF In
<1>7. FrameOK(g, dirs, songs')
    BY <1>1, <1>2, <1>6 DEF FrameOK, OnLists
<1> QED BY <1>1, <1>2, <1>4, <1>5, <1>6, <1>7, SongsChange

\* The iterator is at its end.
Ended(f) == [f EXCEPT !.mode = "reap", !.opened = 0, !.entries = {}, !.late = {}]

LEMMA EndedFrame ==
    ASSUME NEW f \in Frames
    PROVE  /\ Ended(f) \in Frames /\ Ended(f).id = f.id /\ Ended(f).mode = "reap"
           /\ Ended(f).depth = f.depth /\ Ended(f).opened = 0 /\ Ended(f).entries = {}
           /\ Ended(f).dirs = f.dirs /\ Ended(f).songs = f.songs
BY DEF Ended, Frames

LEMMA LoopEndsStep == ASSUME IInv, LoopEnds PROVE IInv'
<1>1. /\ stack # <<>> /\ Top.mode = "sync" /\ UNCHANGED tables
      /\ stack' = Append(Below, Ended(Top))
    BY DEF LoopEnds, InFrame, Ended
<1>2. PICK f \in Frames : f = Top /\ FrameOK(f, dirs, songs)
    BY <1>1, TopFacts
<1>3. PICK g \in Frames : /\ g = Ended(f) /\ g.id = f.id /\ g.mode = "reap"
                          /\ g.dirs = f.dirs /\ g.songs = f.songs
    BY EndedFrame
<1>4. FrameOK(g, dirs, songs) /\ Remains(g, dirs)
    BY <1>1, <1>2, <1>3 DEF FrameOK, OnLists, Remains
<1> QED BY <1>1, <1>2, <1>3, <1>4, GoesOnHere

\* Rows are destroyed by destroy, or by sync when its loop has ended.
LEMMA ReapingTop ==
    ASSUME IInv, Reaping
    PROVE  /\ stack # <<>> /\ Top \in Frames /\ Top.mode # "enter"
           /\ Top.mode \in {"reap", "destroy"}
           /\ OnLists(Top, dirs, songs)
           /\ Top.mode = "destroy" => In(songs, Top.id) \subseteq Top.songs
           /\ Top.mode = "destroy" => Under(dirs, Top.id) \subseteq Top.dirs
           /\ Top.id \in DOMAIN dirs /\ Top.id \in Nat \ {0}
<1>1. stack # <<>> /\ Top.mode \in {"reap", "destroy"}
    BY DEF Reaping, InFrame
<1>2. /\ Top \in Frames /\ FrameOK(Top, dirs, songs) /\ Remains(Top, dirs)
      /\ Top.id \in DOMAIN dirs /\ Top.id \in Nat \ {0}
    BY <1>1, TopFacts
<1> QED BY <1>1, <1>2 DEF FrameOK, Remains

LEMMA ReapDirStep == ASSUME IInv, ReapDir PROVE IInv'
<1>1. PICK d \in Top.dirs :
        stack' = Below \o <<[Top EXCEPT !.dirs = @ \ {d}],
                            [Entering(d, 0) EXCEPT !.mode = "destroy", !.dirs = Children(d),
                                                   !.songs = SongsOf(d)]>>
    BY DEF ReapDir
<1> DEFINE g == [Top EXCEPT !.dirs = @ \ {d}]
           h == [Entering(d, 0) EXCEPT !.mode = "destroy", !.dirs = Children(d),
                                       !.songs = SongsOf(d)]
<1>2. Reaping /\ UNCHANGED tables
    BY DEF ReapDir
<1>3. /\ stack # <<>> /\ Top \in Frames /\ Top.mode # "enter" /\ OnLists(Top, dirs, songs)
      /\ Top.mode = "destroy" => In(songs, Top.id) \subseteq Top.songs
      /\ Top.mode = "destroy" => Under(dirs, Top.id) \subseteq Top.dirs
      /\ Top.id \in DOMAIN dirs
    BY <1>2, ReapingTop
<1>4. /\ g \in Frames /\ g.id = Top.id /\ g.mode = Top.mode /\ g.entries = Top.entries
      /\ g.dirs = Top.dirs \ {d} /\ g.songs = Top.songs
    BY <1>3, FewerRows
<1>5. d \in Under(dirs, Top.id) /\ d \in Nat
    BY <1>3 DEF OnLists, Frames
<1>6. /\ h \in Frames /\ h.id = d /\ h.mode = "destroy"
      /\ h.dirs = Under(dirs, d) /\ h.songs = In(songs, d)
    <2>1. Children(d) \in SUBSET Nat /\ SongsOf(d) \in SUBSET Nat
        BY DEF IInv, TablesOK, Bounded, Children, SongsOf
    <2>2. PICK e \in Frames : e = Entering(d, 0) /\ e.id = d
        BY <1>5, DepthIsLimited, EnteringFrame
    <2>3. h = [e EXCEPT !.mode = "destroy", !.dirs = Children(d), !.songs = SongsOf(d)]
        BY <2>2
    <2> QED BY <2>1, <2>2, <2>3 DEF Frames, Children, SongsOf, Under, In
<1>7. stack' = Below \o <<g, h>>
    BY <1>1
<1> HIDE DEF g, h
<1>8. FrameOK(g, dirs, songs)
    BY <1>3, <1>4 DEF FrameOK, OnLists
<1>9. FrameOK(h, dirs, songs) /\ Remains(h, dirs)
    BY <1>5, <1>6 DEF FrameOK, OnLists, Remains, Under
<1>10. LinkOK(g, h, dirs)
    BY <1>3, <1>4, <1>5, <1>6 DEF LinkOK, Under
<1> QED BY <1>2, <1>3, <1>4, <1>6, <1>7, <1>8, <1>9, <1>10, CallsHere

LEMMA ReapSongStep == ASSUME IInv, ReapSong PROVE IInv'
<1>1. Reaping /\ dirs' = dirs
    BY DEF ReapSong
<1>2. PICK s \in Top.songs : /\ songs' = Delete(songs, s)
                             /\ stack' = Append(Below, [Top EXCEPT !.songs = @ \ {s}])
    BY DEF ReapSong
<1> DEFINE g == [Top EXCEPT !.songs = @ \ {s}]
<1>3. /\ stack # <<>> /\ Top \in Frames /\ Top.mode # "enter" /\ OnLists(Top, dirs, songs)
      /\ Top.mode = "destroy" => In(songs, Top.id) \subseteq Top.songs
      /\ Top.mode = "destroy" => Under(dirs, Top.id) \subseteq Top.dirs
      /\ Top.id \in DOMAIN dirs
    BY <1>1, ReapingTop
<1>4. /\ g \in Frames /\ g.id = Top.id /\ g.mode = Top.mode /\ g.entries = Top.entries
      /\ g.dirs = Top.dirs /\ g.songs = Top.songs \ {s}
    BY <1>3, FewerRows
<1>5. stack' = Append(Below, g)
    BY <1>2
<1> HIDE DEF g
<1>6. s \in In(songs, Top.id)
    BY <1>3 DEF OnLists
<1>7. TablesOK(dirs, songs')
    <2>1. TablesOK(dirs, songs)
        BY DEF IInv
    <2> QED BY <1>2, <2>1, SongDeleted
<1>8. DOMAIN songs' = DOMAIN songs \ {s} /\ \A k \in DOMAIN songs' : songs'[k] = songs[k]
    BY <1>2 DEF Delete
<1>9. /\ In(songs', Top.id) = In(songs, Top.id) \ {s}
      /\ \A d : d # Top.id => In(songs', d) = In(songs, d)
    BY <1>6, <1>8 DEF In
<1>10. FrameOK(g, dirs, songs') /\ Remains(g, dirs)
    BY <1>3, <1>4, <1>9 DEF FrameOK, OnLists, Remains
<1> QED BY <1>1, <1>3, <1>4, <1>5, <1>7, <1>8, <1>9, <1>10, SongsChange

\* The directory on top is empty and goes.
LEMMA DestroyReturns ==
    ASSUME IInv, Reaping, Top.dirs = {}, Top.songs = {}, Top.mode = "destroy",
           dirs' = Delete(dirs, Top.id), songs' = songs, stack' = Below
    PROVE  IInv'
<1> DEFINE n == Len(stack)
           k == Top.id
<1>1. /\ stack # <<>> /\ Under(dirs, k) = {} /\ In(songs, k) = {}
      /\ k \in DOMAIN dirs /\ k \in Nat \ {0}
    BY ReapingTop
<1>2. /\ n \in Nat \ {0} /\ Top = stack[n]
      /\ \A i \in 1..(n - 1) :
            /\ FrameOK(stack[i], dirs, songs)
            /\ LinkOK(stack[i], stack[i + 1], dirs)
            /\ stack[i].id < k /\ stack[i].id \in DOMAIN dirs
    BY <1>1, TopFacts
<1>3. \A i, j \in 1..n : i < j => stack[i].id < stack[j].id
    BY DEF IInv, StackOK
<1>4. TablesOK(dirs', songs)
    <2>1. TablesOK(dirs, songs)
        BY DEF IInv
    <2> QED BY <1>1, <2>1, DirDeleted
<1>5. DOMAIN dirs' = DOMAIN dirs \ {k} /\ \A d \in DOMAIN dirs' : dirs'[d] = dirs[d]
    BY DEF Delete
<1> HIDE DEF n, k
<1>6. \A d : Under(dirs', d) = Under(dirs, d) \ {k}
    BY <1>5 DEF Under
<1>7. \A d \in DOMAIN dirs : d \in Nat
    BY DEF IInv, TablesOK, Bounded
<1>8. \A i \in 1..(n - 1) : stack[i].id \in DOMAIN dirs' /\ stack[i].id \in Nat
    <2>1. ASSUME NEW i \in 1..(n - 1) PROVE stack[i].id # k /\ stack[i].id \in DOMAIN dirs
        BY <1>1, <1>2, <1>7
    <2> QED BY <1>5, <1>7, <2>1
<1>9. ASSUME NEW i \in 1..(n - 1) PROVE k \notin stack[i].dirs
    <2>1. CASE i = n - 1
        <3>1. i + 1 = n
            BY <1>2, <2>1
        <3> QED BY <1>2, <3>1 DEF LinkOK, k
    <2>2. CASE i < n - 1
        <3>1. n - 1 \in 1..(n - 1) /\ (n - 1) + 1 = n /\ n - 1 \in 1..n /\ i \in 1..n
            BY <1>2, <2>2
        <3>2. dirs[k].parent = stack[n - 1].id
            BY <1>2, <3>1 DEF LinkOK, k
        <3>3. stack[i].id # stack[n - 1].id
            BY <1>3, <1>8, <2>2, <3>1
        <3>4. FrameOK(stack[i], dirs, songs) /\ stack[i].mode # "enter"
            BY <1>2 DEF LinkOK
        <3> QED BY <3>2, <3>3, <3>4 DEF FrameOK, OnLists, Under
    <2> QED BY <1>2, <2>1, <2>2
<1>10. ASSUME NEW i \in 1..(n - 1) PROVE FrameOK(stack[i], dirs', songs)
    <2>1. FrameOK(stack[i], dirs, songs) /\ k \notin stack[i].dirs
        BY <1>2, <1>9
    <2>2. \A c \in Under(dirs', stack[i].id) : c \in Under(dirs, stack[i].id) /\ dirs'[c] = dirs[c]
        BY <1>5, <1>6 DEF Under
    <2> QED BY <1>6, <1>8, <2>1, <2>2 DEF FrameOK, OnLists
<1>11. ASSUME NEW i \in 1..(n - 2) PROVE LinkOK(stack[i], stack[i + 1], dirs')
    <2>1. i \in 1..(n - 1) /\ i + 1 \in 1..(n - 1)
        BY <1>2
    <2>2. LinkOK(stack[i], stack[i + 1], dirs) /\ stack[i + 1].id \in DOMAIN dirs'
        BY <1>2, <1>8, <2>1
    <2> QED BY <1>5, <1>6, <2>2 DEF LinkOK
<1>12. n > 1 => Remains(stack[n - 1], dirs')
    <2>1. n > 1 => LinkOK(stack[n - 1], stack[n], dirs)
        <3>1. n > 1 => n - 1 \in 1..(n - 1) /\ (n - 1) + 1 = n
            BY <1>2
        <3> QED BY <1>2, <3>1
    <2> QED BY <1>2, <1>6, <2>1 DEF LinkOK, Remains, k
<1>13. StackOK(Front(stack), dirs', songs)
    BY <1>1, <1>10, <1>11, <1>12, Returns DEF IInv, n
<1> QED BY <1>4, <1>13 DEF IInv, Below

LEMMA ReturnStep == ASSUME IInv, Return PROVE IInv'
<1>1. Reaping /\ Top.dirs = {} /\ Top.songs = {} /\ songs' = songs /\ stack' = Below
    BY DEF Return
<1>2. CASE Top.mode = "destroy"
    <2>1. dirs' = Delete(dirs, Top.id)
        BY <1>2 DEF Return
    <2> QED BY <1>1, <1>2, <2>1, DestroyReturns
<1>3. CASE Top.mode # "destroy"
    <2>1. UNCHANGED tables
        BY <1>1, <1>3 DEF Return, tables
    <2>2. stack # <<>>
        BY <1>1, ReapingTop
    <2> QED BY <1>1, <1>3, <2>1, <2>2, ReturnsHere
<1> QED BY <1>2, <1>3

LEMMA ScanRootStep == ASSUME IInv, ScanRoot PROVE IInv'
<1>1. ASSUME NEW D, NEW id \in DOMAIN D, id \in Nat PROVE StackOK(<<Entering(id, 0)>>, D, songs)
    <2>1. /\ Entering(id, 0) \in Frames /\ Entering(id, 0).id = id
          /\ Entering(id, 0).mode = "enter"
        BY <1>1, DepthIsLimited, EnteringFrame
    <2>2. FrameOK(Entering(id, 0), D, songs) /\ Remains(Entering(id, 0), D)
        BY <1>1, <2>1 DEF FrameOK, Remains
    <2>3. PICK f \in Frames : f = Entering(id, 0)
        BY <2>1
    <2>4. /\ <<f>> \in Seq(Frames) /\ Len(<<f>>) = 1 /\ <<f>>[1] = f
        OBVIOUS
    <2>5. StackOK(<<f>>, D, songs)
        BY <2>2, <2>3, <2>4 DEF StackOK
    <2> QED BY <2>3, <2>5
<1> DEFINE row == [parent |-> 0, name |-> Head(todo)]
           known == {d \in DOMAIN dirs : dirs[d] = row}
<1>2. songs' = songs /\ TablesOK(dirs, songs)
    BY DEF ScanRoot, IInv
<1>3. CASE known = {}
    <2>1. dirs' = Insert(dirs, row) /\ stack' = <<Entering(NewId(dirs), 0)>>
        BY <1>3 DEF ScanRoot
    <2>2. row.parent = 0 /\ 0 \in DOMAIN dirs \cup {0} /\ \A k \in DOMAIN dirs : dirs[k] # row
        BY <1>3
    <2> HIDE DEF row
    <2>3. TablesOK(dirs', songs) /\ NewId(dirs) \in Nat
        BY <1>2, <2>1, <2>2, DirInserted
    <2>4. NewId(dirs) \in DOMAIN dirs'
        BY <2>1 DEF Insert
    <2>5. StackOK(stack', dirs', songs)
        BY <1>1, <2>1, <2>3, <2>4
    <2> QED BY <1>2, <2>3, <2>5 DEF IInv
<1>4. CASE known # {}
    <2>1. PICK d \in DOMAIN dirs : stack' = <<Entering(d, 0)>>
        BY <1>4 DEF ScanRoot
    <2>2. dirs' = dirs
        BY <1>4 DEF ScanRoot
    <2>3. d \in Nat
        BY <1>2 DEF TablesOK, Bounded
    <2>4. StackOK(stack', dirs, songs)
        BY <1>1, <2>1, <2>3
    <2> QED BY <1>2, <2>2, <2>4 DEF IInv
<1> QED BY <1>3, <1>4

LEMMA InitIInv == Init => IInv
<1> SUFFICES ASSUME Init PROVE IInv
    OBVIOUS
<1>1. dirs = <<>> /\ songs = <<>> /\ stack = <<>>
    BY DEF Init
<1>2. TablesOK(<<>>, <<>>)
    <2>1. DOMAIN <<>> = {} /\ 0 \in Nat
        OBVIOUS
    <2> QED BY <2>1 DEF TablesOK, Bounded, Rooted, RootsApart
<1>3. StackOK(<<>>, <<>>, <<>>)
    BY DEF StackOK
<1> QED BY <1>1, <1>2, <1>3 DEF IInv

LEMMA NextIInv == IInv /\ Kinds /\ [Next]_vars => IInv'
<1> SUFFICES ASSUME IInv, Kinds, [Next]_vars PROVE IInv'
    OBVIOUS
<1>1. CASE Start \/ OpenFails \/ DatabaseFails \/ Crash
    BY <1>1, EmptyStack DEF Start, OpenFails, DatabaseFails, Crash, Abort
<1>2. ASSUME NEW n, NEW f, VisitNewTag(n, f) \/ VisitVanished(n, f) PROVE IInv'
    BY <1>2, EmptyStack DEF VisitNewTag, VisitVanished, Abort
<1>3. CASE ScanDone \/ ChangeFs \/ UNCHANGED vars
    BY <1>3 DEF ScanDone, ChangeFs, vars, tables, IInv
<1>4. CASE ScanStep
    BY <1>1, <1>2, <1>3, <1>4, ScanRootStep, SkipDirStep, EnterDirStep, VisitDirStep,
       VisitKnownSongStep, VisitNewSongStep, VisitVanishingStep, LoopEndsStep, ReapDirStep,
       ReapSongStep, ReturnStep DEF ScanStep
<1> QED BY <1>1, <1>3, <1>4 DEF Next

LEMMA InitKinds == Init => Kinds
<1> SUFFICES ASSUME Init PROVE Kinds
    OBVIOUS
<1>1. changes = 0 /\ made = [p \in Paths |-> 0] /\ 0 \in 0..0
    BY DEF Init
<1>2. changes \in Nat /\ made \in [Paths -> 0..changes]
    BY <1>1
<1> QED BY <1>2 DEF Init, Kinds

LEMMA NextKinds == Kinds /\ [Next]_vars => Kinds'
<1> SUFFICES ASSUME Kinds, [Next]_vars PROVE Kinds'
    OBVIOUS
<1>1. CASE ChangeFs
    <2>1. changes' = changes + 1 /\ app' = app /\ stable' = FALSE /\ quiet' = FALSE
        BY <1>1 DEF ChangeFs
    <2>2. changes \in Nat /\ made \in [Paths -> 0..changes'] /\ changes' \in 0..changes'
        BY <2>1 DEF Kinds
    <2>3. PICK p \in Paths : RemoveEntry(p) \/ \E k \in {"dir", "song"} : AddEntry(p, k)
        BY <1>1 DEF ChangeFs
    <2>4. fs' \in [Paths -> {"none", "dir", "song"}]
        <3>1. fs \in [Paths -> {"none", "dir", "song"}]
            BY DEF Kinds
        <3>2. CASE RemoveEntry(p)
            BY <3>1, <3>2 DEF RemoveEntry
        <3>3. CASE \E k \in {"dir", "song"} : AddEntry(p, k)
            BY <3>1, <3>3 DEF AddEntry
        <3> QED BY <2>3, <3>2, <3>3
    <2>5. made' \in [Paths -> 0..changes']
        BY <2>2, <2>3 DEF RemoveEntry, AddEntry
    <2>6. app' \in {"down", "scanning", "done", "aborted", "failed"} /\ changes' \in Nat
        BY <2>1, <2>2 DEF Kinds
    <2> QED BY <2>1, <2>4, <2>5, <2>6 DEF Kinds
<1>2. CASE Start \/ Crash \/ DatabaseFails \/ UNCHANGED vars
    BY <1>2 DEF Start, Crash, DatabaseFails, Abort, vars, bounds, observer, Kinds
<1>3. CASE ScanStep
    <2>1. UNCHANGED <<fs, changes, made, stable>>
        BY <1>3 DEF ScanStep, ScanRoot, SkipDir, EnterDir, OpenFails, VisitDir, VisitKnownSong,
            VisitNewSong, VisitNewTag, VisitVanished, VisitVanishing, LoopEnds, ReapDir,
            ReapSong, Return, ScanDone, Abort, bounds, observer
    <2>2. app' \in {app, "done", "aborted"} /\ quiet' \in {quiet, stable}
        BY <1>3 DEF ScanStep, ScanRoot, SkipDir, EnterDir, OpenFails, VisitDir, VisitKnownSong,
            VisitNewSong, VisitNewTag, VisitVanished, VisitVanishing, LoopEnds, ReapDir,
            ReapSong, Return, ScanDone, Abort, observer
    <2> QED BY <2>1, <2>2 DEF Kinds
<1> QED BY <1>1, <1>2, <1>3 DEF Next

LEMMA Invariant == Spec => [](IInv /\ Kinds)
BY InitIInv, InitKinds, NextIInv, NextKinds, PTL DEF Spec

------------------------------------------------------------------------------
(* The theorems.                                                           *)

\* A parent has a row and had it before its children, and a song's directory has
\* one, wherever destroy or the process broke off.
THEOREM NoOrphansEver == Spec => []NoOrphans
<1>1. IInv => NoOrphans
    BY DEF IInv, TablesOK, Rooted, NoOrphans
<1> QED BY <1>1, Invariant, PTL

\* The variables keep their types.
THEOREM TypeCorrect == Spec => []TypeOK
<1>1. IInv /\ Kinds => TypeOK
    <2> SUFFICES ASSUME IInv, Kinds PROVE TypeOK
        OBVIOUS
    <2>1. DOMAIN dirs \subseteq Nat \ {0} /\ DOMAIN songs \subseteq Nat \ {0}
        BY DEF IInv, TablesOK, Bounded
    <2>2. \A i \in DOMAIN stack : stack[i] \in Frames
        BY DEF IInv, StackOK
    <2> QED BY <2>1, <2>2 DEF Kinds, TypeOK
<1> QED BY <1>1, Invariant, PTL

------------------------------------------------------------------------------
\* DirPath and RootPath, of any table.
PathsOf(D) ==
    LET F[d \in DOMAIN D] == IF D[d].parent = 0 THEN D[d].name
                             ELSE Append(F[D[d].parent], D[d].name)
    IN  F
RootsOf(D) ==
    LET F[d \in DOMAIN D] == IF D[d].parent = 0 THEN D[d].name ELSE F[D[d].parent]
    IN  F

------------------------------------------------------------------------------
(* Sequences and paths.                                                    *)

LEMMA AppendedPath ==
    ASSUME NEW X, NEW p \in Seq(X), NEW n
    PROVE  /\ Append(p, n) \in Seq(X \cup {n}) /\ Append(p, n) # <<>>
           /\ Len(p) \in Nat /\ Len(Append(p, n)) = Len(p) + 1
           /\ Front(Append(p, n)) = p /\ Last(Append(p, n)) = n
<1> DEFINE Y == X \cup {n}
           q == Append(p, n)
<1>1. p \in Seq(Y) /\ n \in Y
    BY SeqMonotonic
<1> HIDE DEF Y
<1>2. /\ q \in Seq(Y) /\ q # <<>> /\ Len(q) = Len(p) + 1
      /\ \A i \in 1..Len(p) : q[i] = p[i]
      /\ q[Len(p) + 1] = n
    BY <1>1, AppendProperties
<1>3. Len(p) \in Nat
    BY <1>1, LenProperties
<1> HIDE DEF q
<1>4. /\ Front(q) \in Seq(Y) /\ Len(Front(q)) = Len(q) - 1
      /\ \A i \in 1..(Len(q) - 1) : Front(q)[i] = q[i]
    BY <1>2, TopReturns
<1>5. Front(q) = p
    <2>1. Len(Front(q)) = Len(p) /\ \A i \in 1..Len(p) : Front(q)[i] = p[i]
        BY <1>2, <1>3, <1>4
    <2> QED BY <1>1, <1>4, <2>1, SeqEqual
<1> QED BY <1>2, <1>3, <1>5 DEF Last, q, Y

LEMMA FrontAndLast ==
    ASSUME NEW X, NEW p \in Seq(X), p # <<>>
    PROVE  /\ Len(p) \in Nat \ {0} /\ p = Append(Front(p), Last(p))
           /\ Front(p) \in Seq(X) /\ Len(Front(p)) = Len(p) - 1 /\ Last(p) \in X
<1>1. /\ Len(p) \in Nat \ {0} /\ Front(p) \in Seq(X) /\ Len(Front(p)) = Len(p) - 1
      /\ \A i \in 1..(Len(p) - 1) : Front(p)[i] = p[i]
    BY TopReturns
<1>2. Last(p) \in X
    <2>1. Len(p) \in 1..Len(p)
        BY <1>1
    <2> QED BY <2>1, ElementOfSeq DEF Last
<1> DEFINE q == Append(Front(p), Last(p))
<1>3. /\ q \in Seq(X) /\ Len(q) = Len(p)
      /\ \A i \in 1..(Len(p) - 1) : q[i] = p[i]
      /\ q[Len(p)] = p[Len(p)]
    <2>1. /\ q \in Seq(X) /\ Len(q) = Len(Front(p)) + 1
          /\ \A i \in 1..Len(Front(p)) : q[i] = Front(p)[i]
          /\ q[Len(Front(p)) + 1] = Last(p)
        BY <1>1, <1>2, AppendProperties
    <2> HIDE DEF q
    <2> QED BY <1>1, <2>1 DEF Last
<1> HIDE DEF q
<1>4. \A i \in 1..Len(p) : p[i] = q[i]
    <2>1. \A i \in 1..Len(p) : i \in 1..(Len(p) - 1) \/ i = Len(p)
        BY <1>1
    <2> QED BY <1>3, <2>1
<1>5. p = q
    BY <1>3, <1>4, SeqEqual
<1> QED BY <1>1, <1>2, <1>5 DEF q

LEMMA PrefixByElements ==
    ASSUME NEW X, NEW r \in Seq(X), NEW p \in Seq(X)
    PROVE  IsPrefix(r, p) <=> Len(r) <= Len(p) /\ \A i \in 1..Len(r) : r[i] = p[i]
<1>1. Len(r) \in Nat /\ Len(p) \in Nat
    BY LenProperties
<1>2. SubSeq(r, 1, Len(r)) = r
    BY SubSeqFull
<1>3. ASSUME Len(r) <= Len(p)
      PROVE  /\ SubSeq(p, 1, Len(r)) \in Seq(X) /\ Len(SubSeq(p, 1, Len(r))) = Len(r)
             /\ \A i \in 1..Len(r) : SubSeq(p, 1, Len(r))[i] = p[i]
    <2>1. \A i \in 1..Len(r) : p[i] \in X
        <3>1. \A i \in 1..Len(r) : i \in 1..Len(p)
            BY <1>1, <1>3
        <3> QED BY <3>1, ElementOfSeq
    <2>2. 1 \in Int /\ Len(r) \in Int
        BY <1>1
    <2>3. /\ SubSeq(p, 1, Len(r)) \in Seq(X)
          /\ Len(SubSeq(p, 1, Len(r))) = IF 1 <= Len(r) THEN Len(r) - 1 + 1 ELSE 0
          /\ \A i \in 1..(Len(r) - 1 + 1) : SubSeq(p, 1, Len(r))[i] = p[1 + i - 1]
        BY <2>1, <2>2, SubSeqProperties
    <2> QED BY <1>1, <2>3
<1>4. ASSUME Len(r) <= Len(p), r = SubSeq(p, 1, Len(r)) PROVE \A i \in 1..Len(r) : r[i] = p[i]
    BY <1>3, <1>4
<1>5. ASSUME Len(r) <= Len(p), \A i \in 1..Len(r) : r[i] = p[i] PROVE r = SubSeq(p, 1, Len(r))
    <2> DEFINE q == SubSeq(p, 1, Len(r))
    <2>1. q \in Seq(X) /\ Len(q) = Len(r) /\ \A i \in 1..Len(r) : r[i] = q[i]
        BY <1>3, <1>5
    <2> HIDE DEF q
    <2>2. r = q
        BY <2>1, SeqEqual
    <2> QED BY <2>2 DEF q
<1> QED BY <1>2, <1>4, <1>5 DEF IsPrefix

LEMMA PrefixFacts ==
    ASSUME NEW X, NEW r \in Seq(X), NEW p \in Seq(X)
    PROVE  /\ IsPrefix(r, r)
           /\ IsPrefix(r, p) => Len(r) <= Len(p)
           /\ IsPrefix(r, p) /\ Len(r) = Len(p) => r = p
           /\ \A n \in X : IsPrefix(r, p) => IsPrefix(r, Append(p, n))
           /\ \A n \in X : IsPrefix(r, Append(p, n)) /\ Len(r) <= Len(p) => IsPrefix(r, p)
<1>1. Len(r) \in Nat /\ Len(p) \in Nat
    BY LenProperties
<1>2. IsPrefix(r, p) <=> Len(r) <= Len(p) /\ \A i \in 1..Len(r) : r[i] = p[i]
    BY PrefixByElements
<1>3. IsPrefix(r, r)
    <2>1. IsPrefix(r, r) <=> Len(r) <= Len(r) /\ \A i \in 1..Len(r) : r[i] = r[i]
        BY PrefixByElements
    <2> QED BY <1>1, <2>1
<1>4. IsPrefix(r, p) /\ Len(r) = Len(p) => r = p
    BY <1>2, SeqEqual
<1>5. ASSUME NEW n \in X
      PROVE  /\ IsPrefix(r, p) => IsPrefix(r, Append(p, n))
             /\ IsPrefix(r, Append(p, n)) /\ Len(r) <= Len(p) => IsPrefix(r, p)
    <2> DEFINE q == Append(p, n)
    <2>1. /\ q \in Seq(X) /\ Len(q) = Len(p) + 1
          /\ \A i \in 1..Len(p) : q[i] = p[i]
        BY AppendProperties
    <2> HIDE DEF q
    <2>2. IsPrefix(r, q) <=> Len(r) <= Len(q) /\ \A i \in 1..Len(r) : r[i] = q[i]
        BY <2>1, PrefixByElements
    <2>3. IsPrefix(r, p) => IsPrefix(r, q)
        BY <1>1, <1>2, <2>1, <2>2
    <2>4. IsPrefix(r, q) /\ Len(r) <= Len(p) => IsPrefix(r, p)
        <3>1. Len(r) <= Len(p) => \A i \in 1..Len(r) : i \in 1..Len(p)
            BY <1>1
        <3> QED BY <1>2, <2>1, <2>2, <3>1
    <2> QED BY <2>3, <2>4 DEF q
<1> QED BY <1>2, <1>3, <1>4, <1>5

\* A path that may come to exist, and what it is made of.
LEMMA PathFacts ==
    ASSUME NEW p \in Paths
    PROVE  /\ p \in Seq(Names) /\ p # <<>> /\ Len(p) \in Nat \ {0}
           /\ p = Append(Front(p), Last(p)) /\ Last(p) \in Names
           /\ Len(Front(p)) = Len(p) - 1
           /\ Len(p) > 1 => Front(p) \in Paths
<1>1. p \in Seq(Names) /\ p # <<>>
    <2>1. p \in Seq(ToSet(p)) /\ p # <<>> /\ ToSet(p) \subseteq Names
        BY PathsOfNames DEF Names
    <2> QED BY <2>1, SeqMonotonic
<1> QED BY <1>1, FrontAndLast, PathsClosed

LEMMA EntryFacts ==
    ASSUME NEW p \in Paths, NEW n, Append(p, n) \in Paths
    PROVE  /\ Front(Append(p, n)) = p /\ Last(Append(p, n)) = n /\ n \in Names
           /\ Len(Append(p, n)) = Len(p) + 1 /\ Len(Append(p, n)) > 1
<1>1. p \in Seq(Names) /\ Len(p) \in Nat \ {0}
    BY PathFacts
<1>2. Front(Append(p, n)) = p /\ Last(Append(p, n)) = n /\ Len(Append(p, n)) = Len(p) + 1
    BY <1>1, AppendedPath
<1>3. Last(Append(p, n)) \in Names
    BY PathFacts
<1> QED BY <1>1, <1>2, <1>3

LEMMA RootFacts == ToSet(Roots) \subseteq Paths
<1>1. Roots \in [1..Len(Roots) -> Paths]
    BY RootsArePaths, LenProperties
<1> QED BY <1>1 DEF ToSet

------------------------------------------------------------------------------
(* The paths of rows.                                                      *)

LEMMA SameFunctions == DirPath = PathsOf(dirs) /\ RootPath = RootsOf(dirs)
BY DEF DirPath, PathsOf, RootPath, RootsOf

LEMMA SameFunctionsNext == DirPath' = PathsOf(dirs') /\ RootPath' = RootsOf(dirs')
BY DEF DirPath, PathsOf, RootPath, RootsOf

\* A smallest rowid for which the recursion had no value would have a parent that
\* has one.
LEMMA PathsUnfold ==
    ASSUME NEW D, NEW S, TablesOK(D, S)
    PROVE  \A d \in DOMAIN D :
              PathsOf(D)[d] = IF D[d].parent = 0 THEN D[d].name
                              ELSE Append(PathsOf(D)[D[d].parent], D[d].name)
<1> DEFINE UpTo(n) == DOMAIN D \cap 1..n
           Value(F, d) == IF D[d].parent = 0 THEN D[d].name ELSE Append(F[D[d].parent], D[d].name)
           Bad == {n \in Nat : ~\E F : F = [d \in UpTo(n) |-> Value(F, d)]}
<1>1. \A d \in DOMAIN D : d \in Nat \ {0} /\ D[d].parent \in (DOMAIN D \cap 1..(d - 1)) \cup {0}
    BY DEF TablesOK, Rooted, Bounded
<1>2. Bad = {}
    <2>1. SUFFICES ASSUME Bad # {} PROVE FALSE
        OBVIOUS
    <2>2. PICK n \in Bad : \A k \in Bad : n <= k
        <3> HIDE DEF Bad
        <3>1. Bad \in SUBSET Nat
            BY DEF Bad
        <3> QED BY <2>1, <3>1, LeastOfNaturals
    <2>3. n # 0
        <3>1. SUFFICES ASSUME n = 0 PROVE FALSE
            OBVIOUS
        <3>2. UpTo(n) = {}
            BY <3>1
        <3>3. PICK F : F = [d \in {} |-> 0]
            OBVIOUS
        <3>4. F = [d \in UpTo(n) |-> Value(F, d)]
            BY <3>2, <3>3
        <3> QED BY <3>4
    <2>4. PICK F : F = [d \in UpTo(n - 1) |-> Value(F, d)]
        <3> DEFINE m == n - 1
        <3>1. m \in Nat /\ ~(n <= m)
            BY <2>2, <2>3
        <3>2. m \notin Bad
            <4> HIDE DEF Bad
            <4> QED BY <2>2, <3>1
        <3>3. \E F : F = [d \in UpTo(m) |-> Value(F, d)]
            BY <3>1, <3>2
        <3> QED BY <3>3
    <2> DEFINE G == [d \in UpTo(n) |-> Value(F, d)]
    <2>5. ASSUME NEW d \in UpTo(n) PROVE Value(G, d) = Value(F, d)
        <3>1. CASE D[d].parent = 0
            BY <3>1
        <3>2. CASE D[d].parent # 0
            <4>1. D[d].parent \in UpTo(n) /\ D[d].parent \in UpTo(n - 1)
                BY <1>1, <2>2, <3>2
            <4>2. G[D[d].parent] = Value(F, D[d].parent)
                BY <4>1
            <4>3. F[D[d].parent] = Value(F, D[d].parent)
                BY <2>4, <4>1
            <4>4. G[D[d].parent] = F[D[d].parent]
                BY <4>2, <4>3
            <4> HIDE DEF G
            <4> QED BY <3>2, <4>4
        <3> QED BY <3>1, <3>2
    <2>6. G = [d \in UpTo(n) |-> Value(G, d)]
        BY <2>5
    <2> QED BY <2>2, <2>6
<1>3. PICK F : F = [d \in DOMAIN D |-> Value(F, d)]
    <2>1. PICK n \in Nat : DOMAIN D \subseteq 1..n
        BY DEF TablesOK, Bounded
    <2>2. UpTo(n) = DOMAIN D
        BY <2>1
    <2>3. n \notin Bad
        BY <1>2
    <2> QED BY <2>2, <2>3
<1>4. PathsOf(D) = [d \in DOMAIN D |-> Value(PathsOf(D), d)]
    BY <1>3 DEF PathsOf
<1> QED BY <1>4

LEMMA RootsUnfold ==
    ASSUME NEW D, NEW S, TablesOK(D, S)
    PROVE  \A d \in DOMAIN D :
              RootsOf(D)[d] = IF D[d].parent = 0 THEN D[d].name
                              ELSE RootsOf(D)[D[d].parent]
<1> DEFINE UpTo(n) == DOMAIN D \cap 1..n
           Value(F, d) == IF D[d].parent = 0 THEN D[d].name ELSE F[D[d].parent]
           Bad == {n \in Nat : ~\E F : F = [d \in UpTo(n) |-> Value(F, d)]}
<1>1. \A d \in DOMAIN D : d \in Nat \ {0} /\ D[d].parent \in (DOMAIN D \cap 1..(d - 1)) \cup {0}
    BY DEF TablesOK, Rooted, Bounded
<1>2. Bad = {}
    <2>1. SUFFICES ASSUME Bad # {} PROVE FALSE
        OBVIOUS
    <2>2. PICK n \in Bad : \A k \in Bad : n <= k
        <3> HIDE DEF Bad
        <3>1. Bad \in SUBSET Nat
            BY DEF Bad
        <3> QED BY <2>1, <3>1, LeastOfNaturals
    <2>3. n # 0
        <3>1. SUFFICES ASSUME n = 0 PROVE FALSE
            OBVIOUS
        <3>2. UpTo(n) = {}
            BY <3>1
        <3>3. PICK F : F = [d \in {} |-> 0]
            OBVIOUS
        <3>4. F = [d \in UpTo(n) |-> Value(F, d)]
            BY <3>2, <3>3
        <3> QED BY <3>4
    <2>4. PICK F : F = [d \in UpTo(n - 1) |-> Value(F, d)]
        <3> DEFINE m == n - 1
        <3>1. m \in Nat /\ ~(n <= m)
            BY <2>2, <2>3
        <3>2. m \notin Bad
            <4> HIDE DEF Bad
            <4> QED BY <2>2, <3>1
        <3>3. \E F : F = [d \in UpTo(m) |-> Value(F, d)]
            BY <3>1, <3>2
        <3> QED BY <3>3
    <2> DEFINE G == [d \in UpTo(n) |-> Value(F, d)]
    <2>5. ASSUME NEW d \in UpTo(n) PROVE Value(G, d) = Value(F, d)
        <3>1. CASE D[d].parent = 0
            BY <3>1
        <3>2. CASE D[d].parent # 0
            <4>1. D[d].parent \in UpTo(n) /\ D[d].parent \in UpTo(n - 1)
                BY <1>1, <2>2, <3>2
            <4>2. G[D[d].parent] = Value(F, D[d].parent)
                BY <4>1
            <4>3. F[D[d].parent] = Value(F, D[d].parent)
                BY <2>4, <4>1
            <4>4. G[D[d].parent] = F[D[d].parent]
                BY <4>2, <4>3
            <4> HIDE DEF G
            <4> QED BY <3>2, <4>4
        <3> QED BY <3>1, <3>2
    <2>6. G = [d \in UpTo(n) |-> Value(G, d)]
        BY <2>5
    <2> QED BY <2>2, <2>6
<1>3. PICK F : F = [d \in DOMAIN D |-> Value(F, d)]
    <2>1. PICK n \in Nat : DOMAIN D \subseteq 1..n
        BY DEF TablesOK, Bounded
    <2>2. UpTo(n) = DOMAIN D
        BY <2>1
    <2>3. n \notin Bad
        BY <1>2
    <2> QED BY <2>2, <2>3
<1>4. RootsOf(D) = [d \in DOMAIN D |-> Value(RootsOf(D), d)]
    BY <1>3 DEF RootsOf
<1> QED BY <1>4

PathOf(D, d) == PathsOf(D)[d]
RootOf(D, d) == RootsOf(D)[d]

\* A row has the path of its parent and its name, and the root of its parent.
LEMMA Unfolded ==
    ASSUME NEW D, NEW S, TablesOK(D, S), NEW d \in DOMAIN D
    PROVE  /\ D[d].parent = 0 => PathOf(D, d) = D[d].name /\ RootOf(D, d) = D[d].name
           /\ D[d].parent # 0 =>
                 /\ D[d].parent \in DOMAIN D /\ D[d].parent < d
                 /\ PathOf(D, d) = Append(PathOf(D, D[d].parent), D[d].name)
                 /\ RootOf(D, d) = RootOf(D, D[d].parent)
           /\ d \in Nat \ {0} /\ 0 \notin DOMAIN D
<1>1. /\ d \in Nat \ {0} /\ 0 \notin DOMAIN D
      /\ D[d].parent \in (DOMAIN D \cap 1..(d - 1)) \cup {0}
    BY DEF TablesOK, Rooted, Bounded
<1>2. PathOf(D, d) = IF D[d].parent = 0 THEN D[d].name
                     ELSE Append(PathOf(D, D[d].parent), D[d].name)
    BY PathsUnfold DEF PathOf
<1>3. RootOf(D, d) = IF D[d].parent = 0 THEN D[d].name ELSE RootOf(D, D[d].parent)
    BY RootsUnfold DEF RootOf
<1>4. D[d].parent # 0 => D[d].parent \in DOMAIN D /\ D[d].parent < d
    BY <1>1
<1> QED BY <1>1, <1>2, <1>3, <1>4

\* The path of a row does not change as long as it has one.
LEMMA PathsKept ==
    ASSUME NEW D, NEW S, TablesOK(D, S), NEW D2, NEW S2, TablesOK(D2, S2),
           \A k \in DOMAIN D \cap DOMAIN D2 : D2[k] = D[k]
    PROVE  \A d \in DOMAIN D \cap DOMAIN D2 :
              PathOf(D2, d) = PathOf(D, d) /\ RootOf(D2, d) = RootOf(D, d)
<1> DEFINE Bad == {d \in DOMAIN D \cap DOMAIN D2 :
                      ~(PathOf(D2, d) = PathOf(D, d) /\ RootOf(D2, d) = RootOf(D, d))}
<1>1. SUFFICES ASSUME Bad # {} PROVE FALSE
    OBVIOUS
<1>2. PICK d \in Bad : \A k \in Bad : d <= k
    <2>1. \A k \in DOMAIN D : k \in Nat
        BY Unfolded
    <2>2. Bad \in SUBSET Nat
        BY <2>1
    <2> HIDE DEF Bad
    <2> QED BY <1>1, <2>2, LeastOfNaturals
<1>3. d \in DOMAIN D /\ d \in DOMAIN D2 /\ D2[d] = D[d]
    OBVIOUS
<1>4. CASE D[d].parent = 0
    <2>1. PathOf(D, d) = D[d].name /\ RootOf(D, d) = D[d].name
        BY <1>3, <1>4, Unfolded
    <2>2. PathOf(D2, d) = D2[d].name /\ RootOf(D2, d) = D2[d].name
        BY <1>3, <1>4, Unfolded
    <2> QED BY <1>3, <2>1, <2>2
<1>5. CASE D[d].parent # 0
    <2> DEFINE e == D[d].parent
    <2>1. e \in DOMAIN D /\ e \in DOMAIN D2 /\ e < d /\ d \in Nat /\ e \in Nat
        BY <1>3, <1>5, Unfolded
    <2>2. e \notin Bad
        <3> HIDE DEF Bad, e
        <3> QED BY <1>2, <2>1
    <2>3. PathOf(D2, e) = PathOf(D, e) /\ RootOf(D2, e) = RootOf(D, e)
        BY <2>1, <2>2
    <2>4. PathOf(D, d) = Append(PathOf(D, e), D[d].name) /\ RootOf(D, d) = RootOf(D, e)
        BY <1>3, <1>5, Unfolded
    <2>5. PathOf(D2, d) = Append(PathOf(D2, e), D[d].name) /\ RootOf(D2, d) = RootOf(D2, e)
        BY <1>3, <1>5, Unfolded
    <2> QED BY <2>3, <2>4, <2>5
<1> QED BY <1>4, <1>5

------------------------------------------------------------------------------
(* The rows are entries of the roots.                                      *)

SongAt(D, S, s) == Append(PathOf(D, S[s].dir), S[s].name)

\* A row for a directory that some root has, and not too deep.
DirRowOK(D, d) ==
    /\ D[d] = [parent |-> D[d].parent, name |-> D[d].name]
    /\ D[d].parent = 0 => D[d].name \in ToSet(Roots)
    /\ PathOf(D, d) \in Paths
    /\ RootOf(D, d) \in ToSet(Roots)
    /\ IsPrefix(RootOf(D, d), PathOf(D, d))
    /\ Len(PathOf(D, d)) <= Len(RootOf(D, d)) + DepthLimit

SongRowOK(D, S, s) ==
    /\ SongAt(D, S, s) \in Paths
    /\ Len(PathOf(D, S[s].dir)) < Len(RootOf(D, S[s].dir)) + DepthLimit

RowsOK(D, S) ==
    /\ \A d \in DOMAIN D : DirRowOK(D, d)
    /\ \A s \in DOMAIN S : SongRowOK(D, S, s)

LEMMA DirFacts ==
    ASSUME NEW D, NEW S, TablesOK(D, S), RowsOK(D, S), NEW d \in DOMAIN D
    PROVE  LET p == PathOf(D, d)
               r == RootOf(D, d)
               e == D[d].parent
           IN  /\ p \in Paths /\ p \in Seq(Names) /\ Len(p) \in Nat \ {0}
               /\ r \in Paths /\ r \in Seq(Names) /\ Len(r) \in Nat \ {0} /\ r \in ToSet(Roots)
               /\ IsPrefix(r, p) /\ Len(r) <= Len(p) /\ Len(p) <= Len(r) + DepthLimit
               /\ e = 0 => p = D[d].name /\ r = D[d].name
               /\ e # 0 => /\ e \in DOMAIN D /\ e < d /\ RootOf(D, e) = r
                           /\ p = Append(PathOf(D, e), D[d].name)
                           /\ Front(p) = PathOf(D, e) /\ Last(p) = D[d].name
                           /\ Len(p) = Len(PathOf(D, e)) + 1 /\ Len(p) > 1
<1> DEFINE p == PathOf(D, d)
           r == RootOf(D, d)
           e == D[d].parent
<1>1. /\ p \in Paths /\ r \in ToSet(Roots) /\ IsPrefix(r, p)
      /\ Len(p) <= Len(r) + DepthLimit
    BY DEF RowsOK, DirRowOK
<1>2. r \in Paths
    BY <1>1, RootFacts
<1>3. /\ p \in Seq(Names) /\ Len(p) \in Nat \ {0}
      /\ r \in Seq(Names) /\ Len(r) \in Nat \ {0}
    BY <1>1, <1>2, PathFacts
<1>4. Len(r) <= Len(p)
    BY <1>1, <1>3, PrefixFacts
<1>5. e = 0 => p = D[d].name /\ r = D[d].name
    BY Unfolded
<1>6. ASSUME e # 0
      PROVE  /\ e \in DOMAIN D /\ e < d /\ RootOf(D, e) = r
             /\ p = Append(PathOf(D, e), D[d].name)
             /\ Front(p) = PathOf(D, e) /\ Last(p) = D[d].name
             /\ Len(p) = Len(PathOf(D, e)) + 1 /\ Len(p) > 1
    <2>1. /\ e \in DOMAIN D /\ e < d /\ RootOf(D, e) = r
          /\ p = Append(PathOf(D, e), D[d].name)
        BY <1>6, Unfolded
    <2>2. PathOf(D, e) \in Paths
        BY <2>1 DEF RowsOK, DirRowOK
    <2> QED BY <1>1, <2>1, <2>2, EntryFacts
<1> QED BY <1>1, <1>2, <1>3, <1>4, <1>5, <1>6

LEMMA SongFacts ==
    ASSUME NEW D, NEW S, TablesOK(D, S), RowsOK(D, S), NEW s \in DOMAIN S
    PROVE  LET q == SongAt(D, S, s)
               d == S[s].dir
           IN  /\ d \in DOMAIN D /\ q \in Paths /\ Len(q) > 1
               /\ Front(q) = PathOf(D, d) /\ Last(q) = S[s].name
               /\ Len(q) = Len(PathOf(D, d)) + 1 /\ Len(q) <= Len(RootOf(D, d)) + DepthLimit
               /\ IsPrefix(RootOf(D, d), q)
<1> DEFINE q == SongAt(D, S, s)
           d == S[s].dir
           p == PathOf(D, d)
           r == RootOf(D, d)
<1>1. d \in DOMAIN D
    BY DEF TablesOK, Rooted
<1>2. /\ p \in Paths /\ p \in Seq(Names) /\ Len(p) \in Nat
      /\ r \in Seq(Names) /\ Len(r) \in Nat /\ IsPrefix(r, p)
    BY <1>1, DirFacts
<1>3. q \in Paths /\ q = Append(p, S[s].name) /\ Len(p) < Len(r) + DepthLimit
    BY DEF RowsOK, SongRowOK, SongAt
<1> HIDE DEF p, q, r
<1>4. /\ Front(q) = p /\ Last(q) = S[s].name /\ S[s].name \in Names
      /\ Len(q) = Len(p) + 1 /\ Len(q) > 1
    BY <1>2, <1>3, EntryFacts
<1>5. Len(q) <= Len(r) + DepthLimit
    BY <1>2, <1>3, <1>4, DepthIsLimited
<1>6. IsPrefix(r, q)
    BY <1>2, <1>3, <1>4, PrefixFacts
<1> QED BY <1>1, <1>3, <1>4, <1>5, <1>6 DEF p, q, r

\* The rows that stay are as good as they were.
LEMMA RowsKept ==
    ASSUME NEW D, NEW S, TablesOK(D, S), RowsOK(D, S), NEW D2, NEW S2, TablesOK(D2, S2),
           \A k \in DOMAIN D \cap DOMAIN D2 : D2[k] = D[k],
           \A k \in DOMAIN S \cap DOMAIN S2 : S2[k] = S[k],
           \A d \in DOMAIN D2 \ DOMAIN D : DirRowOK(D2, d),
           \A s \in DOMAIN S2 \ DOMAIN S : SongRowOK(D2, S2, s)
    PROVE  RowsOK(D2, S2)
<1>1. \A d \in DOMAIN D \cap DOMAIN D2 :
         PathOf(D2, d) = PathOf(D, d) /\ RootOf(D2, d) = RootOf(D, d)
    BY PathsKept
<1>2. ASSUME NEW d \in DOMAIN D2 PROVE DirRowOK(D2, d)
    <2>1. CASE d \notin DOMAIN D
        BY <2>1
    <2>2. CASE d \in DOMAIN D
        BY <1>1, <2>2 DEF RowsOK, DirRowOK
    <2> QED BY <2>1, <2>2
<1>3. ASSUME NEW s \in DOMAIN S2 PROVE SongRowOK(D2, S2, s)
    <2>1. CASE s \notin DOMAIN S
        BY <2>1
    <2>2. CASE s \in DOMAIN S
        <3>1. S2[s] = S[s] /\ S[s].dir \in DOMAIN D /\ S[s].dir \in DOMAIN D2
            BY <2>2 DEF TablesOK, Rooted
        <3> QED BY <1>1, <2>2, <3>1 DEF RowsOK, SongRowOK, SongAt
    <2> QED BY <2>1, <2>2
<1> QED BY <1>2, <1>3 DEF RowsOK
------------------------------------------------------------------------------
(* What an activation has seen.                                            *)

\* Paths are of entries that were seen to be there: a directory that is entered is
\* one, or a root, unless the file system changed since.  What an iterator still has
\* to return is there, unless it changed.
Sees(f, D) ==
    LET p == PathOf(D, f.id)
        r == RootOf(D, f.id)
    IN  /\ f.mode = "enter" =>
              /\ Len(p) = Len(r) + f.depth
              /\ D[f.id].parent # 0 /\ stable => fs[p] = "dir"
        /\ f.mode \in {"sync", "reap"} =>
              /\ Len(p) + 1 = Len(r) + f.depth /\ f.depth <= DepthLimit
              /\ \A n \in f.entries : Append(p, n) \in Paths
              /\ stable => fs[p] = "dir"
        /\ f.mode = "sync" /\ stable =>
              f.opened = changes /\ \A n \in f.entries : fs[Append(p, n)] # "none"
        /\ f.mode = "reap" => f.entries = {}
        /\ f.mode = "destroy" => D[f.id].parent # 0
        /\ (f.mode # "enter" \/ D[f.id].parent # 0) /\ stable => fs[r] = "dir"

\* The file system is a tree; a scan is of configured roots.
World ==
    /\ IsTree(fs)
    /\ quiet => stable
    /\ todo \in Seq(Paths) /\ ToSet(todo) \subseteq ToSet(Roots)

PInv == Kinds /\ World /\ RowsOK(dirs, songs) /\ \A f \in ToSet(stack) : Sees(f, dirs)

LEMMA StackFrames ==
    ASSUME NEW t, NEW D, NEW S, StackOK(t, D, S), NEW f \in ToSet(t)
    PROVE  f \in Frames /\ FrameOK(f, D, S)
<1>1. PICK i \in 1..Len(t) : f = t[i]
    BY LenProperties DEF StackOK, ToSet
<1> QED BY <1>1, ElementOfSeq DEF StackOK

LEMMA StackSets ==
    ASSUME IInv, stack # <<>>
    PROVE  /\ ToSet(stack) = ToSet(Below) \cup {Top}
           /\ \A g \in Frames : ToSet(Append(Below, g)) = ToSet(Below) \cup {g}
           /\ \A g, h \in Frames : ToSet(Below \o <<g, h>>) = ToSet(Below) \cup {g, h}
<1> DEFINE n == Len(stack)
           B == {stack[i] : i \in 1..(n - 1)}
<1>1. stack \in Seq(Frames) /\ n \in Nat \ {0} /\ Top = stack[n]
    BY TopFacts DEF IInv, StackOK
<1>2. /\ Below \in Seq(Frames) /\ Len(Below) = n - 1
      /\ \A i \in 1..(n - 1) : Below[i] = stack[i]
    BY <1>1, TopReturns DEF Below
<1>3. \A t \in Seq(Frames) : ToSet(t) = {t[i] : i \in 1..Len(t)}
    BY LenProperties DEF ToSet
<1> HIDE DEF n
<1>4. ToSet(Below) = B
    <2>1. ToSet(Below) = {Below[i] : i \in 1..(n - 1)}
        BY <1>2, <1>3
    <2> QED BY <1>2, <2>1
<1>5. \A i : i \in 1..n <=> (i \in 1..(n - 1) \/ i = n)
    BY <1>1
<1>6. ToSet(stack) = ToSet(Below) \cup {Top}
    <2>1. ToSet(stack) = {stack[i] : i \in 1..n}
        BY <1>1, <1>3 DEF n
    <2> QED BY <1>1, <1>4, <1>5, <2>1
<1>7. ASSUME NEW g \in Frames PROVE ToSet(Append(Below, g)) = ToSet(Below) \cup {g}
    <2> DEFINE u == Append(Below, g)
    <2>1. /\ u \in Seq(Frames) /\ Len(u) = n
          /\ \A i \in 1..(n - 1) : u[i] = stack[i]
          /\ u[n] = g
        BY <1>1, TopReplaced DEF Below, n
    <2> HIDE DEF u
    <2>2. ToSet(u) = {u[i] : i \in 1..n}
        BY <1>3, <2>1
    <2> QED BY <1>4, <1>5, <2>1, <2>2 DEF u
<1>8. ASSUME NEW g \in Frames, NEW h \in Frames
      PROVE  ToSet(Below \o <<g, h>>) = ToSet(Below) \cup {g, h}
    <2> DEFINE u == Below \o <<g, h>>
    <2>1. /\ u \in Seq(Frames) /\ Len(u) = n + 1
          /\ \A i \in 1..(n - 1) : u[i] = stack[i]
          /\ u[n] = g /\ u[n + 1] = h
        BY <1>1, TopCalls DEF Below, n
    <2> HIDE DEF u
    <2>2. ToSet(u) = {u[i] : i \in 1..(n + 1)}
        BY <1>3, <2>1
    <2>3. \A i : i \in 1..(n + 1) <=> (i \in 1..(n - 1) \/ i = n \/ i = n + 1)
        BY <1>1
    <2> QED BY <1>4, <2>1, <2>2, <2>3 DEF u
<1> QED BY <1>6, <1>7, <1>8

LEMMA EmptySets == ToSet(<<>>) = {}
BY DEF ToSet
\* An activation sees what it saw as long as the row of its directory stays.
LEMMA SeesKept ==
    ASSUME NEW D, NEW S, TablesOK(D, S), NEW D2, NEW S2, TablesOK(D2, S2),
           \A k \in DOMAIN D \cap DOMAIN D2 : D2[k] = D[k],
           NEW f, f.id \in DOMAIN D, f.id \in DOMAIN D2, Sees(f, D)
    PROVE  Sees(f, D2)
<1>1. PathOf(D2, f.id) = PathOf(D, f.id) /\ RootOf(D2, f.id) = RootOf(D, f.id)
    <2>1. \A d \in DOMAIN D \cap DOMAIN D2 :
             PathOf(D2, d) = PathOf(D, d) /\ RootOf(D2, d) = RootOf(D, d)
        BY PathsKept
    <2> QED BY <2>1
<1>2. D2[f.id] = D[f.id]
    OBVIOUS
<1> QED BY <1>1, <1>2 DEF Sees

\* A step of the scan keeps PInv if the rows and the activations are right that
\* it is the first to have.
LEMMA ScanStepKeeps ==
    ASSUME IInv, IInv', PInv, UNCHANGED <<fs, app, bounds, made, observer>>,
           todo' \in Seq(Paths), ToSet(todo') \subseteq ToSet(Roots),
           \A k \in DOMAIN dirs \cap DOMAIN dirs' : dirs'[k] = dirs[k],
           \A k \in DOMAIN songs \cap DOMAIN songs' : songs'[k] = songs[k],
           \A d \in DOMAIN dirs' \ DOMAIN dirs : DirRowOK(dirs', d),
           \A s \in DOMAIN songs' \ DOMAIN songs : SongRowOK(dirs', songs', s),
           \A f \in ToSet(stack') : \/ f.id \in DOMAIN dirs /\ Sees(f, dirs)
                                    \/ Sees(f, dirs')
    PROVE  PInv'
<1>1. /\ TablesOK(dirs, songs) /\ StackOK(stack, dirs, songs)
      /\ TablesOK(dirs', songs') /\ StackOK(stack', dirs', songs')
    BY DEF IInv
<1>2. RowsOK(dirs', songs')
    BY <1>1, RowsKept DEF PInv
<1>3. ASSUME NEW f \in ToSet(stack') PROVE Sees(f, dirs')
    <2>1. CASE Sees(f, dirs')
        BY <2>1
    <2>2. CASE f.id \in DOMAIN dirs /\ Sees(f, dirs)
        <3>1. f.id \in DOMAIN dirs'
            BY <1>1, StackFrames DEF FrameOK
        <3> QED BY <1>1, <2>2, <3>1, SeesKept
    <2> QED BY <2>1, <2>2
<1>4. World' /\ Kinds'
    BY DEF PInv, World, Kinds, observer, bounds
<1>5. ASSUME NEW f \in ToSet(stack)' PROVE Sees(f, dirs)'
    BY <1>3, <1>5 DEF Sees, observer, bounds
<1> QED BY <1>2, <1>4, <1>5 DEF PInv

------------------------------------------------------------------------------
(* What the steps of the scan do to the stack and to the tables.           *)

IsFrame(g, mode, id, depth, opened, entries, d, s) ==
    /\ g \in Frames /\ g.mode = mode /\ g.id = id /\ g.depth = depth /\ g.opened = opened
    /\ g.entries = entries /\ g.dirs = d /\ g.songs = s

LEMMA Inserted ==
    ASSUME NEW T, Bounded(T), NEW row
    PROVE  /\ NewId(T) \in Nat \ {0} /\ NewId(T) \notin DOMAIN T
           /\ DOMAIN Insert(T, row) = DOMAIN T \cup {NewId(T)}
           /\ Insert(T, row)[NewId(T)] = row
           /\ \A k \in DOMAIN T : Insert(T, row)[k] = T[k]
<1>1. NewId(T) \in Nat \ {0} /\ \A k \in DOMAIN T : k \in Nat /\ k < NewId(T)
    BY NextRowid DEF NewId
<1>2. NewId(T) \notin DOMAIN T
    BY <1>1
<1> QED BY <1>1, <1>2 DEF Insert

LEMMA DirPathIs ==
    \A d : DirPath[d] = PathOf(dirs, d) /\ RootPath[d] = RootOf(dirs, d)
BY SameFunctions DEF PathOf, RootOf

LEMMA SongPathIs == \A s : SongPath(s) = SongAt(dirs, songs, s)
BY DirPathIs DEF SongPath, SongAt
\* The activation on top, and what is known of it.
LEMMA TopSees ==
    ASSUME IInv, PInv, stack # <<>>
    PROVE  /\ Top \in Frames /\ Top \in ToSet(stack)
           /\ FrameOK(Top, dirs, songs) /\ Sees(Top, dirs)
           /\ Top.id \in DOMAIN dirs /\ Top.id \in Nat \ {0}
           /\ Top.depth \in Nat /\ Top.opened \in Nat
           /\ TablesOK(dirs, songs) /\ RowsOK(dirs, songs)
           /\ Top.mode # "enter" =>
                 /\ \A k \in Top.dirs :
                       /\ k \in DOMAIN dirs /\ dirs[k].parent = Top.id
                       /\ PathOf(dirs, k) = Append(PathOf(dirs, Top.id), dirs[k].name)
                       /\ RootOf(dirs, k) = RootOf(dirs, Top.id)
                 /\ \A s \in Top.songs :
                       /\ s \in DOMAIN songs /\ songs[s].dir = Top.id
                       /\ SongAt(dirs, songs, s) = Append(PathOf(dirs, Top.id), songs[s].name)
<1>1. /\ Top \in Frames /\ Top \in ToSet(stack) /\ FrameOK(Top, dirs, songs)
      /\ Top.id \in DOMAIN dirs /\ Top.id \in Nat \ {0}
    BY TopFacts, StackSets
<1>2. Sees(Top, dirs) /\ TablesOK(dirs, songs) /\ RowsOK(dirs, songs)
    BY <1>1 DEF PInv, IInv
<1>3. Top.depth \in Nat /\ Top.opened \in Nat
    BY <1>1 DEF Frames
<1>4. ASSUME Top.mode # "enter", NEW k \in Top.dirs
      PROVE  /\ k \in DOMAIN dirs /\ dirs[k].parent = Top.id
             /\ PathOf(dirs, k) = Append(PathOf(dirs, Top.id), dirs[k].name)
             /\ RootOf(dirs, k) = RootOf(dirs, Top.id)
    <2>1. k \in DOMAIN dirs /\ dirs[k].parent = Top.id
        BY <1>1, <1>4 DEF FrameOK, OnLists, Under
    <2> QED BY <1>1, <1>2, <2>1, Unfolded
<1>5. ASSUME Top.mode # "enter", NEW s \in Top.songs
      PROVE  /\ s \in DOMAIN songs /\ songs[s].dir = Top.id
             /\ SongAt(dirs, songs, s) = Append(PathOf(dirs, Top.id), songs[s].name)
    BY <1>1, <1>5 DEF FrameOK, OnLists, In, SongAt
<1> QED BY <1>1, <1>2, <1>3, <1>4, <1>5

\* The entry that the iterator returns.
LEMMA AtEntry ==
    ASSUME IInv, PInv, NEW n, NEW kind, NEW f, Visits(n, kind, f)
    PROVE  LET p == PathOf(dirs, Top.id)
               q == Append(p, n)
               r == RootOf(dirs, Top.id)
           IN  /\ stack # <<>> /\ Top.mode = "sync" /\ TakenFrom(f, Top, n)
               /\ p \in Paths /\ q \in Paths /\ q = Entry(n) /\ fs[q] = kind
               /\ Front(q) = p /\ Last(q) = n /\ Len(q) = Len(p) + 1 /\ Len(q) > 1
               /\ Len(q) <= Len(r) + DepthLimit /\ Len(q) = Len(r) + Top.depth
               /\ Len(p) < Len(r) + DepthLimit /\ Len(r) \in Nat /\ r \in ToSet(Roots)
               /\ IsPrefix(r, q)
               /\ stable => /\ fs[r] = "dir" /\ fs[p] = "dir" /\ kind # "none"
                            /\ n \in Top.entries /\ f.entries = Top.entries \ {n}
<1> DEFINE p == PathOf(dirs, Top.id)
           q == Append(p, n)
           r == RootOf(dirs, Top.id)
<1>1. /\ stack # <<>> /\ Top.mode = "sync" /\ TakenFrom(f, Top, n) /\ fs[q] = kind
      /\ q = Entry(n)
    BY Taken, DirPathIs DEF PInv, Entry
<1>2. /\ Top.id \in DOMAIN dirs /\ TablesOK(dirs, songs) /\ RowsOK(dirs, songs)
      /\ Top.depth \in Nat /\ Top.opened \in Nat /\ Sees(Top, dirs)
    BY <1>1, TopSees
<1>3. /\ \A m \in Top.entries : Append(p, m) \in Paths
      /\ Len(p) + 1 = Len(r) + Top.depth /\ Top.depth <= DepthLimit
      /\ stable => /\ fs[r] = "dir" /\ fs[p] = "dir" /\ Top.opened = changes
                   /\ \A m \in Top.entries : fs[Append(p, m)] # "none"
    BY <1>1, <1>2 DEF Sees
<1>4. q \in Paths
    BY <1>1, <1>3 DEF TakenFrom
<1>5. /\ p \in Paths /\ p \in Seq(Names) /\ Len(p) \in Nat \ {0}
      /\ r \in Seq(Names) /\ Len(r) \in Nat /\ r \in ToSet(Roots) /\ IsPrefix(r, p)
    BY <1>2, DirFacts
<1>6. stable => n \in Top.entries /\ f.entries = Top.entries \ {n} /\ kind # "none"
    <2>1. SUFFICES ASSUME stable PROVE n \in Top.entries /\ f.entries = Top.entries \ {n}
        BY <1>1, <1>3
    <2>2. made[q] \in 0..changes /\ changes \in Nat
        BY <1>4 DEF PInv, Kinds
    <2>3. ~(made[q] > Top.opened)
        BY <1>3, <2>1, <2>2
    <2> HIDE DEF q
    <2> QED BY <1>1, <2>3 DEF TakenFrom
<1> HIDE DEF p, r
<1>7. Front(q) = p /\ Last(q) = n /\ n \in Names /\ Len(q) = Len(p) + 1 /\ Len(q) > 1
    BY <1>4, <1>5, EntryFacts
<1>8. IsPrefix(r, q)
    BY <1>5, <1>7, PrefixFacts
<1> HIDE DEF q
<1>9. /\ Len(q) <= Len(r) + DepthLimit /\ Len(q) = Len(r) + Top.depth
      /\ Len(p) < Len(r) + DepthLimit
    BY <1>2, <1>3, <1>5, <1>7, DepthIsLimited
<1> QED BY <1>1, <1>3, <1>4, <1>5, <1>6, <1>7, <1>8, <1>9 DEF p, q, r

LEMMA EnteringIs ==
    ASSUME NEW id \in Nat, NEW c \in 0..DepthLimit
    PROVE  IsFrame(Entering(id, c), "enter", id, c, 0, {}, {}, {})
BY DEF IsFrame, Entering, Frames

\* A frame that an entry and a row were taken from.
LEMMA LessFrame ==
    ASSUME NEW n, NEW f, TakenFrom(f, Top, n), NEW d, NEW s
    PROVE  /\ IsFrame(f, "sync", Top.id, Top.depth, Top.opened, f.entries, Top.dirs, Top.songs)
           /\ IsFrame([f EXCEPT !.dirs = @ \ {d}], "sync", Top.id, Top.depth, Top.opened,
                      f.entries, Top.dirs \ {d}, Top.songs)
           /\ IsFrame([f EXCEPT !.songs = @ \ {s}], "sync", Top.id, Top.depth, Top.opened,
                      f.entries, Top.dirs, Top.songs \ {s})
<1>1. /\ f \in Frames /\ f.id = Top.id /\ f.mode = "sync" /\ f.depth = Top.depth
      /\ f.opened = Top.opened /\ f.dirs = Top.dirs /\ f.songs = Top.songs
    BY DEF TakenFrom
<1>2. IsFrame(f, "sync", Top.id, Top.depth, Top.opened, f.entries, Top.dirs, Top.songs)
    BY <1>1 DEF IsFrame
<1>3. PICK g : g = [f EXCEPT !.dirs = @ \ {d}]
    OBVIOUS
<1>4. IsFrame(g, "sync", Top.id, Top.depth, Top.opened, f.entries, Top.dirs \ {d}, Top.songs)
    <2>1. /\ g \in Frames /\ g.id = f.id /\ g.mode = f.mode /\ g.depth = f.depth
          /\ g.opened = f.opened /\ g.entries = f.entries
          /\ g.dirs = f.dirs \ {d} /\ g.songs = f.songs
        BY <1>1, <1>3, FewerRows
    <2> QED BY <1>1, <2>1 DEF IsFrame
<1>5. PICK h : h = [f EXCEPT !.songs = @ \ {s}]
    OBVIOUS
<1>6. IsFrame(h, "sync", Top.id, Top.depth, Top.opened, f.entries, Top.dirs, Top.songs \ {s})
    <2>1. /\ h \in Frames /\ h.id = f.id /\ h.mode = f.mode /\ h.depth = f.depth
          /\ h.opened = f.opened /\ h.entries = f.entries
          /\ h.dirs = f.dirs /\ h.songs = f.songs \ {s}
        BY <1>1, <1>5, FewerRows
    <2> QED BY <1>1, <2>1 DEF IsFrame
<1> QED BY <1>2, <1>3, <1>4, <1>5, <1>6

\* sync calls itself for a directory that has a row or gets one.
LEMMA VisitDirDoes ==
    ASSUME IInv, PInv, NEW n, NEW f, VisitDir(n, f)
    PROVE  LET row == [parent |-> Top.id, name |-> n]
           IN  \E g, h \in Frames, d \in Nat \ {0} :
                  /\ IsFrame(g, "sync", Top.id, Top.depth, Top.opened, f.entries,
                             Top.dirs \ {d}, Top.songs)
                  /\ IsFrame(h, "enter", d, Top.depth, 0, {}, {}, {})
                  /\ ToSet(stack') = ToSet(Below) \cup {g, h}
                  /\ \/ d \in KnownDirs(n) /\ dirs' = dirs
                     \/ /\ KnownDirs(n) = {} /\ d \notin DOMAIN dirs
                        /\ DOMAIN dirs' = DOMAIN dirs \cup {d} /\ dirs'[d] = row
                        /\ \A k \in DOMAIN dirs : dirs'[k] = dirs[k]
<1> DEFINE row == [parent |-> Top.id, name |-> n]
<1>1. stack # <<>> /\ Top.mode = "sync" /\ TakenFrom(f, Top, n)
    BY AtEntry DEF VisitDir
<1>2. /\ Top \in Frames /\ Top.depth \in 0..DepthLimit /\ TablesOK(dirs, songs)
      /\ \A k \in Top.dirs : k \in DOMAIN dirs
    BY <1>1, TopSees DEF Frames
<1>3. PICK g \in Frames, d \in Nat \ {0} :
         /\ IsFrame(g, "sync", Top.id, Top.depth, Top.opened, f.entries, Top.dirs \ {d}, Top.songs)
         /\ stack' = Below \o <<g, Entering(d, Top.depth)>>
         /\ \/ d \in KnownDirs(n) /\ dirs' = dirs
            \/ /\ KnownDirs(n) = {} /\ d \notin DOMAIN dirs
               /\ DOMAIN dirs' = DOMAIN dirs \cup {d} /\ dirs'[d] = row
               /\ \A k \in DOMAIN dirs : dirs'[k] = dirs[k]
    <2>1. CASE KnownDirs(n) = {}
        <3>1. dirs' = Insert(dirs, row) /\ stack' = Below \o <<f, Entering(NewId(dirs), Top.depth)>>
            BY <2>1 DEF VisitDir
        <3>2. PICK w : w = row
            OBVIOUS
        <3> HIDE DEF row
        <3>3. /\ NewId(dirs) \in Nat \ {0} /\ NewId(dirs) \notin DOMAIN dirs
              /\ DOMAIN dirs' = DOMAIN dirs \cup {NewId(dirs)} /\ dirs'[NewId(dirs)] = row
              /\ \A k \in DOMAIN dirs : dirs'[k] = dirs[k]
            <4>1. Bounded(dirs) /\ dirs' = Insert(dirs, w)
                BY <1>2, <3>1, <3>2 DEF TablesOK
            <4> QED BY <3>2, <4>1, Inserted
        <3>4. Top.dirs \ {NewId(dirs)} = Top.dirs
            BY <1>2, <3>3
        <3>5. IsFrame(f, "sync", Top.id, Top.depth, Top.opened, f.entries,
                      Top.dirs \ {NewId(dirs)}, Top.songs)
            BY <1>1, <3>4, LessFrame
        <3>6. f \in Frames
            BY <3>5 DEF IsFrame
        <3> QED BY <2>1, <3>1, <3>3, <3>5, <3>6
    <2>2. CASE KnownDirs(n) # {}
        <3>1. PICK d \in KnownDirs(n) :
                stack' = Below \o <<[f EXCEPT !.dirs = @ \ {d}], Entering(d, Top.depth)>>
            BY <2>2 DEF VisitDir
        <3>2. dirs' = dirs
            BY <2>2 DEF VisitDir
        <3>3. d \in Nat \ {0}
            <4>1. d \in DOMAIN dirs
                BY <1>2 DEF KnownDirs
            <4> QED BY <1>2, <4>1, Unfolded
        <3>4. PICK g : /\ g = [f EXCEPT !.dirs = @ \ {d}]
                       /\ IsFrame(g, "sync", Top.id, Top.depth, Top.opened, f.entries,
                                  Top.dirs \ {d}, Top.songs)
            BY <1>1, LessFrame
        <3>5. g \in Frames
            BY <3>4 DEF IsFrame
        <3> QED BY <3>1, <3>2, <3>3, <3>4, <3>5
    <2> QED BY <2>1, <2>2
<1> HIDE DEF row
<1>4. PICK h : h = Entering(d, Top.depth) /\ IsFrame(h, "enter", d, Top.depth, 0, {}, {}, {})
    BY <1>2, EnteringIs
<1>5. g \in Frames /\ h \in Frames
    BY <1>3, <1>4 DEF IsFrame
<1>6. ToSet(stack') = ToSet(Below) \cup {g, h}
    BY <1>1, <1>3, <1>4, <1>5, StackSets
<1> QED BY <1>3, <1>4, <1>5, <1>6 DEF row

\* sync goes on to the next entry: past a song that it knows or has recorded, or
\* past an entry that vanished.
LEMMA VisitSongDoes ==
    ASSUME IInv, PInv, NEW n, NEW f,
           VisitKnownSong(n, f) \/ VisitNewSong(n, f) \/ VisitVanishing(n, f)
    PROVE  \E g, s :
              /\ g \in Frames
              /\ IsFrame(g, "sync", Top.id, Top.depth, Top.opened, f.entries, Top.dirs,
                         Top.songs \ {s})
              /\ ToSet(stack') = ToSet(Below) \cup {g}
              /\ stack # <<>> /\ Top.mode = "sync" /\ dirs' = dirs
              /\ \/ Visits(n, "song", f) /\ s \in KnownSongs(n) /\ songs' = songs
                 \/ /\ Visits(n, "song", f) /\ KnownSongs(n) = {} /\ s \notin DOMAIN songs
                    /\ DOMAIN songs' = DOMAIN songs \cup {s}
                    /\ songs'[s] = [dir |-> Top.id, name |-> n]
                    /\ \A k \in DOMAIN songs : songs'[k] = songs[k]
                 \/ Visits(n, "none", f) /\ s \notin Top.songs /\ songs' = songs
<1>1. PICK kind : Visits(n, kind, f)
    BY DEF VisitKnownSong, VisitNewSong, VisitVanishing
<1>2. stack # <<>> /\ Top.mode = "sync" /\ TakenFrom(f, Top, n)
    BY <1>1, AtEntry
<1>3. /\ TablesOK(dirs, songs) /\ \A k \in Top.songs : k \in DOMAIN songs
      /\ 0 \notin DOMAIN songs /\ dirs' = dirs
    BY <1>2, TopSees DEF TablesOK, Bounded, VisitKnownSong, VisitNewSong, VisitVanishing, tables
<1>4. PICK g, s :
        /\ IsFrame(g, "sync", Top.id, Top.depth, Top.opened, f.entries, Top.dirs, Top.songs \ {s})
        /\ stack' = Append(Below, g)
        /\ \/ Visits(n, "song", f) /\ s \in KnownSongs(n) /\ songs' = songs
           \/ /\ Visits(n, "song", f) /\ KnownSongs(n) = {} /\ s \notin DOMAIN songs
              /\ DOMAIN songs' = DOMAIN songs \cup {s}
              /\ songs'[s] = [dir |-> Top.id, name |-> n]
              /\ \A k \in DOMAIN songs : songs'[k] = songs[k]
           \/ Visits(n, "none", f) /\ s \notin Top.songs /\ songs' = songs
    <2>1. CASE VisitKnownSong(n, f)
        <3>1. PICK s \in KnownSongs(n) : stack' = Append(Below, [f EXCEPT !.songs = @ \ {s}])
            BY <2>1 DEF VisitKnownSong
        <3>2. PICK g : /\ g = [f EXCEPT !.songs = @ \ {s}]
                       /\ IsFrame(g, "sync", Top.id, Top.depth, Top.opened, f.entries,
                                  Top.dirs, Top.songs \ {s})
            BY <1>2, LessFrame
        <3>3. Visits(n, "song", f) /\ songs' = songs
            BY <2>1 DEF VisitKnownSong, tables
        <3> QED BY <3>1, <3>2, <3>3
    <2>2. CASE VisitNewSong(n, f)
        <3> DEFINE row == [dir |-> Top.id, name |-> n]
        <3>1. /\ Visits(n, "song", f) /\ KnownSongs(n) = {} /\ songs' = Insert(songs, row)
              /\ stack' = Append(Below, f)
            BY <2>2 DEF VisitNewSong
        <3>5. PICK w : w = row
            OBVIOUS
        <3> HIDE DEF row
        <3>2. /\ NewId(songs) \notin DOMAIN songs
              /\ DOMAIN songs' = DOMAIN songs \cup {NewId(songs)} /\ songs'[NewId(songs)] = row
              /\ \A k \in DOMAIN songs : songs'[k] = songs[k]
            <4>1. Bounded(songs) /\ songs' = Insert(songs, w)
                BY <1>3, <3>1, <3>5 DEF TablesOK
            <4>2. /\ NewId(songs) \notin DOMAIN songs
                  /\ DOMAIN Insert(songs, w) = DOMAIN songs \cup {NewId(songs)}
                  /\ Insert(songs, w)[NewId(songs)] = w
                  /\ \A k \in DOMAIN songs : Insert(songs, w)[k] = songs[k]
                BY <4>1, Inserted
            <4> QED BY <3>5, <4>1, <4>2
        <3>3. Top.songs \ {NewId(songs)} = Top.songs
            BY <1>3, <3>2
        <3>4. IsFrame(f, "sync", Top.id, Top.depth, Top.opened, f.entries, Top.dirs,
                      Top.songs \ {NewId(songs)})
            BY <1>2, <3>3, LessFrame
        <3> QED BY <3>1, <3>2, <3>4 DEF row
    <2>3. CASE VisitVanishing(n, f)
        <3>1. Visits(n, "none", f) /\ songs' = songs /\ stack' = Append(Below, f)
            BY <2>3 DEF VisitVanishing, tables
        <3>2. 0 \notin Top.songs /\ Top.songs \ {0} = Top.songs
            BY <1>3
        <3>3. IsFrame(f, "sync", Top.id, Top.depth, Top.opened, f.entries, Top.dirs,
                      Top.songs \ {0})
            BY <1>2, <3>2, LessFrame
        <3> QED BY <3>1, <3>2, <3>3
    <2> QED BY <2>1, <2>2, <2>3
<1>5. g \in Frames
    BY <1>4 DEF IsFrame
<1>6. ToSet(stack') = ToSet(Below) \cup {g}
    BY <1>2, <1>4, <1>5, StackSets
<1> QED BY <1>2, <1>3, <1>4, <1>5, <1>6

\* sync reads what the tables know of its directory and opens it.
LEMMA EnterDirDoes ==
    ASSUME IInv, PInv, EnterDir
    PROVE  /\ stack # <<>> /\ Top.mode = "enter" /\ UNCHANGED tables
           /\ Top.depth < DepthLimit /\ fs[PathOf(dirs, Top.id)] = "dir"
           /\ \E g \in Frames :
                 /\ IsFrame(g, "sync", Top.id, Top.depth + 1, changes, Contents,
                            Under(dirs, Top.id), In(songs, Top.id))
                 /\ ToSet(stack') = ToSet(Below) \cup {g}
<1>1. /\ stack # <<>> /\ Top.mode = "enter" /\ UNCHANGED tables /\ Top.depth < DepthLimit
      /\ fs[PathOf(dirs, Top.id)] = "dir"
    BY DirPathIs DEF EnterDir, InFrame
<1>2. /\ Top \in Frames /\ Children(Top.id) = Under(dirs, Top.id)
      /\ SongsOf(Top.id) = In(songs, Top.id)
    BY <1>1, TopFacts
<1>3. PICK c \in 0..DepthLimit : c = Top.depth + 1
    BY <1>1, <1>2, Deeper
<1>4. PICK d \in SUBSET Nat, s \in SUBSET Nat : d = Under(dirs, Top.id) /\ s = In(songs, Top.id)
    <2>1. Under(dirs, Top.id) \in SUBSET Nat
        BY DEF IInv, TablesOK, Bounded, Under
    <2>2. In(songs, Top.id) \in SUBSET Nat
        BY DEF IInv, TablesOK, Bounded, In
    <2> QED BY <2>1, <2>2
<1>5. PICK e \in SUBSET Names, o \in Nat : e = Contents /\ o = changes
    BY DEF Contents, PInv, Kinds
<1>6. PICK g \in Frames : /\ g = Entered(Top, c, o, e, d, s)
                          /\ IsFrame(g, "sync", Top.id, c, o, e, d, s)
    BY <1>2, EnteredFrame DEF IsFrame
<1>7. stack' = Append(Below, g)
    BY <1>2, <1>3, <1>4, <1>5, <1>6, EnterDirIs
<1>8. ToSet(stack') = ToSet(Below) \cup {g}
    BY <1>1, <1>7, StackSets
<1> QED BY <1>1, <1>3, <1>4, <1>5, <1>6, <1>8

\* The iterator is at its end; under stable it has returned all.
LEMMA LoopEndsDoes ==
    ASSUME IInv, PInv, LoopEnds
    PROVE  /\ stack # <<>> /\ Top.mode = "sync" /\ UNCHANGED tables
           /\ stable => Top.entries = {}
           /\ \E g \in Frames :
                 /\ IsFrame(g, "reap", Top.id, Top.depth, 0, {}, Top.dirs, Top.songs)
                 /\ ToSet(stack') = ToSet(Below) \cup {g}
<1>1. /\ stack # <<>> /\ Top.mode = "sync" /\ UNCHANGED tables
      /\ stack' = Append(Below, Ended(Top))
      /\ \A n \in Top.entries : fs[Entry(n)] = "none" \/ made[Entry(n)] > Top.opened
    BY DEF LoopEnds, InFrame, Ended
<1>2. PICK f \in Frames : f = Top
    BY <1>1, TopSees
<1>3. PICK g \in Frames : /\ g = Ended(f)
                          /\ IsFrame(g, "reap", f.id, f.depth, 0, {}, f.dirs, f.songs)
    BY EndedFrame DEF IsFrame
<1>4. ToSet(stack') = ToSet(Below) \cup {g}
    BY <1>1, <1>2, <1>3, StackSets
<1>5. ASSUME stable, NEW n \in Top.entries PROVE FALSE
    <2>1. /\ Append(PathOf(dirs, Top.id), n) \in Paths /\ Top.opened = changes
          /\ fs[Append(PathOf(dirs, Top.id), n)] # "none"
        BY <1>1, <1>5, TopSees DEF Sees
    <2>2. PICK q \in Paths : q = Entry(n) /\ fs[q] # "none"
        BY <2>1, DirPathIs DEF Entry
    <2>3. made[q] > changes
        BY <1>1, <1>5, <2>1, <2>2
    <2>4. made[q] \in 0..changes /\ changes \in Nat
        BY <2>2 DEF PInv, Kinds
    <2> QED BY <2>3, <2>4
<1> QED BY <1>1, <1>2, <1>3, <1>4, <1>5

\* A directory is destroyed with all that is in it.
LEMMA ReapDirDoes ==
    ASSUME IInv, PInv, ReapDir
    PROVE  \E g, h \in Frames, d \in Top.dirs :
              /\ IsFrame(g, Top.mode, Top.id, Top.depth, Top.opened, Top.entries, Top.dirs \ {d},
                         Top.songs)
              /\ IsFrame(h, "destroy", d, 0, 0, {}, Under(dirs, d), In(songs, d))
              /\ ToSet(stack') = ToSet(Below) \cup {g, h}
<1>1. PICK d \in Top.dirs :
        stack' = Below \o <<[Top EXCEPT !.dirs = @ \ {d}],
                            [Entering(d, 0) EXCEPT !.mode = "destroy", !.dirs = Children(d),
                                                   !.songs = SongsOf(d)]>>
    BY DEF ReapDir
<1> DEFINE g == [Top EXCEPT !.dirs = @ \ {d}]
           h == [Entering(d, 0) EXCEPT !.mode = "destroy", !.dirs = Children(d),
                                       !.songs = SongsOf(d)]
<1>2. stack # <<>> /\ Top \in Frames
    BY ReapingTop DEF ReapDir
<1>3. IsFrame(g, Top.mode, Top.id, Top.depth, Top.opened, Top.entries, Top.dirs \ {d}, Top.songs)
    BY <1>2, FewerRows DEF IsFrame
<1>4. IsFrame(h, "destroy", d, 0, 0, {}, Under(dirs, d), In(songs, d))
    <2>1. Children(d) \in SUBSET Nat /\ SongsOf(d) \in SUBSET Nat
        BY DEF IInv, TablesOK, Bounded, Children, SongsOf
    <2>2. d \in Nat
        BY <1>2 DEF Frames
    <2>3. PICK e : e = Entering(d, 0) /\ IsFrame(e, "enter", d, 0, 0, {}, {}, {})
        BY <2>2, DepthIsLimited, EnteringIs
    <2>4. h = [e EXCEPT !.mode = "destroy", !.dirs = Children(d), !.songs = SongsOf(d)]
        BY <2>3
    <2> HIDE DEF h
    <2> QED BY <2>1, <2>3, <2>4 DEF IsFrame, Frames, Children, SongsOf, Under, In
<1>5. stack' = Below \o <<g, h>>
    BY <1>1
<1> HIDE DEF g, h
<1>6. g \in Frames /\ h \in Frames
    BY <1>3, <1>4 DEF IsFrame
<1>7. ToSet(stack') = ToSet(Below) \cup {g, h}
    BY <1>2, <1>5, <1>6, StackSets
<1> QED BY <1>3, <1>4, <1>6, <1>7

LEMMA ReapSongDoes ==
    ASSUME IInv, PInv, ReapSong
    PROVE  \E g \in Frames, s \in Top.songs :
              /\ IsFrame(g, Top.mode, Top.id, Top.depth, Top.opened, Top.entries, Top.dirs,
                         Top.songs \ {s})
              /\ ToSet(stack') = ToSet(Below) \cup {g}
              /\ DOMAIN songs' = DOMAIN songs \ {s} /\ \A k \in DOMAIN songs' : songs'[k] = songs[k]
<1>1. PICK s \in Top.songs : /\ songs' = Delete(songs, s)
                             /\ stack' = Append(Below, [Top EXCEPT !.songs = @ \ {s}])
    BY DEF ReapSong
<1> DEFINE g == [Top EXCEPT !.songs = @ \ {s}]
<1>2. stack # <<>> /\ Top \in Frames
    BY ReapingTop DEF ReapSong
<1>3. IsFrame(g, Top.mode, Top.id, Top.depth, Top.opened, Top.entries, Top.dirs, Top.songs \ {s})
    BY <1>2, FewerRows DEF IsFrame
<1>4. stack' = Append(Below, g)
    BY <1>1
<1> HIDE DEF g
<1>5. g \in Frames
    BY <1>3 DEF IsFrame
<1>6. ToSet(stack') = ToSet(Below) \cup {g}
    BY <1>2, <1>4, <1>5, StackSets
<1>7. DOMAIN songs' = DOMAIN songs \ {s} /\ \A k \in DOMAIN songs' : songs'[k] = songs[k]
    BY <1>1 DEF Delete
<1> QED BY <1>3, <1>5, <1>6, <1>7

\* destroy ends with the row of its directory, which has nothing in it any more.
LEMMA ReturnDoes ==
    ASSUME IInv, PInv, Return
    PROVE  /\ stack # <<>> /\ ToSet(stack') = ToSet(Below) /\ songs' = songs
           /\ Top.mode = "destroy" =>
                 /\ Under(dirs, Top.id) = {} /\ In(songs, Top.id) = {}
                 /\ DOMAIN dirs' = DOMAIN dirs \ {Top.id}
                 /\ \A k \in DOMAIN dirs' : dirs'[k] = dirs[k]
           /\ Top.mode # "destroy" =>
                 /\ Top.mode = "reap" /\ Top.entries = {} /\ Top.dirs = {} /\ Top.songs = {}
                 /\ dirs' = dirs
<1>1. /\ Reaping /\ Top.dirs = {} /\ Top.songs = {} /\ songs' = songs /\ stack' = Below
      /\ dirs' = IF Top.mode = "destroy" THEN Delete(dirs, Top.id) ELSE dirs
    BY DEF Return
<1>2. stack # <<>>
    BY <1>1, ReapingTop
<1>3. Top.mode = "destroy" =>
         /\ Under(dirs, Top.id) = {} /\ In(songs, Top.id) = {}
         /\ DOMAIN dirs' = DOMAIN dirs \ {Top.id}
         /\ \A k \in DOMAIN dirs' : dirs'[k] = dirs[k]
    BY <1>1, ReapingTop DEF Delete
<1>4. Top.mode # "destroy" => Top.mode = "reap" /\ dirs' = dirs
    BY <1>1 DEF Reaping, InFrame
<1>5. Top.mode = "reap" => Top.entries = {}
    BY <1>2, TopSees DEF Sees
<1> QED BY <1>1, <1>2, <1>3, <1>4, <1>5

\* create_root inserts a row for a root that has none, or has its row.
LEMMA ScanRootDoes ==
    ASSUME IInv, PInv, ScanRoot
    PROVE  LET row == [parent |-> 0, name |-> Head(todo)]
               known == {k \in DOMAIN dirs : dirs[k] = row}
           IN  /\ stack = <<>> /\ todo # <<>> /\ todo' = Tail(todo) /\ songs' = songs
               /\ \E h \in Frames, d \in Nat \ {0} :
                     /\ IsFrame(h, "enter", d, 0, 0, {}, {}, {})
                     /\ ToSet(stack') = {h}
                     /\ \/ d \in known /\ dirs' = dirs
                        \/ /\ known = {} /\ d \notin DOMAIN dirs
                           /\ DOMAIN dirs' = DOMAIN dirs \cup {d} /\ dirs'[d] = row
                           /\ \A k \in DOMAIN dirs : dirs'[k] = dirs[k]
<1> DEFINE row == [parent |-> 0, name |-> Head(todo)]
           known == {k \in DOMAIN dirs : dirs[k] = row}
<1>1. stack = <<>> /\ todo # <<>> /\ todo' = Tail(todo) /\ songs' = songs
    BY DEF ScanRoot
<1>2. TablesOK(dirs, songs) /\ Bounded(dirs)
    BY DEF IInv, TablesOK
<1>3. PICK d \in Nat \ {0} :
         /\ stack' = <<Entering(d, 0)>>
         /\ \/ d \in known /\ dirs' = dirs
            \/ /\ known = {} /\ d \notin DOMAIN dirs
               /\ DOMAIN dirs' = DOMAIN dirs \cup {d} /\ dirs'[d] = row
               /\ \A k \in DOMAIN dirs : dirs'[k] = dirs[k]
    <2>1. CASE known = {}
        <3>1. dirs' = Insert(dirs, row) /\ stack' = <<Entering(NewId(dirs), 0)>>
            BY <2>1 DEF ScanRoot
        <3> HIDE DEF row, known
        <3>2. /\ NewId(dirs) \in Nat \ {0} /\ NewId(dirs) \notin DOMAIN dirs
              /\ DOMAIN dirs' = DOMAIN dirs \cup {NewId(dirs)} /\ dirs'[NewId(dirs)] = row
              /\ \A k \in DOMAIN dirs : dirs'[k] = dirs[k]
            BY <1>2, <3>1, Inserted
        <3> QED BY <2>1, <3>1, <3>2
    <2>2. CASE known # {}
        <3>1. PICK d \in known : stack' = <<Entering(d, 0)>>
            BY <2>2 DEF ScanRoot
        <3>2. dirs' = dirs
            BY <2>2 DEF ScanRoot
        <3>3. d \in Nat \ {0}
            BY <1>2, Unfolded
        <3> QED BY <3>1, <3>2, <3>3
    <2> QED BY <2>1, <2>2
<1> HIDE DEF row, known
<1>4. PICK h : h = Entering(d, 0) /\ IsFrame(h, "enter", d, 0, 0, {}, {}, {})
    BY DepthIsLimited, EnteringIs
<1>5. ToSet(stack') = {h}
    <2>1. stack' = <<h>> /\ ToSet(<<h>>) = {h}
        BY <1>3, <1>4 DEF ToSet
    <2> QED BY <2>1
<1>6. h \in Frames
    BY <1>4 DEF IsFrame
<1> QED BY <1>1, <1>3, <1>4, <1>5, <1>6 DEF row, known

------------------------------------------------------------------------------
(* Every step keeps what the activations have seen.                        *)

\* An activation that was not there before is all right in the tables after.
LEMMA FramesAfter ==
    ASSUME IInv' PROVE \A f \in ToSet(stack') : f \in Frames /\ FrameOK(f, dirs', songs')
BY StackFrames DEF IInv

LEMMA TodoOK == PInv => todo \in Seq(Paths) /\ ToSet(todo) \subseteq ToSet(Roots)
BY DEF PInv, World

\* The activations that were there.
LEMMA FramesBefore ==
    ASSUME IInv, PInv
    PROVE  \A f \in ToSet(stack) : f.id \in DOMAIN dirs /\ Sees(f, dirs)
BY StackFrames DEF IInv, PInv, FrameOK

\* sync has gone on to the next entry.
LEMMA SeesOn ==
    ASSUME NEW D, NEW f, f.mode = "sync", Sees(f, D), NEW E, E \subseteq f.entries,
           NEW d, NEW s, NEW g, IsFrame(g, "sync", f.id, f.depth, f.opened, E, d, s)
    PROVE  Sees(g, D)
BY DEF Sees, IsFrame

\* The row of the directory that sync calls itself for.
DirVisited(g, h, d, n, f) ==
    /\ IsFrame(g, "sync", Top.id, Top.depth, Top.opened, f.entries, Top.dirs \ {d},
               Top.songs)
    /\ IsFrame(h, "enter", d, Top.depth, 0, {}, {}, {})
    /\ ToSet(stack') = ToSet(Below) \cup {g, h}
    /\ d \in DOMAIN dirs' /\ Top.id \in DOMAIN dirs'
    /\ \A k \in DOMAIN dirs : k \in DOMAIN dirs' /\ dirs'[k] = dirs[k]
    /\ \A k \in DOMAIN dirs' \ DOMAIN dirs :
          k = d /\ dirs'[k] = [parent |-> Top.id, name |-> n] /\ KnownDirs(n) = {}
    /\ d \in DOMAIN dirs => d \in KnownDirs(n)
    /\ dirs'[d].parent = Top.id /\ dirs'[d].name = n
    /\ PathOf(dirs', d) = Append(PathOf(dirs, Top.id), n)
    /\ RootOf(dirs', d) = RootOf(dirs, Top.id)

LEMMA VisitDirRow ==
    ASSUME IInv, PInv, IInv', NEW n, NEW f, VisitDir(n, f)
    PROVE  \E g, h \in Frames, d \in Nat \ {0} : DirVisited(g, h, d, n, f)
<1> DEFINE row == [parent |-> Top.id, name |-> n]
<1>1. stack # <<>> /\ Top.mode = "sync"
    BY AtEntry DEF VisitDir
<1>2. PICK g \in Frames, h \in Frames, d \in Nat \ {0} :
         /\ IsFrame(g, "sync", Top.id, Top.depth, Top.opened, f.entries, Top.dirs \ {d},
                    Top.songs)
         /\ IsFrame(h, "enter", d, Top.depth, 0, {}, {}, {})
         /\ ToSet(stack') = ToSet(Below) \cup {g, h}
         /\ \/ d \in KnownDirs(n) /\ dirs' = dirs
            \/ /\ KnownDirs(n) = {} /\ d \notin DOMAIN dirs
               /\ DOMAIN dirs' = DOMAIN dirs \cup {d} /\ dirs'[d] = row
               /\ \A k \in DOMAIN dirs : dirs'[k] = dirs[k]
    BY VisitDirDoes
<1>3. /\ \A k \in Top.dirs : k \in DOMAIN dirs /\ dirs[k].parent = Top.id
      /\ Top.id \in Nat \ {0} /\ Top.id \in DOMAIN dirs
      /\ TablesOK(dirs, songs) /\ TablesOK(dirs', songs')
    BY <1>1, TopSees DEF IInv
<1>4. /\ d \in DOMAIN dirs' /\ Top.id \in DOMAIN dirs'
      /\ \A k \in DOMAIN dirs : k \in DOMAIN dirs' /\ dirs'[k] = dirs[k]
      /\ \A k \in DOMAIN dirs' \ DOMAIN dirs : k = d /\ dirs'[k] = row /\ KnownDirs(n) = {}
      /\ d \in DOMAIN dirs => d \in KnownDirs(n)
      /\ dirs'[d].parent = Top.id /\ dirs'[d].name = n
    BY <1>2, <1>3 DEF KnownDirs
<1>5. PathOf(dirs', d) = Append(PathOf(dirs, Top.id), n) /\ RootOf(dirs', d) = RootOf(dirs, Top.id)
    <2>1. /\ PathOf(dirs', Top.id) = PathOf(dirs, Top.id)
          /\ RootOf(dirs', Top.id) = RootOf(dirs, Top.id)
        BY <1>3, <1>4, PathsKept
    <2>2. /\ PathOf(dirs', d) = Append(PathOf(dirs', Top.id), n)
          /\ RootOf(dirs', d) = RootOf(dirs', Top.id)
        BY <1>3, <1>4, Unfolded
    <2> QED BY <2>1, <2>2
<1>6. DirVisited(g, h, d, n, f)
    BY <1>2, <1>4, <1>5 DEF row, DirVisited
<1> QED BY <1>6

LEMMA VisitDirPInv == ASSUME IInv, PInv, NEW n, NEW f, VisitDir(n, f), IInv' PROVE PInv'
<1> DEFINE p == PathOf(dirs, Top.id)
           r == RootOf(dirs, Top.id)
           q == Append(p, n)
<1>1. /\ Visits(n, "dir", f) /\ songs' = songs /\ todo' = todo
      /\ UNCHANGED <<fs, app, bounds, made, observer>>
    BY DEF VisitDir
<1>2. /\ stack # <<>> /\ Top.mode = "sync" /\ q \in Paths /\ fs[q] = "dir"
      /\ Len(q) = Len(r) + Top.depth /\ Len(q) <= Len(r) + DepthLimit
      /\ r \in ToSet(Roots) /\ IsPrefix(r, q)
      /\ stable => fs[r] = "dir"
      /\ TakenFrom(f, Top, n)
    BY <1>1, AtEntry
<1>0. PICK g \in Frames, h \in Frames, d \in Nat \ {0} : DirVisited(g, h, d, n, f)
    BY VisitDirRow
<1>3. /\ IsFrame(g, "sync", Top.id, Top.depth, Top.opened, f.entries, Top.dirs \ {d},
                 Top.songs)
      /\ IsFrame(h, "enter", d, Top.depth, 0, {}, {}, {})
      /\ ToSet(stack') = ToSet(Below) \cup {g, h}
      /\ d \in DOMAIN dirs' /\ Top.id \in DOMAIN dirs'
      /\ \A k \in DOMAIN dirs : k \in DOMAIN dirs' /\ dirs'[k] = dirs[k]
      /\ \A k \in DOMAIN dirs' \ DOMAIN dirs :
            k = d /\ dirs'[k] = [parent |-> Top.id, name |-> n] /\ KnownDirs(n) = {}
      /\ d \in DOMAIN dirs => d \in KnownDirs(n)
      /\ dirs'[d].parent = Top.id /\ dirs'[d].name = n
      /\ PathOf(dirs', d) = Append(PathOf(dirs, Top.id), n)
      /\ RootOf(dirs', d) = RootOf(dirs, Top.id)
    BY <1>0 DEF DirVisited
<1>4. /\ Top.id \in Nat \ {0} /\ Top.id \in DOMAIN dirs
      /\ TablesOK(dirs, songs) /\ RowsOK(dirs, songs) /\ Sees(Top, dirs)
    BY <1>2, TopSees
<1>5. Sees(g, dirs) /\ g.id \in DOMAIN dirs
    <2>1. f.entries \subseteq Top.entries
        BY <1>2 DEF TakenFrom
    <2>2. PICK e : e = f.entries
        OBVIOUS
    <2>3. PICK l : l = Top.dirs \ {d}
        OBVIOUS
    <2>4. Sees(g, dirs)
        BY <1>2, <1>3, <1>4, <2>1, <2>2, <2>3, SeesOn
    <2> QED BY <1>3, <1>4, <2>4 DEF IsFrame
<1>11. PathOf(dirs', d) = q /\ RootOf(dirs', d) = r
    BY <1>3
<1> HIDE DEF p, r, q
<1>6. Sees(h, dirs')
    BY <1>2, <1>3, <1>4, <1>11 DEF Sees, IsFrame
<1>7. \A e \in DOMAIN dirs' \ DOMAIN dirs : DirRowOK(dirs', e)
    BY <1>2, <1>3, <1>4, <1>11 DEF DirRowOK
<1>8. \A k \in ToSet(stack') : (k.id \in DOMAIN dirs /\ Sees(k, dirs)) \/ Sees(k, dirs')
    BY <1>2, <1>3, <1>5, <1>6, StackSets, FramesBefore
<1>9. todo' \in Seq(Paths) /\ ToSet(todo') \subseteq ToSet(Roots)
    BY <1>1, TodoOK
<1>10. /\ \A k \in DOMAIN songs \cap DOMAIN songs' : songs'[k] = songs[k]
       /\ \A k \in DOMAIN songs' \ DOMAIN songs : SongRowOK(dirs', songs', k)
       /\ \A k \in DOMAIN dirs \cap DOMAIN dirs' : dirs'[k] = dirs[k]
    BY <1>1, <1>3
<1> QED BY <1>1, <1>7, <1>8, <1>9, <1>10, ScanStepKeeps

LEMMA VisitSongPInv ==
    ASSUME IInv, PInv, NEW n, NEW f,
           VisitKnownSong(n, f) \/ VisitNewSong(n, f) \/ VisitVanishing(n, f), IInv'
    PROVE  PInv'
<1> DEFINE p == PathOf(dirs, Top.id)
<1>1. todo' = todo /\ UNCHANGED <<fs, app, bounds, made, observer>>
    BY DEF VisitKnownSong, VisitNewSong, VisitVanishing
<1>2. PICK g, s :
         /\ g \in Frames
         /\ IsFrame(g, "sync", Top.id, Top.depth, Top.opened, f.entries, Top.dirs,
                    Top.songs \ {s})
         /\ ToSet(stack') = ToSet(Below) \cup {g}
         /\ stack # <<>> /\ Top.mode = "sync" /\ dirs' = dirs
         /\ \/ Visits(n, "song", f) /\ s \in KnownSongs(n) /\ songs' = songs
            \/ /\ Visits(n, "song", f) /\ KnownSongs(n) = {} /\ s \notin DOMAIN songs
               /\ DOMAIN songs' = DOMAIN songs \cup {s}
               /\ songs'[s] = [dir |-> Top.id, name |-> n]
               /\ \A k \in DOMAIN songs : songs'[k] = songs[k]
            \/ Visits(n, "none", f) /\ s \notin Top.songs /\ songs' = songs
    BY VisitSongDoes
<1>3. PICK kind : Visits(n, kind, f) /\ (songs' = songs \/ kind = "song")
    BY <1>2
<1>4. /\ TakenFrom(f, Top, n) /\ Append(p, n) \in Paths /\ fs[Append(p, n)] = kind
      /\ Len(p) < Len(RootOf(dirs, Top.id)) + DepthLimit
    BY <1>3, AtEntry
<1>5. Sees(g, dirs) /\ g.id \in DOMAIN dirs
    <2>1. f.entries \subseteq Top.entries
        BY <1>4 DEF TakenFrom
    <2>2. PICK e : e = f.entries
        OBVIOUS
    <2>3. PICK l : l = Top.songs \ {s}
        OBVIOUS
    <2>4. Sees(Top, dirs) /\ Top.id \in DOMAIN dirs
        BY <1>2, TopSees
    <2>5. Sees(g, dirs)
        BY <1>2, <2>1, <2>2, <2>3, <2>4, SeesOn
    <2> QED BY <1>2, <2>4, <2>5 DEF IsFrame
<1>6. /\ \A k \in DOMAIN songs \cap DOMAIN songs' : songs'[k] = songs[k]
      /\ \A k \in DOMAIN songs' \ DOMAIN songs :
            songs'[k] = [dir |-> Top.id, name |-> n] /\ kind = "song"
    BY <1>2, <1>3
<1>7. ASSUME NEW k \in DOMAIN songs' \ DOMAIN songs PROVE SongRowOK(dirs', songs', k)
    <2>1. songs'[k].dir = Top.id /\ songs'[k].name = n /\ kind = "song"
        BY <1>6
    <2> QED BY <1>2, <1>4, <2>1 DEF SongRowOK, SongAt
<1>8. \A k \in ToSet(stack') : (k.id \in DOMAIN dirs /\ Sees(k, dirs)) \/ Sees(k, dirs')
    BY <1>2, <1>5, StackSets, FramesBefore
<1>9. todo' \in Seq(Paths) /\ ToSet(todo') \subseteq ToSet(Roots)
    BY <1>1, TodoOK
<1>10. /\ \A k \in DOMAIN dirs \cap DOMAIN dirs' : dirs'[k] = dirs[k]
       /\ \A d \in DOMAIN dirs' \ DOMAIN dirs : DirRowOK(dirs', d)
    BY <1>2
<1> HIDE DEF p
<1> QED BY <1>1, <1>6, <1>7, <1>8, <1>9, <1>10, ScanStepKeeps

LEMMA EnterDirPInv == ASSUME IInv, PInv, EnterDir, IInv' PROVE PInv'
<1> DEFINE p == PathOf(dirs, Top.id)
           r == RootOf(dirs, Top.id)
<1>1. /\ stack # <<>> /\ Top.mode = "enter" /\ UNCHANGED tables
      /\ Top.depth < DepthLimit /\ fs[p] = "dir"
    BY EnterDirDoes
<1>2. PICK g \in Frames :
         /\ IsFrame(g, "sync", Top.id, Top.depth + 1, changes, Contents, Under(dirs, Top.id),
                    In(songs, Top.id))
         /\ ToSet(stack') = ToSet(Below) \cup {g}
    BY EnterDirDoes
<1>3. /\ todo' = todo /\ UNCHANGED <<fs, app, bounds, made, observer>>
      /\ dirs' = dirs /\ songs' = songs
    BY <1>1 DEF EnterDir, tables
<1>4. /\ Top.id \in DOMAIN dirs /\ Top.id \in Nat \ {0} /\ Top.depth \in Nat
      /\ TablesOK(dirs, songs) /\ RowsOK(dirs, songs) /\ Sees(Top, dirs)
    BY <1>1, TopSees
<1>5. /\ p \in Paths /\ Len(p) \in Nat /\ Len(r) \in Nat
      /\ dirs[Top.id].parent = 0 => p = r
      /\ Len(p) = Len(r) + Top.depth
      /\ dirs[Top.id].parent # 0 /\ stable => fs[r] = "dir"
    <2>1. Len(p) = Len(r) + Top.depth /\ (dirs[Top.id].parent # 0 /\ stable => fs[r] = "dir")
        BY <1>1, <1>4 DEF Sees
    <2> QED BY <1>4, <2>1, DirFacts
<1>6. \A n \in Contents : Append(p, n) \in Paths /\ fs[Append(p, n)] # "none"
    BY DirPathIs DEF Contents, Entry
<1> HIDE DEF p, r
<1>7. Len(p) + 1 = Len(r) + (Top.depth + 1) /\ Top.depth + 1 <= DepthLimit
    BY <1>1, <1>4, <1>5, DepthIsLimited
<1>8. stable => fs[r] = "dir"
    BY <1>1, <1>5
<1>9. Sees(g, dirs)
    <2>1. /\ g.mode = "sync" /\ g.id = Top.id /\ g.depth = Top.depth + 1
          /\ g.opened = changes /\ g.entries = Contents
        BY <1>2 DEF IsFrame
    <2> QED BY <1>1, <1>6, <1>7, <1>8, <2>1 DEF Sees, p, r
<1>10. \A k \in ToSet(stack') : (k.id \in DOMAIN dirs /\ Sees(k, dirs)) \/ Sees(k, dirs')
    BY <1>1, <1>2, <1>3, <1>9, StackSets, FramesBefore
<1>11. todo' \in Seq(Paths) /\ ToSet(todo') \subseteq ToSet(Roots)
    BY <1>3, TodoOK
<1> QED BY <1>3, <1>10, <1>11, ScanStepKeeps

LEMMA LoopEndsPInv == ASSUME IInv, PInv, LoopEnds, IInv' PROVE PInv'
<1>1. stack # <<>> /\ Top.mode = "sync" /\ UNCHANGED tables
    BY LoopEndsDoes
<1>2. PICK g \in Frames :
         /\ IsFrame(g, "reap", Top.id, Top.depth, 0, {}, Top.dirs, Top.songs)
         /\ ToSet(stack') = ToSet(Below) \cup {g}
    BY LoopEndsDoes
<1>3. /\ todo' = todo /\ UNCHANGED <<fs, app, bounds, made, observer>>
      /\ dirs' = dirs /\ songs' = songs
    BY <1>1 DEF LoopEnds, tables
<1>4. Sees(Top, dirs)
    BY <1>1, TopSees
<1>5. Sees(g, dirs)
    <2>1. g.mode = "reap" /\ g.id = Top.id /\ g.depth = Top.depth /\ g.entries = {}
        BY <1>2 DEF IsFrame
    <2> QED BY <1>1, <1>4, <2>1 DEF Sees
<1>6. \A k \in ToSet(stack') : (k.id \in DOMAIN dirs /\ Sees(k, dirs)) \/ Sees(k, dirs')
    BY <1>1, <1>2, <1>3, <1>5, StackSets, FramesBefore
<1>7. todo' \in Seq(Paths) /\ ToSet(todo') \subseteq ToSet(Roots)
    BY <1>3, TodoOK
<1> QED BY <1>3, <1>6, <1>7, ScanStepKeeps

LEMMA ScanRootPInv == ASSUME IInv, PInv, ScanRoot, IInv' PROVE PInv'
<1> DEFINE root == Head(todo)
           row == [parent |-> 0, name |-> root]
           known == {k \in DOMAIN dirs : dirs[k] = row}
<1>1. /\ todo # <<>> /\ todo' = Tail(todo) /\ songs' = songs
      /\ UNCHANGED <<fs, app, bounds, made, observer>>
    BY DEF ScanRoot
<1>2. PICK h \in Frames, d \in Nat \ {0} :
         /\ IsFrame(h, "enter", d, 0, 0, {}, {}, {})
         /\ ToSet(stack') = {h}
         /\ \/ d \in known /\ dirs' = dirs
            \/ /\ known = {} /\ d \notin DOMAIN dirs
               /\ DOMAIN dirs' = DOMAIN dirs \cup {d} /\ dirs'[d] = row
               /\ \A k \in DOMAIN dirs : dirs'[k] = dirs[k]
    BY ScanRootDoes
<1>3. todo \in Seq(Paths) /\ ToSet(todo) \subseteq ToSet(Roots)
    BY TodoOK
<1>4. /\ todo' \in Seq(Paths) /\ ToSet(todo') \subseteq ToSet(todo) /\ root \in ToSet(todo)
    <2>1. /\ Tail(todo) \in Seq(Paths) /\ Len(todo) \in Nat \ {0}
          /\ DOMAIN todo = 1..Len(todo) /\ DOMAIN Tail(todo) = 1..(Len(todo) - 1)
          /\ Head(todo) = todo[1] /\ \A i \in 1..(Len(todo) - 1) : Tail(todo)[i] = todo[i + 1]
        BY <1>1, <1>3
    <2>2. \A i \in 1..(Len(todo) - 1) : i + 1 \in 1..Len(todo)
        BY <2>1
    <2> QED BY <1>1, <2>1, <2>2 DEF ToSet
<1>5. root \in ToSet(Roots) /\ root \in Paths /\ root \in Seq(Names) /\ Len(root) \in Nat \ {0}
    <2>1. root \in Paths
        BY <1>3, <1>4, RootFacts
    <2> QED BY <1>3, <1>4, <2>1, PathFacts
<1> HIDE DEF root
<1>6. /\ TablesOK(dirs', songs')
      /\ \A k \in DOMAIN dirs \cap DOMAIN dirs' : dirs'[k] = dirs[k]
      /\ d \in DOMAIN dirs' /\ dirs'[d] = row
    <2>1. TablesOK(dirs', songs')
        BY DEF IInv
    <2> QED BY <1>2, <2>1
<1>7. PathOf(dirs', d) = root /\ RootOf(dirs', d) = root
    BY <1>6, Unfolded
<1>8. Sees(h, dirs')
    BY <1>2, <1>5, <1>6, <1>7 DEF Sees, IsFrame
<1>9. \A e \in DOMAIN dirs' \ DOMAIN dirs : DirRowOK(dirs', e)
    <2>1. IsPrefix(root, root)
        BY <1>5, PrefixFacts
    <2>2. DirRowOK(dirs', d)
        BY <1>5, <1>6, <1>7, <2>1, DepthIsLimited DEF DirRowOK
    <2> QED BY <1>2, <2>2
<1>10. \A f \in ToSet(stack') : Sees(f, dirs')
    BY <1>2, <1>8
<1>11. /\ \A k \in DOMAIN songs \cap DOMAIN songs' : songs'[k] = songs[k]
       /\ \A k \in DOMAIN songs' \ DOMAIN songs : SongRowOK(dirs', songs', k)
       /\ ToSet(todo') \subseteq ToSet(Roots)
    BY <1>1, <1>3, <1>4
<1> HIDE DEF row, known
<1> QED BY <1>1, <1>4, <1>6, <1>9, <1>10, <1>11, ScanStepKeeps

LEMMA SkipDirPInv == ASSUME IInv, PInv, SkipDir, IInv' PROVE PInv'
<1>1. /\ stack # <<>> /\ stack' = Below /\ todo' = todo
      /\ UNCHANGED <<fs, app, bounds, made, observer>>
      /\ dirs' = dirs /\ songs' = songs
    BY DEF SkipDir, InFrame, tables
<1>2. \A f \in ToSet(stack') : f.id \in DOMAIN dirs /\ Sees(f, dirs)
    BY <1>1, StackSets, FramesBefore
<1>3. todo' \in Seq(Paths) /\ ToSet(todo') \subseteq ToSet(Roots)
    BY <1>1, TodoOK
<1> QED BY <1>1, <1>2, <1>3, ScanStepKeeps

\* What reaps a directory has seen its root.
LEMMA ReapingSees ==
    ASSUME IInv, PInv, Reaping
    PROVE  /\ stack # <<>> /\ Top.mode \in {"reap", "destroy"}
           /\ Top.id \in DOMAIN dirs /\ Top.id \in Nat \ {0} /\ Sees(Top, dirs)
           /\ \A k \in Top.dirs :
                 /\ k \in DOMAIN dirs /\ dirs[k].parent = Top.id
                 /\ RootOf(dirs, k) = RootOf(dirs, Top.id)
           /\ \A s \in Top.songs : s \in DOMAIN songs /\ songs[s].dir = Top.id
           /\ stable => fs[RootOf(dirs, Top.id)] = "dir"
<1>1. stack # <<>> /\ Top.mode \in {"reap", "destroy"}
    BY DEF Reaping, InFrame
<1>2. /\ Top.id \in DOMAIN dirs /\ Top.id \in Nat \ {0} /\ Sees(Top, dirs)
      /\ \A k \in Top.dirs :
            /\ k \in DOMAIN dirs /\ dirs[k].parent = Top.id
            /\ RootOf(dirs, k) = RootOf(dirs, Top.id)
      /\ \A s \in Top.songs : s \in DOMAIN songs /\ songs[s].dir = Top.id
    BY <1>1, TopSees
<1>3. stable => fs[RootOf(dirs, Top.id)] = "dir"
    BY <1>1, <1>2 DEF Sees
<1> QED BY <1>1, <1>2, <1>3

LEMMA ReapDirPInv == ASSUME IInv, PInv, ReapDir, IInv' PROVE PInv'
<1>1. /\ Reaping /\ todo' = todo /\ UNCHANGED <<fs, app, bounds, made, observer>>
      /\ dirs' = dirs /\ songs' = songs
    BY DEF ReapDir, tables
<1>2. PICK g \in Frames, h \in Frames, d \in Top.dirs :
         /\ IsFrame(g, Top.mode, Top.id, Top.depth, Top.opened, Top.entries, Top.dirs \ {d},
                    Top.songs)
         /\ IsFrame(h, "destroy", d, 0, 0, {}, Under(dirs, d), In(songs, d))
         /\ ToSet(stack') = ToSet(Below) \cup {g, h}
    BY ReapDirDoes
<1>3. /\ stack # <<>> /\ Top.mode \in {"reap", "destroy"}
      /\ Sees(Top, dirs) /\ Top.id \in Nat \ {0} /\ dirs[d].parent = Top.id
      /\ d \in DOMAIN dirs /\ Top.id \in DOMAIN dirs
      /\ RootOf(dirs, d) = RootOf(dirs, Top.id)
      /\ stable => fs[RootOf(dirs, Top.id)] = "dir"
    BY <1>1, ReapingSees
<1>4. Sees(g, dirs) /\ g.id \in DOMAIN dirs
    <2>1. /\ g.mode = Top.mode /\ g.id = Top.id /\ g.depth = Top.depth
          /\ g.opened = Top.opened /\ g.entries = Top.entries
        BY <1>2 DEF IsFrame
    <2> QED BY <1>3, <2>1 DEF Sees
<1>5. Sees(h, dirs) /\ h.id \in DOMAIN dirs
    <2>1. h.mode = "destroy" /\ h.id = d
        BY <1>2 DEF IsFrame
    <2> QED BY <1>3, <2>1 DEF Sees
<1>6. \A k \in ToSet(stack') : (k.id \in DOMAIN dirs /\ Sees(k, dirs)) \/ Sees(k, dirs')
    BY <1>2, <1>3, <1>4, <1>5, StackSets, FramesBefore
<1>7. todo' \in Seq(Paths) /\ ToSet(todo') \subseteq ToSet(Roots)
    BY <1>1, TodoOK
<1> QED BY <1>1, <1>6, <1>7, ScanStepKeeps

LEMMA ReapSongPInv == ASSUME IInv, PInv, ReapSong, IInv' PROVE PInv'
<1>1. Reaping /\ todo' = todo /\ UNCHANGED <<fs, app, bounds, made, observer>> /\ dirs' = dirs
    BY DEF ReapSong
<1>2. PICK g \in Frames, s \in Top.songs :
         /\ IsFrame(g, Top.mode, Top.id, Top.depth, Top.opened, Top.entries, Top.dirs,
                    Top.songs \ {s})
         /\ ToSet(stack') = ToSet(Below) \cup {g}
         /\ DOMAIN songs' = DOMAIN songs \ {s} /\ \A k \in DOMAIN songs' : songs'[k] = songs[k]
    BY ReapSongDoes
<1>3. stack # <<>> /\ Sees(Top, dirs) /\ Top.id \in DOMAIN dirs
    BY <1>1, ReapingSees
<1>4. Sees(g, dirs) /\ g.id \in DOMAIN dirs
    <2>1. /\ g.mode = Top.mode /\ g.id = Top.id /\ g.depth = Top.depth
          /\ g.opened = Top.opened /\ g.entries = Top.entries
        BY <1>2 DEF IsFrame
    <2> QED BY <1>3, <2>1 DEF Sees
<1>5. \A k \in ToSet(stack') : (k.id \in DOMAIN dirs /\ Sees(k, dirs)) \/ Sees(k, dirs')
    BY <1>2, <1>3, <1>4, StackSets, FramesBefore
<1>6. todo' \in Seq(Paths) /\ ToSet(todo') \subseteq ToSet(Roots)
    BY <1>1, TodoOK
<1> QED BY <1>1, <1>2, <1>5, <1>6, ScanStepKeeps

LEMMA ReturnPInv == ASSUME IInv, PInv, Return, IInv' PROVE PInv'
<1>1. todo' = todo /\ UNCHANGED <<fs, app, bounds, made, observer>> /\ songs' = songs
    BY DEF Return
<1>2. /\ stack # <<>> /\ ToSet(stack') = ToSet(Below)
      /\ DOMAIN dirs' \subseteq DOMAIN dirs /\ \A k \in DOMAIN dirs' : dirs'[k] = dirs[k]
    BY ReturnDoes
<1>3. \A f \in ToSet(stack') : f.id \in DOMAIN dirs /\ Sees(f, dirs)
    BY <1>2, StackSets, FramesBefore
<1>4. todo' \in Seq(Paths) /\ ToSet(todo') \subseteq ToSet(Roots)
    BY <1>1, TodoOK
<1> QED BY <1>1, <1>2, <1>3, <1>4, ScanStepKeeps

\* The scan ends, one way or another.
LEMMA EndsPInv ==
    ASSUME PInv, Kinds', stack' = <<>>, todo' = <<>>, UNCHANGED <<fs, tables, observer>> PROVE PInv'
<1>1. ToSet(stack') = {} /\ ToSet(todo') = {} /\ todo' \in Seq(Paths)
    BY EmptySets
<1>2. UNCHANGED <<dirs, songs>>
    BY DEF tables
<1>3. World'
    BY <1>1 DEF PInv, World, observer
<1> QED BY <1>1, <1>2, <1>3 DEF PInv

LEMMA ScanDonePInv == ASSUME PInv, Kinds', ScanDone PROVE PInv'
<1>1. /\ UNCHANGED <<fs, stable, todo, stack, dirs, songs, changes>>
      /\ quiet' = stable
    BY DEF ScanDone, tables, bounds
<1>2. World'
    BY <1>1 DEF PInv, World
<1>3. ASSUME NEW f \in ToSet(stack)' PROVE Sees(f, dirs)'
    BY <1>1, <1>3 DEF PInv, Sees
<1> QED BY <1>1, <1>2, <1>3 DEF PInv

LEMMA StartPInv == ASSUME PInv, Kinds', Start PROVE PInv'
<1>1. /\ stack' = <<>> /\ todo' = Roots /\ stable' = TRUE
      /\ UNCHANGED <<fs, dirs, songs, quiet>>
    BY DEF Start, tables
<1>2. ToSet(stack') = {} /\ todo' \in Seq(Paths) /\ ToSet(todo') \subseteq ToSet(Roots)
    BY <1>1, EmptySets, RootsArePaths
<1>3. World'
    BY <1>1, <1>2 DEF PInv, World
<1> QED BY <1>1, <1>2, <1>3 DEF PInv

\* The file system remains a tree.
LEMMA TreeKept == ASSUME PInv, ChangeFs PROVE IsTree(fs')
<1>1. fs \in [Paths -> {"none", "dir", "song"}] /\ IsTree(fs)
    BY DEF PInv, World, Kinds
<1>2. ASSUME NEW p \in Paths, NEW kind \in {"dir", "song"}, AddEntry(p, kind) PROVE IsTree(fs')
    BY <1>2 DEF AddEntry
<1>3. ASSUME NEW p \in Paths, RemoveEntry(p) PROVE IsTree(fs')
    <2>1. fs' = [q \in Paths |-> IF IsPrefix(p, q) THEN "none" ELSE fs[q]]
        BY <1>3 DEF RemoveEntry
    <2>2. ASSUME NEW q \in Paths, fs'[q] # "none", Len(q) > 1 PROVE fs'[Front(q)] = "dir"
        <3>1. ~IsPrefix(p, q) /\ fs[q] # "none"
            BY <2>1, <2>2
        <3>2. Front(q) \in Paths /\ fs[Front(q)] = "dir"
            BY <1>1, <2>2, <3>1, PathsClosed DEF IsTree
        <3>3. ~IsPrefix(p, Front(q))
            <4>1. /\ p \in Seq(Names) /\ Front(q) \in Seq(Names) /\ Last(q) \in Names
                  /\ q = Append(Front(q), Last(q))
                BY <2>2, <3>2, PathFacts
            <4>2. IsPrefix(p, Front(q)) => IsPrefix(p, Append(Front(q), Last(q)))
                BY <4>1, PrefixFacts
            <4> QED BY <3>1, <4>1, <4>2
        <3> QED BY <2>1, <3>2, <3>3
    <2>3. \A q \in Paths : fs'[q] = "song" => q \in Interesting \ ToSet(Roots)
        BY <1>1, <2>1 DEF IsTree
    <2> QED BY <2>2, <2>3 DEF IsTree
<1> QED BY <1>2, <1>3 DEF ChangeFs

LEMMA ChangeFsPInv == ASSUME PInv, Kinds', ChangeFs PROVE PInv'
<1>1. stable' = FALSE /\ quiet' = FALSE /\ UNCHANGED <<todo, stack, dirs, songs>>
    BY DEF ChangeFs, tables
<1>2. World'
    BY <1>1, TreeKept, TodoOK DEF World
<1>3. ASSUME NEW f \in ToSet(stack)' PROVE Sees(f, dirs)'
    <2>1. Sees(f, dirs)
        BY <1>1, <1>3 DEF PInv
    <2> QED BY <1>1, <2>1 DEF Sees
<1>4. RowsOK(dirs, songs)'
    BY <1>1 DEF PInv
<1> QED BY <1>2, <1>3, <1>4 DEF PInv

LEMMA InitPInv == Init => PInv
<1> SUFFICES ASSUME Init PROVE PInv
    OBVIOUS
<1>1. ToSet(stack) = {} /\ ToSet(todo) = {} /\ todo \in Seq(Paths)
    BY EmptySets DEF Init
<1>2. DOMAIN dirs = {} /\ DOMAIN songs = {}
    BY DEF Init
<1>3. World
    BY <1>1 DEF Init, World
<1> QED BY <1>1, <1>2, <1>3, InitKinds DEF PInv, RowsOK

LEMMA NextPInv == IInv /\ PInv /\ [Next]_vars => PInv'
<1> SUFFICES ASSUME IInv, PInv, [Next]_vars PROVE PInv'
    OBVIOUS
<1>1. IInv' /\ Kinds'
    BY NextIInv, NextKinds DEF PInv
<1>2. ASSUME NEW how, Abort(how) PROVE PInv'
    BY <1>1, <1>2, EndsPInv DEF Abort
<1>3. CASE OpenFails \/ DatabaseFails \/ \E n, f : VisitNewTag(n, f) \/ VisitVanished(n, f)
    BY <1>2, <1>3 DEF OpenFails, DatabaseFails, VisitNewTag, VisitVanished
<1>4. CASE Crash
    BY <1>1, <1>4, EndsPInv DEF Crash
<1>5. CASE UNCHANGED vars
    <2>1. UNCHANGED <<fs, todo, stack, dirs, songs, stable, quiet, changes>>
        BY <1>5 DEF vars, tables, observer, bounds
    <2>2. World'
        BY <2>1 DEF PInv, World
    <2>3. ASSUME NEW f \in ToSet(stack)' PROVE Sees(f, dirs)'
        BY <2>1, <2>3 DEF PInv, Sees
    <2> QED BY <1>1, <2>1, <2>2, <2>3 DEF PInv
<1>6. CASE ScanStep
    <2>1. CASE \E n, f : VisitDir(n, f) \/ VisitKnownSong(n, f) \/ VisitNewSong(n, f)
                            \/ VisitVanishing(n, f)
        BY <1>1, <2>1, VisitDirPInv, VisitSongPInv
    <2> QED BY <1>1, <1>3, <1>6, <2>1, ScanRootPInv, SkipDirPInv, EnterDirPInv, LoopEndsPInv,
               ReapDirPInv, ReapSongPInv, ReturnPInv, ScanDonePInv DEF ScanStep
<1> QED BY <1>1, <1>3, <1>4, <1>5, <1>6, StartPInv, ChangeFsPInv DEF Next

LEMMA SeenInvariant == Spec => [](IInv /\ PInv)
BY InitIInv, InitPInv, NextIInv, NextPInv, PTL DEF Spec, PInv

------------------------------------------------------------------------------
(* What is deleted.                                                        *)

\* The steps that change the tables.
LEMMA TablesChange ==
    ASSUME [Next]_vars
    PROVE  \/ UNCHANGED <<dirs, songs>> \/ ScanRoot \/ ReapSong \/ Return
           \/ \E n, f : VisitDir(n, f) \/ VisitNewSong(n, f)
BY DEF Next, Start, ScanStep, SkipDir, EnterDir, OpenFails, VisitKnownSong, VisitNewTag,
       VisitVanished, VisitVanishing, LoopEnds, ReapDir, ScanDone, DatabaseFails, Crash,
       ChangeFs, Abort, vars, tables

\* Rows go only when a sync or a destroy has seen that their root is there.
LEMMA Deletions ==
    ASSUME IInv, PInv, [Next]_vars
    PROVE  /\ \A d \in DOMAIN dirs \ DOMAIN dirs' : stable => fs[RootOf(dirs, d)] = "dir"
           /\ \A s \in DOMAIN songs \ DOMAIN songs' :
                 stable => fs[RootOf(dirs, songs[s].dir)] = "dir"
<1>1. CASE UNCHANGED <<dirs, songs>>
    BY <1>1
<1>2. CASE ScanRoot
    BY <1>2, ScanRootDoes
<1>3. ASSUME NEW n, NEW f, VisitDir(n, f)
      PROVE  DOMAIN dirs \subseteq DOMAIN dirs' /\ songs' = songs
    BY <1>3, VisitDirDoes DEF VisitDir
<1>4. ASSUME NEW n, NEW f, VisitNewSong(n, f)
      PROVE  dirs' = dirs /\ DOMAIN songs \subseteq DOMAIN songs'
    BY <1>4 DEF VisitNewSong, Insert
<1>5. CASE ReapSong
    <2>1. Reaping /\ dirs' = dirs
        BY <1>5 DEF ReapSong
    <2>2. PICK s \in Top.songs : DOMAIN songs' = DOMAIN songs \ {s}
        BY <1>5, ReapSongDoes
    <2> QED BY <2>1, <2>2, ReapingSees
<1>6. CASE Return
    <2>1. Reaping /\ songs' = songs
        BY <1>6 DEF Return
    <2>2. DOMAIN dirs \ DOMAIN dirs' \subseteq {Top.id}
        BY <1>6, ReturnDoes
    <2> QED BY <2>1, <2>2, ReapingSees
<1> QED BY <1>1, <1>2, <1>3, <1>4, <1>5, <1>6, TablesChange

\* A root whose path is missing, an unmounted volume without its mount point, costs
\* none of its rows, wherever the scan is at the time.
THEOREM MissingRootKeepsRowsEver == Spec => MissingRootKeepsRows
<1>1. IInv /\ PInv /\ [Next]_vars =>
        [stable =>
          /\ \A d \in DOMAIN dirs \ DOMAIN dirs' : fs[RootPath[d]] = "dir"
          /\ \A s \in DOMAIN songs \ DOMAIN songs' : fs[RootPath[songs[s].dir]] = "dir"
        ]_vars
    BY Deletions, DirPathIs
<1> QED BY <1>1, SeenInvariant, PTL DEF Spec, MissingRootKeepsRows

------------------------------------------------------------------------------
(* No entry has two rows.                                                  *)

OneRow(D, S) ==
    /\ \A d, e \in DOMAIN D : D[d] = D[e] => d = e \/ made[PathOf(D, d)] # 0
    /\ \A s, t \in DOMAIN S : S[s] = S[t] => s = t \/ made[SongAt(D, S, s)] # 0

\* What sync has taken off its lists, or recorded, it does not come to again, unless it
\* was made in the meantime.
NotTwice(f, D, S) ==
    f.mode = "sync" =>
        /\ \A k \in Under(D, f.id) \ f.dirs :
              D[k].name \in f.entries => ~stable /\ made[PathOf(D, k)] # 0
        /\ \A s \in In(S, f.id) \ f.songs :
              S[s].name \in f.entries => ~stable /\ made[SongAt(D, S, s)] # 0

DInv == OneRow(dirs, songs) /\ \A f \in ToSet(stack) : NotTwice(f, dirs, songs)

\* The activations that wait are of other directories than the one on top.
LEMMA BelowIds ==
    ASSUME IInv, stack # <<>>, NEW f \in ToSet(Below)
    PROVE  /\ f \in Frames /\ f \in ToSet(stack) /\ FrameOK(f, dirs, songs)
           /\ f.id \in DOMAIN dirs /\ f.id \in Nat \ {0} /\ f.id < Top.id /\ f.mode # "enter"
<1>1. /\ Len(stack) \in Nat \ {0} /\ stack \in Seq(Frames) /\ Top.id \in Nat
      /\ \A i \in 1..(Len(stack) - 1) :
            /\ FrameOK(stack[i], dirs, songs)
            /\ LinkOK(stack[i], stack[i + 1], dirs)
            /\ stack[i].id < Top.id
            /\ stack[i].id \in DOMAIN dirs
    BY TopFacts DEF IInv, StackOK
<1>2. /\ Below \in Seq(Frames) /\ Len(Below) = Len(stack) - 1
      /\ \A i \in 1..(Len(stack) - 1) : Below[i] = stack[i]
    BY <1>1, TopReturns DEF Below
<1>3. PICK i \in 1..(Len(stack) - 1) : f = stack[i]
    BY <1>2, LenProperties DEF ToSet
<1>4. f \in Frames /\ f \in ToSet(stack)
    BY <1>2, <1>3, StackSets, LenProperties DEF ToSet
<1>5. FrameOK(f, dirs, songs) /\ f.id \in DOMAIN dirs /\ f.id < Top.id /\ f.mode # "enter"
    BY <1>1, <1>3 DEF LinkOK
<1>6. f.id \in Nat \ {0}
    BY <1>5 DEF IInv, TablesOK, Bounded
<1> QED BY <1>4, <1>5, <1>6

\* What was made while a scan ran remains so.
LEMMA NotTwiceKept ==
    ASSUME NEW D, NEW S, TablesOK(D, S), NEW D2, NEW S2, TablesOK(D2, S2),
           \A k \in DOMAIN D \cap DOMAIN D2 : D2[k] = D[k],
           \A k \in DOMAIN S \cap DOMAIN S2 : S2[k] = S[k],
           NEW f, NotTwice(f, D, S),
           Under(D2, f.id) \subseteq DOMAIN D, In(S2, f.id) \subseteq DOMAIN S
    PROVE  NotTwice(f, D2, S2)
<1>1. \A k \in Under(D2, f.id) : k \in Under(D, f.id) /\ D2[k] = D[k] /\ PathOf(D2, k) = PathOf(D, k)
    BY PathsKept DEF Under
<1>2. ASSUME NEW k \in In(S2, f.id)
      PROVE  k \in In(S, f.id) /\ S2[k] = S[k] /\ SongAt(D2, S2, k) = SongAt(D, S, k)
    <2>1. k \in DOMAIN S /\ k \in DOMAIN S2 /\ S2[k] = S[k] /\ S[k].dir = f.id
        BY <1>2 DEF In
    <2>2. S[k].dir \in DOMAIN D /\ S2[k].dir \in DOMAIN D2
        BY <2>1 DEF TablesOK, Rooted
    <2>3. PathOf(D2, S[k].dir) = PathOf(D, S[k].dir)
        BY <2>1, <2>2, PathsKept
    <2> QED BY <2>1, <2>3 DEF In, SongAt
<1> QED BY <1>1, <1>2 DEF NotTwice

\* Two rows of an entry have the path of the entry.
LEMMA SameRow ==
    ASSUME NEW D, NEW S, TablesOK(D, S), NEW d \in DOMAIN D, NEW e \in DOMAIN D, D[d] = D[e]
    PROVE  PathOf(D, d) = PathOf(D, e) /\ RootOf(D, d) = RootOf(D, e)
<1>1. CASE D[d].parent = 0
    <2>1. PathOf(D, d) = D[d].name /\ RootOf(D, d) = D[d].name
        BY <1>1, Unfolded
    <2>2. PathOf(D, e) = D[e].name /\ RootOf(D, e) = D[e].name
        BY <1>1, Unfolded
    <2> QED BY <2>1, <2>2
<1>2. CASE D[d].parent # 0
    <2>1. /\ PathOf(D, d) = Append(PathOf(D, D[d].parent), D[d].name)
          /\ RootOf(D, d) = RootOf(D, D[d].parent)
        BY <1>2, Unfolded
    <2>2. /\ PathOf(D, e) = Append(PathOf(D, D[e].parent), D[e].name)
          /\ RootOf(D, e) = RootOf(D, D[e].parent)
        BY <1>2, Unfolded
    <2> QED BY <2>1, <2>2
<1> QED BY <1>1, <1>2

\* A step of the scan keeps DInv if the rows and the activations are right that it is
\* the first to have.
LEMMA DStepKeeps ==
    ASSUME IInv, IInv', DInv, UNCHANGED <<made, stable>>,
           \A k \in DOMAIN dirs \cap DOMAIN dirs' : dirs'[k] = dirs[k],
           \A k \in DOMAIN songs \cap DOMAIN songs' : songs'[k] = songs[k],
           \A d \in DOMAIN dirs' \ DOMAIN dirs, e \in DOMAIN dirs' :
              dirs'[d] = dirs'[e] => d = e \/ made[PathOf(dirs', d)] # 0,
           \A s \in DOMAIN songs' \ DOMAIN songs, t \in DOMAIN songs' :
              songs'[s] = songs'[t] => s = t \/ made[SongAt(dirs', songs', s)] # 0,
           \A f \in ToSet(stack') :
              \/ NotTwice(f, dirs', songs')
              \/ /\ NotTwice(f, dirs, songs)
                 /\ Under(dirs', f.id) \subseteq DOMAIN dirs
                 /\ In(songs', f.id) \subseteq DOMAIN songs
    PROVE  DInv'
<1>1. TablesOK(dirs, songs) /\ TablesOK(dirs', songs')
    BY DEF IInv
<1>2. ASSUME NEW d \in DOMAIN dirs', NEW e \in DOMAIN dirs', dirs'[d] = dirs'[e], d # e
      PROVE  made[PathOf(dirs', d)] # 0
    <2>1. PathOf(dirs', d) = PathOf(dirs', e)
        BY <1>1, <1>2, SameRow
    <2>2. CASE d \in DOMAIN dirs /\ e \in DOMAIN dirs
        <3>1. made[PathOf(dirs, d)] # 0
            BY <1>2, <2>2 DEF DInv, OneRow
        <3> QED BY <1>1, <2>2, <3>1, PathsKept
    <2> QED BY <1>2, <2>1, <2>2
<1>3. ASSUME NEW s \in DOMAIN songs', NEW t \in DOMAIN songs', songs'[s] = songs'[t], s # t
      PROVE  made[SongAt(dirs', songs', s)] # 0
    <2>1. SongAt(dirs', songs', s) = SongAt(dirs', songs', t)
        BY <1>3 DEF SongAt
    <2>2. CASE s \in DOMAIN songs /\ t \in DOMAIN songs
        <3>1. made[SongAt(dirs, songs, s)] # 0 /\ songs'[s] = songs[s]
            BY <1>3, <2>2 DEF DInv, OneRow
        <3>2. songs[s].dir \in DOMAIN dirs /\ songs'[s].dir \in DOMAIN dirs'
            BY <1>1, <2>2 DEF TablesOK, Rooted
        <3>3. PathOf(dirs', songs[s].dir) = PathOf(dirs, songs[s].dir)
            BY <1>1, <3>1, <3>2, PathsKept
        <3> QED BY <3>1, <3>3 DEF SongAt
    <2> QED BY <1>3, <2>1, <2>2
<1>4. ASSUME NEW f \in ToSet(stack') PROVE NotTwice(f, dirs', songs')
    BY <1>1, <1>4, NotTwiceKept
<1>5. OneRow(dirs, songs)'
    BY <1>2, <1>3 DEF OneRow
<1>6. ASSUME NEW f \in ToSet(stack)' PROVE NotTwice(f, dirs, songs)'
    BY <1>4, <1>6 DEF NotTwice
<1> QED BY <1>5, <1>6 DEF DInv

\* An entry that is returned without being listed was made while the scan ran.
LEMMA MadeLate ==
    ASSUME PInv, NEW n, NEW f, TakenFrom(f, Top, n), Top.opened \in Nat
    PROVE  /\ f.entries \subseteq Top.entries
           /\ n \in f.entries => Entry(n) \in Paths /\ made[Entry(n)] # 0
           /\ n \notin Top.entries => Entry(n) \in Paths /\ made[Entry(n)] # 0
<1>1. Entry(n) \in Paths => made[Entry(n)] \in Nat
    BY DEF PInv, Kinds
<1> QED BY <1>1 DEF TakenFrom

LEMMA VisitDirDInv == ASSUME IInv, PInv, DInv, IInv', NEW n, NEW f, VisitDir(n, f) PROVE DInv'
<1> DEFINE q == Append(PathOf(dirs, Top.id), n)
<1>1. Visits(n, "dir", f) /\ songs' = songs /\ UNCHANGED <<made, stable>>
    BY DEF VisitDir, observer
<1>2. /\ stack # <<>> /\ Top.mode = "sync" /\ q = Entry(n) /\ TakenFrom(f, Top, n)
      /\ stable => n \notin f.entries
    BY <1>1, AtEntry
<1>3. /\ Top.id \in DOMAIN dirs /\ Top.id \in Nat \ {0} /\ Top.opened \in Nat
      /\ \A k \in Top.dirs :
            /\ k \in DOMAIN dirs /\ dirs[k].parent = Top.id
            /\ PathOf(dirs, k) = Append(PathOf(dirs, Top.id), dirs[k].name)
      /\ TablesOK(dirs, songs) /\ TablesOK(dirs', songs') /\ NotTwice(Top, dirs, songs)
    BY <1>2, TopSees DEF DInv, IInv
<1>4. /\ f.entries \subseteq Top.entries
      /\ n \in f.entries => made[q] # 0
      /\ n \notin Top.entries => made[q] # 0
    BY <1>2, <1>3, MadeLate
<1>5. PICK g \in Frames, h \in Frames, d \in Nat \ {0} : DirVisited(g, h, d, n, f)
    BY VisitDirRow
<1>6. /\ IsFrame(g, "sync", Top.id, Top.depth, Top.opened, f.entries, Top.dirs \ {d},
                 Top.songs)
      /\ IsFrame(h, "enter", d, Top.depth, 0, {}, {}, {})
      /\ ToSet(stack') = ToSet(Below) \cup {g, h}
      /\ \A k \in DOMAIN dirs : k \in DOMAIN dirs' /\ dirs'[k] = dirs[k]
      /\ \A k \in DOMAIN dirs' \ DOMAIN dirs :
            k = d /\ dirs'[k] = [parent |-> Top.id, name |-> n] /\ KnownDirs(n) = {}
      /\ dirs'[d].parent = Top.id /\ dirs'[d].name = n /\ d \in DOMAIN dirs'
      /\ PathOf(dirs', d) = q
    BY <1>5 DEF DirVisited
<1> HIDE DEF q
<1>7. \A k \in DOMAIN dirs : PathOf(dirs', k) = PathOf(dirs, k)
    BY <1>3, <1>6, PathsKept
<1>8. ASSUME NEW k \in DOMAIN dirs' \ DOMAIN dirs, NEW e \in DOMAIN dirs',
             dirs'[k] = dirs'[e], k # e
      PROVE  made[PathOf(dirs', k)] # 0
    <2>1. /\ k = d /\ PathOf(dirs', k) = q /\ e \in DOMAIN dirs /\ dirs'[e] = dirs[e]
          /\ dirs[e].parent = Top.id /\ dirs[e].name = n /\ e \notin Top.dirs
        BY <1>6, <1>8 DEF KnownDirs
    <2>2. PathOf(dirs', e) = PathOf(dirs', k)
        BY <1>3, <1>8, SameRow
    <2>3. n \in Top.entries => made[PathOf(dirs, e)] # 0
        BY <1>2, <1>3, <2>1 DEF NotTwice, Under
    <2> QED BY <1>4, <1>7, <2>1, <2>2, <2>3
<1>9. NotTwice(g, dirs', songs')
    <2>1. /\ g.mode = "sync" /\ g.id = Top.id /\ g.entries = f.entries
          /\ g.dirs = Top.dirs \ {d} /\ g.songs = Top.songs
        BY <1>6 DEF IsFrame
    <2>2. ASSUME NEW k \in Under(dirs', Top.id), k \notin Top.dirs \ {d},
                 dirs'[k].name \in f.entries
          PROVE  ~stable /\ made[PathOf(dirs', k)] # 0
        <3>1. CASE k = d
            BY <1>2, <1>4, <1>6, <2>2, <3>1
        <3>2. CASE k # d
            <4>1. k \in DOMAIN dirs /\ dirs'[k] = dirs[k] /\ k \in Under(dirs, Top.id)
                BY <1>6, <2>2, <3>2 DEF Under
            <4> QED BY <1>2, <1>3, <1>4, <1>7, <2>2, <3>2, <4>1 DEF NotTwice
        <3> QED BY <3>1, <3>2
    <2>3. ASSUME NEW s \in In(songs, Top.id), s \notin Top.songs, songs[s].name \in f.entries
          PROVE  ~stable /\ made[SongAt(dirs', songs, s)] # 0
        <3>1. ~stable /\ made[SongAt(dirs, songs, s)] # 0
            BY <1>2, <1>3, <1>4, <2>3 DEF NotTwice
        <3>2. SongAt(dirs', songs, s) = SongAt(dirs, songs, s)
            BY <1>3, <1>7, <2>3 DEF SongAt, In
        <3> QED BY <3>1, <3>2
    <2> QED BY <1>1, <2>1, <2>2, <2>3 DEF NotTwice
<1>10. NotTwice(h, dirs', songs')
    BY <1>6 DEF NotTwice, IsFrame
<1>11. ASSUME NEW k \in ToSet(Below)
       PROVE  /\ NotTwice(k, dirs, songs) /\ Under(dirs', k.id) \subseteq DOMAIN dirs
              /\ In(songs', k.id) \subseteq DOMAIN songs
    <2>1. k \in ToSet(stack) /\ k.id \in Nat /\ k.id < Top.id
        BY <1>2, <1>11, BelowIds
    <2>2. k.id # Top.id
        BY <1>3, <2>1
    <2> QED BY <1>1, <1>6, <2>1, <2>2 DEF DInv, Under, In
<1>12. \A k \in ToSet(stack') :
          \/ NotTwice(k, dirs', songs')
          \/ /\ NotTwice(k, dirs, songs)
             /\ Under(dirs', k.id) \subseteq DOMAIN dirs
             /\ In(songs', k.id) \subseteq DOMAIN songs
    BY <1>6, <1>9, <1>10, <1>11
<1> QED BY <1>1, <1>6, <1>8, <1>12, DStepKeeps

\* Nothing is inserted, and each activation was there, or lists less, or nothing.
LEMMA NoInsertDInv ==
    ASSUME IInv, IInv', DInv, UNCHANGED <<made, stable>>,
           DOMAIN dirs' \subseteq DOMAIN dirs, DOMAIN songs' \subseteq DOMAIN songs,
           \A k \in DOMAIN dirs' : dirs'[k] = dirs[k],
           \A k \in DOMAIN songs' : songs'[k] = songs[k],
           \A f \in ToSet(stack') : f \in ToSet(stack) \/ NotTwice(f, dirs, songs)
    PROVE  DInv'
<1>1. ASSUME NEW f \in ToSet(stack')
      PROVE  /\ NotTwice(f, dirs, songs)
             /\ Under(dirs', f.id) \subseteq DOMAIN dirs
             /\ In(songs', f.id) \subseteq DOMAIN songs
    BY <1>1 DEF DInv, Under, In
<1> QED BY <1>1, DStepKeeps


LEMMA VisitSongDInv ==
    ASSUME IInv, PInv, DInv, IInv', NEW n, NEW f,
           VisitKnownSong(n, f) \/ VisitNewSong(n, f) \/ VisitVanishing(n, f)
    PROVE  DInv'
<1> DEFINE q == Append(PathOf(dirs, Top.id), n)
<1>1. UNCHANGED <<made, stable>>
    BY DEF VisitKnownSong, VisitNewSong, VisitVanishing, observer
<1>2. PICK g, s :
         /\ g \in Frames
         /\ IsFrame(g, "sync", Top.id, Top.depth, Top.opened, f.entries, Top.dirs,
                    Top.songs \ {s})
         /\ ToSet(stack') = ToSet(Below) \cup {g}
         /\ stack # <<>> /\ Top.mode = "sync" /\ dirs' = dirs
         /\ \/ Visits(n, "song", f) /\ s \in KnownSongs(n) /\ songs' = songs
            \/ /\ Visits(n, "song", f) /\ KnownSongs(n) = {} /\ s \notin DOMAIN songs
               /\ DOMAIN songs' = DOMAIN songs \cup {s}
               /\ songs'[s] = [dir |-> Top.id, name |-> n]
               /\ \A k \in DOMAIN songs : songs'[k] = songs[k]
            \/ Visits(n, "none", f) /\ s \notin Top.songs /\ songs' = songs
    BY VisitSongDoes
<1>3. PICK kind : Visits(n, kind, f)
    BY <1>2
<1>4. /\ q = Entry(n) /\ TakenFrom(f, Top, n)
      /\ stable => n \notin f.entries
    BY <1>3, AtEntry
<1>5. /\ Top.id \in DOMAIN dirs /\ Top.id \in Nat \ {0} /\ Top.opened \in Nat
      /\ \A k \in Top.songs :
            /\ k \in DOMAIN songs /\ songs[k].dir = Top.id
            /\ SongAt(dirs, songs, k) = Append(PathOf(dirs, Top.id), songs[k].name)
      /\ TablesOK(dirs, songs) /\ TablesOK(dirs', songs') /\ NotTwice(Top, dirs, songs)
    BY <1>2, TopSees DEF DInv, IInv
<1>6. /\ f.entries \subseteq Top.entries
      /\ n \in f.entries => made[q] # 0
      /\ n \notin Top.entries => made[q] # 0
    BY <1>4, <1>5, MadeLate
<1>7. ASSUME NEW k, songs'[k].dir = Top.id, songs'[k].name = n
      PROVE  SongAt(dirs', songs', k) = q
    <2>1. dirs' = dirs
        BY <1>2
    <2> QED BY <1>7, <2>1 DEF SongAt
<1> HIDE DEF q
<1>8. /\ \A k \in DOMAIN songs : k \in DOMAIN songs' /\ songs'[k] = songs[k]
      /\ \A k \in DOMAIN songs' \ DOMAIN songs :
            k = s /\ songs'[k] = [dir |-> Top.id, name |-> n] /\ KnownSongs(n) = {}
      /\ s \in Top.songs => s \in KnownSongs(n)
    <2>1. CASE songs' = songs
        BY <1>2, <1>5, <2>1
    <2>2. CASE /\ KnownSongs(n) = {} /\ s \notin DOMAIN songs
               /\ DOMAIN songs' = DOMAIN songs \cup {s}
               /\ songs'[s] = [dir |-> Top.id, name |-> n]
               /\ \A k \in DOMAIN songs : songs'[k] = songs[k]
        BY <1>5, <2>2
    <2> QED BY <1>2, <2>1, <2>2
<1>9. \A k \in DOMAIN songs : SongAt(dirs', songs', k) = SongAt(dirs, songs, k)
    BY <1>2, <1>8 DEF SongAt
<1>10. ASSUME NEW k \in DOMAIN songs' \ DOMAIN songs, NEW t \in DOMAIN songs',
              songs'[k] = songs'[t], k # t
       PROVE  made[SongAt(dirs', songs', k)] # 0
    <2>1. /\ k = s /\ t \in DOMAIN songs /\ songs'[t] = songs[t]
          /\ songs[t].dir = Top.id /\ songs[t].name = n /\ t \notin Top.songs
        BY <1>8, <1>10 DEF KnownSongs
    <2>2. SongAt(dirs', songs', k) = q /\ SongAt(dirs', songs', t) = q
        BY <1>7, <1>8, <1>10, <2>1
    <2>3. n \in Top.entries => made[SongAt(dirs, songs, t)] # 0
        BY <1>2, <1>5, <2>1 DEF NotTwice, In
    <2> QED BY <1>6, <1>9, <2>1, <2>2, <2>3
<1>11. NotTwice(g, dirs', songs')
    <2>1. /\ g.mode = "sync" /\ g.id = Top.id /\ g.entries = f.entries
          /\ g.dirs = Top.dirs /\ g.songs = Top.songs \ {s}
        BY <1>2 DEF IsFrame
    <2>2. ASSUME NEW k \in In(songs', Top.id), k \notin Top.songs \ {s},
                 songs'[k].name \in f.entries
          PROVE  ~stable /\ made[SongAt(dirs', songs', k)] # 0
        <3>1. CASE k \notin DOMAIN songs
            <4>1. songs'[k].name = n /\ songs'[k].dir = Top.id
                BY <1>8, <2>2, <3>1 DEF In
            <4>2. n \in f.entries /\ SongAt(dirs', songs', k) = q
                BY <1>7, <2>2, <4>1
            <4> QED BY <1>4, <1>6, <4>2
        <3>2. CASE k \in DOMAIN songs /\ k \in Top.songs
            <4>1. k = s /\ s \in KnownSongs(n)
                BY <1>8, <2>2, <3>2
            <4>2. songs'[k].name = n /\ songs'[k].dir = Top.id
                BY <1>5, <1>8, <3>2, <4>1 DEF KnownSongs
            <4>3. n \in f.entries /\ SongAt(dirs', songs', k) = q
                BY <1>7, <2>2, <4>2
            <4> QED BY <1>4, <1>6, <4>3
        <3>3. CASE k \in DOMAIN songs /\ k \notin Top.songs
            <4>1. k \in In(songs, Top.id) /\ songs'[k] = songs[k]
                BY <1>8, <2>2, <3>3 DEF In
            <4> QED BY <1>2, <1>5, <1>6, <1>9, <2>2, <3>3, <4>1 DEF NotTwice
        <3> QED BY <3>1, <3>2, <3>3
    <2>3. ASSUME NEW k \in Under(dirs, Top.id), k \notin Top.dirs, dirs[k].name \in f.entries
          PROVE  ~stable /\ made[PathOf(dirs, k)] # 0
        BY <1>2, <1>5, <1>6, <2>3 DEF NotTwice
    <2> QED BY <1>1, <1>2, <2>1, <2>2, <2>3 DEF NotTwice
<1>12. ASSUME NEW k \in ToSet(Below)
       PROVE  /\ NotTwice(k, dirs, songs) /\ Under(dirs', k.id) \subseteq DOMAIN dirs
              /\ In(songs', k.id) \subseteq DOMAIN songs
    <2>1. k \in ToSet(stack) /\ k.id \in Nat /\ k.id < Top.id
        BY <1>2, <1>12, BelowIds
    <2>2. k.id # Top.id
        BY <1>5, <2>1
    <2> QED BY <1>2, <1>8, <2>1, <2>2 DEF DInv, Under, In
<1>13. \A k \in ToSet(stack') :
          \/ NotTwice(k, dirs', songs')
          \/ /\ NotTwice(k, dirs, songs)
             /\ Under(dirs', k.id) \subseteq DOMAIN dirs
             /\ In(songs', k.id) \subseteq DOMAIN songs
    BY <1>2, <1>11, <1>12
<1> QED BY <1>1, <1>2, <1>8, <1>10, <1>13, DStepKeeps

LEMMA ScanRootDInv == ASSUME IInv, PInv, DInv, IInv', ScanRoot PROVE DInv'
<1> DEFINE row == [parent |-> 0, name |-> Head(todo)]
           known == {k \in DOMAIN dirs : dirs[k] = row}
<1>1. songs' = songs /\ UNCHANGED <<made, stable>>
    BY DEF ScanRoot, observer
<1>2. PICK h \in Frames, d \in Nat \ {0} :
         /\ IsFrame(h, "enter", d, 0, 0, {}, {}, {})
         /\ ToSet(stack') = {h}
         /\ \/ d \in known /\ dirs' = dirs
            \/ /\ known = {} /\ d \notin DOMAIN dirs
               /\ DOMAIN dirs' = DOMAIN dirs \cup {d} /\ dirs'[d] = row
               /\ \A k \in DOMAIN dirs : dirs'[k] = dirs[k]
    BY ScanRootDoes
<1> HIDE DEF row
<1>3. \A f \in ToSet(stack') : NotTwice(f, dirs', songs')
    BY <1>2 DEF NotTwice, IsFrame
<1>4. \A k \in DOMAIN dirs' \ DOMAIN dirs, e \in DOMAIN dirs' : dirs'[k] = dirs'[e] => k = e
    BY <1>2
<1>5. \A k \in DOMAIN dirs \cap DOMAIN dirs' : dirs'[k] = dirs[k]
    BY <1>2
<1> HIDE DEF known
<1> QED BY <1>1, <1>3, <1>4, <1>5, DStepKeeps

LEMMA EnterDirDInv == ASSUME IInv, PInv, DInv, IInv', EnterDir PROVE DInv'
<1>1. /\ stack # <<>> /\ dirs' = dirs /\ songs' = songs /\ UNCHANGED <<made, stable>>
    BY EnterDirDoes DEF EnterDir, tables, observer
<1>2. PICK g \in Frames :
         /\ IsFrame(g, "sync", Top.id, Top.depth + 1, changes, Contents, Under(dirs, Top.id),
                    In(songs, Top.id))
         /\ ToSet(stack') = ToSet(Below) \cup {g}
    BY EnterDirDoes
<1>3. NotTwice(g, dirs, songs)
    BY <1>2 DEF NotTwice, IsFrame
<1>4. \A f \in ToSet(stack') : f \in ToSet(stack) \/ NotTwice(f, dirs, songs)
    BY <1>1, <1>2, <1>3, StackSets
<1> QED BY <1>1, <1>4, NoInsertDInv

LEMMA LoopEndsDInv == ASSUME IInv, PInv, DInv, IInv', LoopEnds PROVE DInv'
<1>1. /\ stack # <<>> /\ dirs' = dirs /\ songs' = songs /\ UNCHANGED <<made, stable>>
    BY LoopEndsDoes DEF LoopEnds, tables, observer
<1>2. PICK g \in Frames :
         /\ IsFrame(g, "reap", Top.id, Top.depth, 0, {}, Top.dirs, Top.songs)
         /\ ToSet(stack') = ToSet(Below) \cup {g}
    BY LoopEndsDoes
<1>3. NotTwice(g, dirs, songs)
    BY <1>2 DEF NotTwice, IsFrame
<1>4. \A f \in ToSet(stack') : f \in ToSet(stack) \/ NotTwice(f, dirs, songs)
    BY <1>1, <1>2, <1>3, StackSets
<1> QED BY <1>1, <1>4, NoInsertDInv

LEMMA ReapDirDInv == ASSUME IInv, PInv, DInv, IInv', ReapDir PROVE DInv'
<1>1. /\ Reaping /\ dirs' = dirs /\ songs' = songs /\ UNCHANGED <<made, stable>>
    BY DEF ReapDir, tables, observer
<1>2. PICK g \in Frames, h \in Frames, d \in Top.dirs :
         /\ IsFrame(g, Top.mode, Top.id, Top.depth, Top.opened, Top.entries, Top.dirs \ {d},
                    Top.songs)
         /\ IsFrame(h, "destroy", d, 0, 0, {}, Under(dirs, d), In(songs, d))
         /\ ToSet(stack') = ToSet(Below) \cup {g, h}
    BY ReapDirDoes
<1>3. stack # <<>> /\ Top.mode \in {"reap", "destroy"}
    BY <1>1, ReapingSees
<1>4. NotTwice(g, dirs, songs) /\ NotTwice(h, dirs, songs)
    BY <1>2, <1>3 DEF NotTwice, IsFrame
<1>5. \A f \in ToSet(stack') : f \in ToSet(stack) \/ NotTwice(f, dirs, songs)
    BY <1>2, <1>3, <1>4, StackSets
<1> QED BY <1>1, <1>5, NoInsertDInv

LEMMA ReapSongDInv == ASSUME IInv, PInv, DInv, IInv', ReapSong PROVE DInv'
<1>1. /\ Reaping /\ dirs' = dirs /\ UNCHANGED <<made, stable>>
    BY DEF ReapSong, observer
<1>2. PICK g \in Frames, s \in Top.songs :
         /\ IsFrame(g, Top.mode, Top.id, Top.depth, Top.opened, Top.entries, Top.dirs,
                    Top.songs \ {s})
         /\ ToSet(stack') = ToSet(Below) \cup {g}
         /\ DOMAIN songs' = DOMAIN songs \ {s} /\ \A k \in DOMAIN songs' : songs'[k] = songs[k]
    BY ReapSongDoes
<1>3. stack # <<>> /\ Top.mode \in {"reap", "destroy"}
    BY <1>1, ReapingSees
<1>4. NotTwice(g, dirs, songs)
    BY <1>2, <1>3 DEF NotTwice, IsFrame
<1>5. \A f \in ToSet(stack') : f \in ToSet(stack) \/ NotTwice(f, dirs, songs)
    BY <1>2, <1>3, <1>4, StackSets
<1> QED BY <1>1, <1>2, <1>5, NoInsertDInv

LEMMA ReturnDInv == ASSUME IInv, PInv, DInv, IInv', Return \/ SkipDir PROVE DInv'
<1>1. songs' = songs /\ UNCHANGED <<made, stable>>
    BY DEF Return, SkipDir, tables, observer
<1>2. /\ stack # <<>> /\ ToSet(stack') = ToSet(Below)
      /\ DOMAIN dirs' \subseteq DOMAIN dirs /\ \A k \in DOMAIN dirs' : dirs'[k] = dirs[k]
    BY ReturnDoes DEF SkipDir, InFrame, tables
<1>3. \A f \in ToSet(stack') : f \in ToSet(stack)
    BY <1>2, StackSets
<1> QED BY <1>1, <1>2, <1>3, NoInsertDInv

\* A scan begins or ends, one way or another, or nothing happens.
LEMMA NoFramesDInv ==
    ASSUME DInv, UNCHANGED <<dirs, songs, made>>, ToSet(stack') = {} PROVE DInv'
BY DEF DInv, OneRow

\* What was made while a scan ran remains so.
LEMMA ChangeFsDInv == ASSUME PInv, DInv, IInv, ChangeFs PROVE DInv'
<1>1. stable' = FALSE /\ dirs' = dirs /\ songs' = songs /\ stack' = stack
    BY DEF ChangeFs, tables
<1>2. \A p \in Paths : made[p] # 0 => made'[p] # 0
    <2>1. made \in [Paths -> 0..changes] /\ changes \in Nat /\ changes' = changes + 1
        BY DEF PInv, Kinds, ChangeFs
    <2>2. made' = made \/ \E p \in Paths : made' = [made EXCEPT ![p] = changes']
        BY DEF ChangeFs, AddEntry, RemoveEntry
    <2> QED BY <2>1, <2>2
<1>3. /\ \A d \in DOMAIN dirs : PathOf(dirs, d) \in Paths
      /\ \A s \in DOMAIN songs : SongAt(dirs, songs, s) \in Paths
    BY DEF PInv, RowsOK, DirRowOK, SongRowOK
<1>4. OneRow(dirs, songs)'
    BY <1>1, <1>2, <1>3 DEF DInv, OneRow
<1>5. ASSUME NEW f \in ToSet(stack)' PROVE NotTwice(f, dirs, songs)'
    <2>1. NotTwice(f, dirs, songs)
        BY <1>1, <1>5 DEF DInv
    <2> QED BY <1>1, <1>2, <1>3, <2>1 DEF NotTwice, Under, In
<1> QED BY <1>4, <1>5 DEF DInv

LEMMA InitDInv == Init => DInv
<1> SUFFICES ASSUME Init PROVE DInv
    OBVIOUS
<1>1. ToSet(stack) = {} /\ DOMAIN dirs = {} /\ DOMAIN songs = {}
    BY EmptySets DEF Init
<1> QED BY <1>1 DEF DInv, OneRow

LEMMA NextDInv == IInv /\ PInv /\ DInv /\ [Next]_vars => DInv'
<1> SUFFICES ASSUME IInv, PInv, DInv, [Next]_vars PROVE DInv'
    OBVIOUS
<1>1. IInv'
    BY NextIInv DEF PInv
<1>2. ASSUME NEW how, Abort(how) PROVE DInv'
    BY <1>2, NoFramesDInv, EmptySets DEF Abort, tables
<1>3. CASE OpenFails \/ DatabaseFails \/ \E n, f : VisitNewTag(n, f) \/ VisitVanished(n, f)
    BY <1>2, <1>3 DEF OpenFails, DatabaseFails, VisitNewTag, VisitVanished
<1>4. CASE Crash \/ Start
    BY <1>4, NoFramesDInv, EmptySets DEF Crash, Start, tables
<1>5. CASE UNCHANGED vars \/ ScanDone
    <2>1. UNCHANGED <<stack, dirs, songs, stable, made>>
        BY <1>5 DEF vars, tables, observer, ScanDone
    <2>2. ASSUME NEW f \in ToSet(stack)' PROVE NotTwice(f, dirs, songs)'
        BY <2>1, <2>2 DEF DInv, NotTwice
    <2> QED BY <2>1, <2>2 DEF DInv, OneRow
<1>6. CASE ScanStep
    <2>1. CASE \E n, f : VisitDir(n, f) \/ VisitKnownSong(n, f) \/ VisitNewSong(n, f)
                            \/ VisitVanishing(n, f)
        BY <1>1, <2>1, VisitDirDInv, VisitSongDInv
    <2> QED BY <1>1, <1>3, <1>5, <1>6, <2>1, ScanRootDInv, EnterDirDInv, LoopEndsDInv,
               ReapDirDInv, ReapSongDInv, ReturnDInv DEF ScanStep
<1> QED BY <1>1, <1>3, <1>4, <1>5, <1>6, ChangeFsDInv DEF Next

LEMMA RowsInvariant == Spec => [](IInv /\ PInv /\ DInv)
BY InitDInv, NextDInv, SeenInvariant, PTL DEF Spec

\* sync records no entry twice, whatever it was interrupted by, but for one that was
\* made while a scan ran.
THEOREM OneRowPerEntryEver == Spec => []OneRowPerEntry
<1>1. DInv => OneRowPerEntry
    BY DirPathIs, SongPathIs DEF DInv, OneRow, OneRowPerEntry
<1> QED BY <1>1, RowsInvariant, PTL

------------------------------------------------------------------------------
(* What a scan of an unchanging file system has done.  U are the rows that *)
(* it has not come to, or of roots that are not there: each is under one   *)
(* of them, or next for an activation that there is or for a root that is  *)
(* still to do.  All others are of directories, and all that is in these   *)
(* is recorded once, as long as no activation is at work on it.            *)

\* Of the entries of the directory p those that are not in E have one row each among
\* ds and ss, and these have no other rows.  room: they are not too deep.
Tally(F, p, room, E, ds, ss, D, S) ==
    /\ \A n \in Names : room /\ Append(p, n) \in Paths /\ n \notin E =>
          /\ F[Append(p, n)] = "dir" => \E k \in ds : D[k].name = n
          /\ F[Append(p, n)] = "song" => \E s \in ss : S[s].name = n
    /\ \A s \in ss : F[Append(p, S[s].name)] = "song"
    /\ \A k \in ds : D[k].name \notin E /\ \A j \in ds : D[j].name = D[k].name => j = k
    /\ \A s \in ss : S[s].name \notin E /\ \A t \in ss : S[t].name = S[s].name => t = s

Room(D, d) == Len(PathOf(D, d)) < Len(RootOf(D, d)) + DepthLimit

\* What the directory of a row has, but for the names E, is recorded by the rows that
\* were reached, and by the songs but for L.
Record(F, U, d, E, L, D, S) ==
    Tally(F, PathOf(D, d), Room(D, d), E, Under(D, d) \ U, In(S, d) \ L, D, S)

\* The scan will come to this row, or its root is not there.
Due(F, k, D, T, R) ==
    \/ D[k].parent = 0 /\ (D[k].name \in R \/ F[D[k].name] # "dir")
    \/ \E f \in T : \/ f.mode = "enter" /\ D[k].parent = f.id
                    \/ f.mode # "enter" /\ k \in f.dirs
                    \/ f.mode = "destroy" /\ k = f.id

\* What is under a row that was not reached was not reached either.
Closed(U, D) == U \subseteq DOMAIN D /\ \A k \in DOMAIN D : D[k].parent \in U => k \in U

\* Each row that was not reached is under another, or due itself.
Waiting(F, U, D, T, R) == \A k \in U : D[k].parent \in U \/ Due(F, k, D, T, R)

\* Each other row is of a directory, which is being read or all recorded.
Reached(F, U, D, S, T) ==
    \A k \in DOMAIN D \ U :
        /\ F[PathOf(D, k)] = "dir"
        /\ (\E f \in T : f.id = k /\ f.mode # "destroy") \/ Record(F, U, k, {}, {}, D, S)

\* An activation has recorded what it has taken off its lists.
Worked(F, U, f, D, S) ==
    /\ f.mode = "enter" =>
          Under(D, f.id) \subseteq U /\ (f.id \in U => F[PathOf(D, f.id)] # "dir")
    /\ f.mode \in {"sync", "reap"} =>
          f.id \notin U /\ f.dirs \subseteq U /\ Record(F, U, f.id, f.entries, f.songs, D, S)
    /\ f.mode = "destroy" => f.id \in U

\* A root that is no longer to do has a row.
RootsKnown(D, R) ==
    \A r \in ToSet(Roots) \ R : \E k \in DOMAIN D : D[k].parent = 0 /\ D[k].name = r

WalkOK(F, U, D, S, T, R) ==
    /\ Closed(U, D) /\ Waiting(F, U, D, T, R) /\ Reached(F, U, D, S, T)
    /\ \A f \in T : Worked(F, U, f, D, S)
    /\ RootsKnown(D, R)

\* While a scan is under way.
WInv ==
    stable /\ app = "scanning" =>
        \E U \in SUBSET DOMAIN dirs :
            WalkOK(fs, U, dirs, songs, ToSet(stack), ToSet(todo))

\* Before a step of the scan, and after it.
Walking(U) == WalkOK(fs, U, dirs, songs, ToSet(stack), ToSet(todo))
WalkOn(V) == WalkOK(fs, V, dirs', songs', ToSet(stack'), ToSet(todo'))

\* A step that has nothing to do with the directory of a row.
Same(U, V, D, S, D2, S2, k) ==
    Under(D2, k) \ V = Under(D, k) \ U /\ In(S2, k) = In(S, k)

RowsAgree(D, S, D2, S2) ==
    /\ \A k \in DOMAIN D \cap DOMAIN D2 : D2[k] = D[k]
    /\ \A s \in DOMAIN S \cap DOMAIN S2 : S2[s] = S[s]

LEMMA TallyKept ==
    ASSUME NEW F, NEW p, NEW room, NEW E, NEW ds, NEW ss, NEW D, NEW S, NEW D2, NEW S2,
           \A k \in ds : D2[k] = D[k], \A s \in ss : S2[s] = S[s],
           Tally(F, p, room, E, ds, ss, D, S)
    PROVE  Tally(F, p, room, E, ds, ss, D2, S2)
BY DEF Tally

LEMMA RecordKept ==
    ASSUME NEW F, NEW U, NEW V, NEW D, NEW S, NEW D2, NEW S2, TablesOK(D, S), TablesOK(D2, S2),
           RowsAgree(D, S, D2, S2), NEW k \in DOMAIN D, k \in DOMAIN D2, NEW E, NEW L,
           Under(D2, k) \ V = Under(D, k) \ U, In(S2, k) \ L = In(S, k) \ L,
           Record(F, U, k, E, L, D, S)
    PROVE  Record(F, V, k, E, L, D2, S2)
<1>1. PathOf(D2, k) = PathOf(D, k) /\ RootOf(D2, k) = RootOf(D, k)
    BY PathsKept DEF RowsAgree
<1>2. \A j \in Under(D, k) \ U : D2[j] = D[j]
    <2>1. \A j \in Under(D, k) \ U : j \in DOMAIN D /\ j \in DOMAIN D2
        BY DEF Under
    <2> QED BY <2>1 DEF RowsAgree
<1>3. \A s \in In(S, k) \ L : S2[s] = S[s]
    <2>1. \A s \in In(S, k) \ L : s \in DOMAIN S /\ s \in DOMAIN S2
        BY DEF In
    <2> QED BY <2>1 DEF RowsAgree
<1>4. Room(D2, k) = Room(D, k)
    BY <1>1 DEF Room
<1>5. Tally(F, PathOf(D, k), Room(D, k), E, Under(D, k) \ U, In(S, k) \ L, D, S)
    BY DEF Record
<1>6. Tally(F, PathOf(D, k), Room(D, k), E, Under(D, k) \ U, In(S, k) \ L, D2, S2)
    BY <1>2, <1>3, <1>5, TallyKept
<1> QED BY <1>1, <1>4, <1>6 DEF Record

\* A directory that was visited is reached, a song is recorded.
LEMMA TallyDir ==
    ASSUME NEW F, NEW p, NEW room, NEW E, NEW ds, NEW ss, NEW D, NEW S, NEW D2, NEW n \in E,
           NEW d, D2[d].name = n, \A k \in ds : D2[k] = D[k], F[Append(p, n)] = "dir",
           Tally(F, p, room, E, ds, ss, D, S)
    PROVE  Tally(F, p, room, E \ {n}, ds \cup {d}, ss, D2, S)
<1>1. ASSUME NEW m \in Names, room, Append(p, m) \in Paths, m \notin E \ {n}
      PROVE  /\ F[Append(p, m)] = "dir" => \E k \in ds \cup {d} : D2[k].name = m
             /\ F[Append(p, m)] = "song" => \E s \in ss : S[s].name = m
    <2>1. CASE m = n
        BY <2>1
    <2>2. CASE m # n
        BY <1>1, <2>2 DEF Tally
    <2> QED BY <2>1, <2>2
<1>2. \A k \in ds : D2[k].name # n
    BY DEF Tally
<1>3. \A s \in ss : F[Append(p, S[s].name)] = "song"
    BY DEF Tally
<1>4. ASSUME NEW k \in ds \cup {d}
      PROVE  D2[k].name \notin E \ {n} /\ \A j \in ds \cup {d} : D2[j].name = D2[k].name => j = k
    BY <1>2 DEF Tally
<1>5. \A s \in ss : S[s].name \notin E \ {n} /\ \A t \in ss : S[t].name = S[s].name => t = s
    BY DEF Tally
<1> QED BY <1>1, <1>3, <1>4, <1>5 DEF Tally

LEMMA TallySong ==
    ASSUME NEW F, NEW p, NEW room, NEW E, NEW ds, NEW ss, NEW D, NEW S, NEW S2, NEW n \in E,
           NEW s, S2[s].name = n, \A t \in ss : S2[t] = S[t], F[Append(p, n)] = "song",
           Tally(F, p, room, E, ds, ss, D, S)
    PROVE  Tally(F, p, room, E \ {n}, ds, ss \cup {s}, D, S2)
<1>1. ASSUME NEW m \in Names, room, Append(p, m) \in Paths, m \notin E \ {n}
      PROVE  /\ F[Append(p, m)] = "dir" => \E k \in ds : D[k].name = m
             /\ F[Append(p, m)] = "song" => \E t \in ss \cup {s} : S2[t].name = m
    <2>1. CASE m = n
        BY <2>1
    <2>2. CASE m # n
        BY <1>1, <2>2 DEF Tally
    <2> QED BY <2>1, <2>2
<1>2. \A t \in ss : S2[t].name # n
    BY DEF Tally
<1>3. \A t \in ss \cup {s} : F[Append(p, S2[t].name)] = "song"
    BY DEF Tally
<1>4. \A k \in ds : D[k].name \notin E \ {n} /\ \A j \in ds : D[j].name = D[k].name => j = k
    BY DEF Tally
<1>5. ASSUME NEW t \in ss \cup {s}
      PROVE  S2[t].name \notin E \ {n} /\ \A u \in ss \cup {s} : S2[u].name = S2[t].name => u = t
    BY <1>2 DEF Tally
<1> QED BY <1>1, <1>3, <1>4, <1>5 DEF Tally

\* A step of the scan: what was reached still is, if its activation goes on or is done
\* with it, and the activations that it leaves alone are still at work.
LEMMA StepWalks ==
    ASSUME IInv, IInv', NEW U, Walking(U), RowsAgree(dirs, songs, dirs', songs'),
           NEW B \in SUBSET ToSet(stack), B \subseteq ToSet(stack'), NEW V,
           Closed(V, dirs'), Waiting(fs, V, dirs', ToSet(stack'), ToSet(todo')),
           RootsKnown(dirs', ToSet(todo')),
           \A k \in DOMAIN dirs' \ V :
              \/ /\ k \in DOMAIN dirs \ U /\ Same(U, V, dirs, songs, dirs', songs', k)
                 /\ \A f \in ToSet(stack) \ B : f.id # k
              \/ /\ fs[PathOf(dirs', k)] = "dir"
                 /\ \/ \E f \in ToSet(stack') : f.id = k /\ f.mode # "destroy"
                    \/ Record(fs, V, k, {}, {}, dirs', songs'),
           \A f \in ToSet(stack') :
              \/ Worked(fs, V, f, dirs', songs')
              \/ /\ f \in B /\ f.mode # "enter" /\ f.id \in DOMAIN dirs'
                 /\ f.id \in U <=> f.id \in V
                 /\ f.mode # "destroy" =>
                       /\ Same(U, V, dirs, songs, dirs', songs', f.id)
                       /\ f.dirs \cap U \subseteq V
    PROVE  \E W \in SUBSET DOMAIN dirs' : WalkOn(W)
<1>1. TablesOK(dirs, songs) /\ TablesOK(dirs', songs')
    BY DEF IInv
<1>2. Reached(fs, V, dirs', songs', ToSet(stack'))
    <2>1. SUFFICES ASSUME NEW k \in DOMAIN dirs', k \in DOMAIN dirs, k \notin U, k \notin V,
                          Same(U, V, dirs, songs, dirs', songs', k),
                          \A f \in ToSet(stack) \ B : f.id # k
                   PROVE  /\ fs[PathOf(dirs', k)] = "dir"
                          /\ \/ \E f \in ToSet(stack') : f.id = k /\ f.mode # "destroy"
                             \/ Record(fs, V, k, {}, {}, dirs', songs')
        BY DEF Reached
    <2>2. PathOf(dirs', k) = PathOf(dirs, k)
        BY <1>1, <2>1, PathsKept DEF RowsAgree
    <2>3. /\ fs[PathOf(dirs, k)] = "dir"
          /\ \/ \E f \in ToSet(stack) : f.id = k /\ f.mode # "destroy"
             \/ Record(fs, U, k, {}, {}, dirs, songs)
        BY <2>1 DEF Walking, WalkOK, Reached
    <2>4. ASSUME Record(fs, U, k, {}, {}, dirs, songs)
          PROVE  Record(fs, V, k, {}, {}, dirs', songs')
        BY <1>1, <2>1, <2>4, RecordKept DEF Same
    <2> QED BY <2>1, <2>2, <2>3, <2>4
<1>3. ASSUME NEW f \in B, f.mode # "enter", f.id \in DOMAIN dirs', f.id \in U <=> f.id \in V,
             f.mode # "destroy" => /\ Same(U, V, dirs, songs, dirs', songs', f.id)
                                   /\ f.dirs \cap U \subseteq V
      PROVE  Worked(fs, V, f, dirs', songs')
    <2>1. Worked(fs, U, f, dirs, songs) /\ f.id \in DOMAIN dirs
        BY StackFrames DEF IInv, FrameOK, Walking, WalkOK
    <2>2. ASSUME f.mode \in {"sync", "reap"}
          PROVE  Record(fs, V, f.id, f.entries, f.songs, dirs', songs')
        <3>1. Record(fs, U, f.id, f.entries, f.songs, dirs, songs)
            BY <2>1, <2>2 DEF Worked
        <3> QED BY <1>1, <1>3, <2>1, <2>2, <3>1, RecordKept DEF Same
    <2> QED BY <1>3, <2>1, <2>2 DEF Worked
<1>4. \A f \in ToSet(stack') : Worked(fs, V, f, dirs', songs')
    BY <1>3
<1>5. WalkOn(V)
    BY <1>2, <1>4 DEF WalkOn, WalkOK
<1> QED BY <1>5 DEF Closed

LEMMA WalkParts ==
    ASSUME IInv, PInv, NEW U, Walking(U)
    PROVE  /\ Closed(U, dirs) /\ Waiting(fs, U, dirs, ToSet(stack), ToSet(todo))
           /\ Reached(fs, U, dirs, songs, ToSet(stack))
           /\ \A f \in ToSet(stack) : Worked(fs, U, f, dirs, songs)
           /\ RootsKnown(dirs, ToSet(todo))
           /\ U \subseteq DOMAIN dirs /\ 0 \notin DOMAIN dirs
           /\ \A k \in DOMAIN dirs : k \in Nat /\ dirs[k].parent \in DOMAIN dirs \cup {0}
           /\ TablesOK(dirs, songs) /\ RowsOK(dirs, songs)
<1>1. TablesOK(dirs, songs) /\ RowsOK(dirs, songs)
    BY DEF IInv, PInv
<1>2. 0 \notin DOMAIN dirs /\ \A k \in DOMAIN dirs : k \in Nat /\ dirs[k].parent \in DOMAIN dirs \cup {0}
    BY <1>1 DEF TablesOK, Rooted, Bounded
<1> QED BY <1>1, <1>2 DEF Walking, WalkOK, Closed

LEMMA BelowFacts ==
    ASSUME IInv, stack # <<>>, NEW f \in ToSet(Below)
    PROVE  /\ f \in ToSet(stack) /\ f.mode # "enter" /\ f.id \in DOMAIN dirs /\ f.id \in Nat
           /\ f.id < Top.id /\ f.id # Top.id /\ f.dirs \subseteq Under(dirs, f.id)
<1>1. /\ f \in ToSet(stack) /\ FrameOK(f, dirs, songs) /\ f.mode # "enter"
      /\ f.id \in DOMAIN dirs /\ f.id \in Nat /\ f.id < Top.id /\ Top.id \in Nat
    <2>1. Top.id \in Nat
        BY TopFacts DEF Frames
    <2> QED BY <2>1, BelowIds
<1> QED BY <1>1 DEF FrameOK, OnLists

\* A directory is entered that was not reached: now it is.
LEMMA VisitDirWalks ==
    ASSUME IInv, PInv, IInv', stable, NEW U, Walking(U), NEW n, NEW f, VisitDir(n, f)
    PROVE  \E V \in SUBSET DOMAIN dirs' : WalkOn(V)
<1> DEFINE p == PathOf(dirs, Top.id)
           B == ToSet(Below)
<1>1. /\ stack # <<>> /\ Top.mode = "sync" /\ fs[Append(p, n)] = "dir" /\ fs[p] = "dir"
      /\ n \in Top.entries /\ f.entries = Top.entries \ {n}
    BY AtEntry DEF VisitDir
<1>2. songs' = songs /\ todo' = todo
    BY DEF VisitDir
<1>3. PICK g \in Frames, h \in Frames, d \in Nat \ {0} : DirVisited(g, h, d, n, f)
    BY VisitDirRow
<1>4. /\ g.mode = "sync" /\ g.id = Top.id /\ g.entries = Top.entries \ {n}
      /\ g.dirs = Top.dirs \ {d} /\ g.songs = Top.songs
      /\ h.mode = "enter" /\ h.id = d /\ ToSet(stack') = B \cup {g, h}
      /\ d \in DOMAIN dirs' /\ Top.id \in DOMAIN dirs'
      /\ \A k \in DOMAIN dirs : k \in DOMAIN dirs' /\ dirs'[k] = dirs[k]
      /\ \A k \in DOMAIN dirs' \ DOMAIN dirs : k = d
      /\ d \in DOMAIN dirs => d \in Top.dirs
      /\ dirs'[d].parent = Top.id /\ dirs'[d].name = n
      /\ PathOf(dirs', d) = Append(p, n)
    BY <1>1, <1>3 DEF DirVisited, IsFrame, KnownDirs
<1>5. /\ ToSet(stack) = B \cup {Top} /\ Top \in ToSet(stack) /\ Top.id \in DOMAIN dirs /\ Top.id \in Nat \ {0}
    BY <1>1, TopSees, StackSets
<1>6. /\ Closed(U, dirs) /\ Waiting(fs, U, dirs, B \cup {Top}, ToSet(todo))
      /\ Worked(fs, U, Top, dirs, songs)
      /\ RootsKnown(dirs, ToSet(todo)) /\ U \subseteq DOMAIN dirs /\ 0 \notin DOMAIN dirs
      /\ \A k \in DOMAIN dirs : k \in Nat /\ dirs[k].parent \in DOMAIN dirs \cup {0}
    BY <1>5, WalkParts
<1>7. /\ Top.id \notin U /\ Top.dirs \subseteq U
      /\ Record(fs, U, Top.id, Top.entries, Top.songs, dirs, songs)
    BY <1>1, <1>6 DEF Worked
<1>8. Top.id < d /\ Top.id # d
    <2>1. dirs'[d].parent < d
        BY <1>4, <1>5, Unfolded DEF IInv
    <2> QED BY <1>4, <1>5, <2>1
<1>9. RowsAgree(dirs, songs, dirs', songs') /\ PathOf(dirs', Top.id) = p /\ RootOf(dirs', Top.id) = RootOf(dirs, Top.id)
    <2>1. RowsAgree(dirs, songs, dirs', songs')
        BY <1>2, <1>4 DEF RowsAgree
    <2> QED BY <1>4, <1>5, <2>1, PathsKept DEF RowsAgree, IInv
<1> DEFINE V == U \ {d}
<1> HIDE DEF p, B
<1>10. ASSUME NEW k, k # Top.id PROVE Under(dirs', k) \ V = Under(dirs, k) \ U
    <2>1. \A j \in Under(dirs', k) : j \in DOMAIN dirs /\ j # d /\ dirs[j].parent = k
        BY <1>4, <1>10 DEF Under
    <2>2. \A j \in Under(dirs, k) : j \in DOMAIN dirs' /\ j # d /\ dirs'[j].parent = k
        BY <1>4, <1>10 DEF Under
    <2> QED BY <2>1, <2>2 DEF Under
<1>11. Under(dirs', Top.id) \ V = (Under(dirs, Top.id) \ U) \cup {d}
    BY <1>4 DEF Under
<1>12. Under(dirs', d) \subseteq V
    <2>1. SUFFICES ASSUME NEW j \in DOMAIN dirs', dirs'[j].parent = d PROVE j \in V
        BY DEF Under
    <2>2. j # d /\ j \in DOMAIN dirs /\ dirs[j].parent = d
        BY <1>4, <1>8, <2>1
    <2>3. d \in DOMAIN dirs /\ d \in U
        BY <1>4, <1>6, <1>7, <2>2
    <2> QED BY <1>6, <2>2, <2>3 DEF Closed
<1>13. Closed(V, dirs')
    <2>1. ASSUME NEW k \in DOMAIN dirs', dirs'[k].parent \in V PROVE k \in V
        <3>1. k # d
            BY <1>4, <1>7, <2>1
        <3>2. k \in DOMAIN dirs /\ dirs[k].parent \in U
            BY <1>4, <2>1, <3>1
        <3> QED BY <1>6, <3>1, <3>2 DEF Closed
    <2> QED BY <1>4, <1>6, <2>1 DEF Closed
<1>14. Waiting(fs, V, dirs', B \cup {g, h}, ToSet(todo))
    <2>1. SUFFICES ASSUME NEW k \in V
                   PROVE  dirs'[k].parent \in V \/ Due(fs, k, dirs', B \cup {g, h}, ToSet(todo))
        BY DEF Waiting
    <2>2. /\ k \in DOMAIN dirs /\ k # d /\ dirs'[k] = dirs[k]
          /\ dirs[k].parent \in U \/ Due(fs, k, dirs, B \cup {Top}, ToSet(todo))
        BY <1>4, <1>6 DEF Waiting
    <2>3. CASE dirs[k].parent = d
        BY <1>4, <2>2, <2>3 DEF Due
    <2>4. CASE dirs[k].parent \in U /\ dirs[k].parent # d
        BY <2>2, <2>4
    <2>5. CASE Due(fs, k, dirs, B \cup {Top}, ToSet(todo))
        <3>1. k \in Top.dirs => k \in g.dirs
            BY <1>4, <2>2
        <3> QED BY <1>1, <1>4, <2>2, <2>5, <3>1 DEF Due
    <2> QED BY <2>2, <2>3, <2>4, <2>5
<1>15. RootsKnown(dirs', ToSet(todo))
    BY <1>4, <1>6 DEF RootsKnown
<1>16. Record(fs, V, Top.id, g.entries, g.songs, dirs', songs')
    <2>1. PICK ds, ss, r : /\ ds = Under(dirs, Top.id) \ U /\ ss = In(songs, Top.id) \ Top.songs
                           /\ r = Room(dirs, Top.id)
        OBVIOUS
    <2>2. Tally(fs, p, r, Top.entries, ds, ss, dirs, songs)
        BY <1>7, <2>1 DEF Record, p
    <2>3. \A k \in ds : dirs'[k] = dirs[k]
        BY <1>4, <2>1 DEF Under
    <2>4. Tally(fs, p, r, Top.entries \ {n}, ds \cup {d}, ss, dirs', songs)
        BY <1>1, <1>4, <2>2, <2>3, TallyDir
    <2>5. Room(dirs', Top.id) = Room(dirs, Top.id)
        BY <1>9 DEF Room, p
    <2> QED BY <1>2, <1>4, <1>9, <1>11, <2>1, <2>4, <2>5 DEF Record
<1>17. ASSUME NEW k \in DOMAIN dirs' \ V
       PROVE  \/ /\ k \in DOMAIN dirs \ U /\ Same(U, V, dirs, songs, dirs', songs', k)
                 /\ \A e \in ToSet(stack) \ B : e.id # k
              \/ /\ fs[PathOf(dirs', k)] = "dir"
                 /\ \E e \in ToSet(stack') : e.id = k /\ e.mode # "destroy"
    <2>1. CASE k = d
        BY <1>1, <1>4, <2>1 DEF p
    <2>2. CASE k = Top.id
        BY <1>1, <1>4, <1>9, <2>2 DEF p
    <2>3. CASE k # d /\ k # Top.id
        BY <1>2, <1>4, <1>5, <1>10, <2>3 DEF Same
    <2> QED BY <2>1, <2>2, <2>3
<1>18. ASSUME NEW e \in B
       PROVE  /\ e.mode # "enter" /\ e.id \in DOMAIN dirs' /\ (e.id \in U <=> e.id \in V)
              /\ Same(U, V, dirs, songs, dirs', songs', e.id) /\ e.dirs \cap U \subseteq V
    <2>1. /\ e.mode # "enter" /\ e.id \in DOMAIN dirs /\ e.id \in Nat
          /\ e.id < Top.id /\ e.id # Top.id /\ e.dirs \subseteq Under(dirs, e.id)
        BY <1>1, BelowFacts DEF B
    <2>2. e.id # d
        BY <1>5, <1>8, <2>1
    <2>3. d \notin e.dirs
        BY <1>4, <2>1 DEF Under
    <2> QED BY <1>2, <1>4, <1>10, <2>1, <2>2, <2>3 DEF Same
<1>19. Worked(fs, V, g, dirs', songs') /\ Worked(fs, V, h, dirs', songs')
    BY <1>4, <1>7, <1>12, <1>16 DEF Worked
<1>20. B \in SUBSET ToSet(stack) /\ B \subseteq ToSet(stack')
    BY <1>4, <1>5
<1>21. \A e \in ToSet(stack') :
              \/ Worked(fs, V, e, dirs', songs')
              \/ /\ e \in B /\ e.mode # "enter" /\ e.id \in DOMAIN dirs'
                 /\ e.id \in U <=> e.id \in V
                 /\ Same(U, V, dirs, songs, dirs', songs', e.id)
                 /\ e.dirs \cap U \subseteq V
    BY <1>4, <1>18, <1>19
<1>22. Waiting(fs, V, dirs', ToSet(stack'), ToSet(todo')) /\ RootsKnown(dirs', ToSet(todo'))
    BY <1>2, <1>4, <1>14, <1>15
<1> HIDE DEF V
<1> QED BY <1>9, <1>13, <1>17, <1>20, <1>21, <1>22, StepWalks

\* A song is visited: now it is recorded.
LEMMA VisitSongWalks ==
    ASSUME IInv, PInv, IInv', stable, NEW U, Walking(U), NEW n, NEW f,
           VisitKnownSong(n, f) \/ VisitNewSong(n, f) \/ VisitVanishing(n, f)
    PROVE  \E V \in SUBSET DOMAIN dirs' : WalkOn(V)
<1> DEFINE p == PathOf(dirs, Top.id)
           B == ToSet(Below)
<1>1. PICK kind : Visits(n, kind, f) /\ todo' = todo /\ UNCHANGED <<fs, stable>>
    BY DEF VisitKnownSong, VisitNewSong, VisitVanishing, observer
<1>2. PICK g, s :
         /\ g \in Frames
         /\ IsFrame(g, "sync", Top.id, Top.depth, Top.opened, f.entries, Top.dirs,
                    Top.songs \ {s})
         /\ ToSet(stack') = ToSet(Below) \cup {g}
         /\ stack # <<>> /\ Top.mode = "sync" /\ dirs' = dirs
         /\ \/ Visits(n, "song", f) /\ s \in KnownSongs(n) /\ songs' = songs
            \/ /\ Visits(n, "song", f) /\ KnownSongs(n) = {} /\ s \notin DOMAIN songs
               /\ DOMAIN songs' = DOMAIN songs \cup {s}
               /\ songs'[s] = [dir |-> Top.id, name |-> n]
               /\ \A k \in DOMAIN songs : songs'[k] = songs[k]
            \/ Visits(n, "none", f) /\ s \notin Top.songs /\ songs' = songs
    BY VisitSongDoes
<1>3. /\ fs[p] = "dir" /\ kind # "none" /\ fs[Append(p, n)] = kind
      /\ n \in Top.entries /\ f.entries = Top.entries \ {n}
    BY <1>1, AtEntry
<1>4. ~Visits(n, "none", f)
    BY AtEntry
<1>5. Visits(n, "song", f) => fs[Append(p, n)] = "song"
    BY AtEntry
<1>6. /\ g.mode = "sync" /\ g.id = Top.id /\ g.entries = Top.entries \ {n}
      /\ g.dirs = Top.dirs /\ g.songs = Top.songs \ {s}
    BY <1>2, <1>3 DEF IsFrame
<1>7. /\ ToSet(stack) = B \cup {Top} /\ Top \in ToSet(stack) /\ Top.id \in DOMAIN dirs
      /\ \A k \in Top.songs : k \in DOMAIN songs /\ songs[k].dir = Top.id
    BY <1>2, TopSees, StackSets
<1>8. /\ fs[Append(p, n)] = "song" /\ s \in DOMAIN songs' /\ songs'[s].name = n /\ songs'[s].dir = Top.id
      /\ \A k \in DOMAIN songs : k \in DOMAIN songs' /\ songs'[k] = songs[k]
      /\ \A k \in DOMAIN songs' : k = s \/ k \in DOMAIN songs
      /\ s \in DOMAIN songs => s \in Top.songs
    BY <1>2, <1>4, <1>5, <1>7 DEF KnownSongs
<1>9. /\ Closed(U, dirs) /\ Waiting(fs, U, dirs, B \cup {Top}, ToSet(todo))
      /\ Worked(fs, U, Top, dirs, songs) /\ RootsKnown(dirs, ToSet(todo))
    BY <1>7, WalkParts
<1>10. /\ Top.id \notin U /\ Top.dirs \subseteq U
       /\ Record(fs, U, Top.id, Top.entries, Top.songs, dirs, songs)
    BY <1>2, <1>9 DEF Worked
<1>11. RowsAgree(dirs, songs, dirs', songs')
    BY <1>2, <1>8 DEF RowsAgree
<1> HIDE DEF p, B
<1>12. ASSUME NEW k, k # Top.id PROVE Same(U, U, dirs, songs, dirs', songs', k)
    <2>1. In(songs', k) = In(songs, k)
        BY <1>8, <1>12 DEF In
    <2> QED BY <1>2, <2>1 DEF Same
<1>13. In(songs', Top.id) \ g.songs = (In(songs, Top.id) \ Top.songs) \cup {s}
    BY <1>6, <1>8 DEF In
<1>14. Waiting(fs, U, dirs', B \cup {g}, ToSet(todo))
    BY <1>2, <1>6, <1>9 DEF Waiting, Due
<1>15. Record(fs, U, Top.id, g.entries, g.songs, dirs', songs')
    <2>1. PICK ds, ss, r : /\ ds = Under(dirs, Top.id) \ U /\ ss = In(songs, Top.id) \ Top.songs
                           /\ r = Room(dirs, Top.id)
        OBVIOUS
    <2>2. Tally(fs, p, r, Top.entries, ds, ss, dirs, songs)
        BY <1>10, <2>1 DEF Record, p
    <2>3. \A k \in ss : songs'[k] = songs[k]
        BY <1>8, <2>1 DEF In
    <2>4. Tally(fs, p, r, Top.entries \ {n}, ds, ss \cup {s}, dirs, songs')
        BY <1>3, <1>8, <2>2, <2>3, TallySong
    <2> QED BY <1>2, <1>6, <1>13, <2>1, <2>4 DEF Record, p
<1>16. Worked(fs, U, g, dirs', songs')
    BY <1>6, <1>10, <1>15 DEF Worked
<1>17. ASSUME NEW k \in DOMAIN dirs' \ U
       PROVE  \/ /\ k \in DOMAIN dirs \ U /\ Same(U, U, dirs, songs, dirs', songs', k)
                 /\ \A e \in ToSet(stack) \ B : e.id # k
              \/ /\ fs[PathOf(dirs', k)] = "dir"
                 /\ \E e \in ToSet(stack') : e.id = k /\ e.mode # "destroy"
    <2>1. CASE k = Top.id
        BY <1>2, <1>3, <1>6, <2>1 DEF p
    <2>2. CASE k # Top.id
        BY <1>2, <1>7, <1>12, <2>2
    <2> QED BY <2>1, <2>2
<1>18. ASSUME NEW e \in B
       PROVE  /\ e.mode # "enter" /\ e.id \in DOMAIN dirs'
              /\ Same(U, U, dirs, songs, dirs', songs', e.id) /\ e.dirs \cap U \subseteq U
    BY <1>2, <1>12, BelowFacts DEF B
<1>19. B \in SUBSET ToSet(stack) /\ B \subseteq ToSet(stack')
    BY <1>2, <1>7 DEF B
<1>20. \A e \in ToSet(stack') :
              \/ Worked(fs, U, e, dirs', songs')
              \/ /\ e \in B /\ e.mode # "enter" /\ e.id \in DOMAIN dirs'
                 /\ Same(U, U, dirs, songs, dirs', songs', e.id) /\ e.dirs \cap U \subseteq U
    BY <1>2, <1>16, <1>18 DEF B
<1>21. /\ Closed(U, dirs') /\ Waiting(fs, U, dirs', ToSet(stack'), ToSet(todo'))
       /\ RootsKnown(dirs', ToSet(todo'))
    BY <1>1, <1>2, <1>9, <1>14 DEF B
<1> QED BY <1>11, <1>17, <1>19, <1>20, <1>21, StepWalks

\* A step that writes nothing and leaves the roots that are to do.
LEMMA ReadStepWalks ==
    ASSUME IInv, IInv', PInv, NEW U, Walking(U), stack # <<>>,
           UNCHANGED <<dirs, songs, todo>>, NEW G, ToSet(stack') = ToSet(Below) \cup G,
           Waiting(fs, U, dirs, ToSet(Below) \cup G, ToSet(todo)),
           \A g \in G : Worked(fs, U, g, dirs, songs),
           Top.id \notin U =>
              \/ Record(fs, U, Top.id, {}, {}, dirs, songs)
              \/ \E g \in G : g.id = Top.id /\ g.mode # "destroy"
    PROVE  \E V \in SUBSET DOMAIN dirs' : WalkOn(V)
<1> DEFINE B == ToSet(Below)
<1>1. /\ ToSet(stack) = B \cup {Top} /\ Top \in ToSet(stack) /\ Top.id \in DOMAIN dirs
    BY TopSees, StackSets DEF B
<1>2. /\ Closed(U, dirs) /\ RootsKnown(dirs, ToSet(todo))
      /\ Reached(fs, U, dirs, songs, ToSet(stack))
    BY WalkParts
<1>3. RowsAgree(dirs, songs, dirs', songs')
    BY DEF RowsAgree
<1>4. \A k : Same(U, U, dirs, songs, dirs', songs', k)
    BY DEF Same
<1>5. ASSUME NEW k \in DOMAIN dirs' \ U
      PROVE  \/ /\ k \in DOMAIN dirs \ U /\ Same(U, U, dirs, songs, dirs', songs', k)
                /\ \A e \in ToSet(stack) \ B : e.id # k
             \/ /\ fs[PathOf(dirs', k)] = "dir"
                /\ \/ \E e \in ToSet(stack') : e.id = k /\ e.mode # "destroy"
                   \/ Record(fs, U, k, {}, {}, dirs', songs')
    <2>1. CASE k = Top.id
        BY <1>2, <2>1 DEF Reached
    <2>2. CASE k # Top.id
        BY <1>1, <1>4, <2>2
    <2> QED BY <2>1, <2>2
<1>6. ASSUME NEW e \in ToSet(stack')
      PROVE  \/ Worked(fs, U, e, dirs', songs')
             \/ /\ e \in B /\ e.mode # "enter" /\ e.id \in DOMAIN dirs'
                /\ Same(U, U, dirs, songs, dirs', songs', e.id) /\ e.dirs \cap U \subseteq U
    BY <1>4, BelowFacts DEF B
<1>7. B \in SUBSET ToSet(stack) /\ B \subseteq ToSet(stack')
    BY <1>1
<1> HIDE DEF B
<1>8. Closed(U, dirs') /\ Waiting(fs, U, dirs', ToSet(stack'), ToSet(todo')) /\ RootsKnown(dirs', ToSet(todo'))
    BY <1>2 DEF B
<1> QED BY <1>3, <1>5, <1>6, <1>7, <1>8, StepWalks

LEMMA EnterDirWalks ==
    ASSUME IInv, PInv, IInv', stable, NEW U, Walking(U), EnterDir
    PROVE  \E V \in SUBSET DOMAIN dirs' : WalkOn(V)
<1>1. /\ stack # <<>> /\ Top.mode = "enter" /\ UNCHANGED tables
      /\ fs[PathOf(dirs, Top.id)] = "dir"
    BY EnterDirDoes
<1>2. PICK g \in Frames :
         /\ IsFrame(g, "sync", Top.id, Top.depth + 1, changes, Contents,
                    Under(dirs, Top.id), In(songs, Top.id))
         /\ ToSet(stack') = ToSet(Below) \cup {g}
    BY EnterDirDoes
<1>3. /\ g.mode = "sync" /\ g.id = Top.id /\ g.entries = Contents
      /\ g.dirs = Under(dirs, Top.id) /\ g.songs = In(songs, Top.id)
    BY <1>2 DEF IsFrame
<1>4. ToSet(stack) = ToSet(Below) \cup {Top}
    BY <1>1, TopSees, StackSets
<1>5. /\ Waiting(fs, U, dirs, ToSet(stack), ToSet(todo)) /\ Worked(fs, U, Top, dirs, songs)
      /\ U \subseteq DOMAIN dirs
    BY <1>4, WalkParts
<1>6. Under(dirs, Top.id) \subseteq U /\ Top.id \notin U
    BY <1>1, <1>5 DEF Worked
<1>7. Record(fs, U, Top.id, g.entries, g.songs, dirs, songs)
    <2>1. PICK p : p = PathOf(dirs, Top.id)
        OBVIOUS
    <2>2. \A n \in Names : Append(p, n) \in Paths /\ n \notin Contents => fs[Append(p, n)] = "none"
        BY <2>1, DirPathIs DEF Contents, Entry
    <2>3. PICK r : r = Room(dirs, Top.id)
        OBVIOUS
    <2>4. Tally(fs, p, r, Contents, {}, {}, dirs, songs)
        BY <2>2 DEF Tally
    <2>5. Under(dirs, Top.id) \ U = {} /\ In(songs, Top.id) \ g.songs = {}
        BY <1>3, <1>6
    <2> QED BY <1>3, <2>1, <2>3, <2>4, <2>5 DEF Record
<1>8. Worked(fs, U, g, dirs, songs)
    BY <1>3, <1>6, <1>7 DEF Worked
<1>9. Waiting(fs, U, dirs, ToSet(Below) \cup {g}, ToSet(todo))
    <2>1. ASSUME NEW k \in U, dirs[k].parent = Top.id PROVE k \in g.dirs
        BY <1>3, <1>5, <2>1 DEF Under
    <2> QED BY <1>1, <1>3, <1>4, <1>5, <2>1 DEF Waiting, Due
<1>10. UNCHANGED <<dirs, songs, todo>>
    BY <1>1 DEF EnterDir, tables
<1>11. PICK G : G = {g}
    OBVIOUS
<1>12. /\ ToSet(stack') = ToSet(Below) \cup G
       /\ Waiting(fs, U, dirs, ToSet(Below) \cup G, ToSet(todo))
    BY <1>2, <1>9, <1>11
<1>13. /\ \A e \in G : Worked(fs, U, e, dirs, songs)
       /\ \E e \in G : e.id = Top.id /\ e.mode # "destroy"
    BY <1>3, <1>8, <1>11
<1> QED BY <1>1, <1>10, <1>12, <1>13, ReadStepWalks

LEMMA LoopEndsWalks ==
    ASSUME IInv, PInv, IInv', stable, NEW U, Walking(U), LoopEnds
    PROVE  \E V \in SUBSET DOMAIN dirs' : WalkOn(V)
<1>1. stack # <<>> /\ Top.mode = "sync" /\ UNCHANGED tables /\ Top.entries = {}
    BY LoopEndsDoes
<1>2. PICK g \in Frames :
         /\ IsFrame(g, "reap", Top.id, Top.depth, 0, {}, Top.dirs, Top.songs)
         /\ ToSet(stack') = ToSet(Below) \cup {g}
    BY LoopEndsDoes
<1>3. PICK G : G = {g}
    OBVIOUS
<1>4. /\ g.mode = "reap" /\ g.id = Top.id /\ g.entries = Top.entries
      /\ g.dirs = Top.dirs /\ g.songs = Top.songs
    BY <1>1, <1>2 DEF IsFrame
<1>5. ToSet(stack) = ToSet(Below) \cup {Top}
    BY <1>1, StackSets
<1>6. Waiting(fs, U, dirs, ToSet(stack), ToSet(todo)) /\ Worked(fs, U, Top, dirs, songs)
    BY <1>5, WalkParts
<1>7. Worked(fs, U, g, dirs, songs)
    BY <1>1, <1>4, <1>6 DEF Worked
<1>8. Waiting(fs, U, dirs, ToSet(Below) \cup {g}, ToSet(todo))
    BY <1>1, <1>4, <1>5, <1>6 DEF Waiting, Due
<1>9. /\ ToSet(stack') = ToSet(Below) \cup G
      /\ Waiting(fs, U, dirs, ToSet(Below) \cup G, ToSet(todo))
    BY <1>2, <1>3, <1>8
<1>10. /\ \A e \in G : Worked(fs, U, e, dirs, songs)
       /\ \E e \in G : e.id = Top.id /\ e.mode # "destroy"
    BY <1>3, <1>4, <1>7
<1>11. UNCHANGED <<dirs, songs, todo>>
    BY <1>1 DEF LoopEnds, tables
<1> QED BY <1>1, <1>9, <1>10, <1>11, ReadStepWalks

\* At the limit there is nothing to be recorded in a directory, and nothing recorded.
LEMMA DeepestRecord ==
    ASSUME NEW D, NEW S, TablesOK(D, S), RowsOK(D, S), NEW d \in DOMAIN D, ~Room(D, d),
           NEW F, NEW U
    PROVE  Under(D, d) = {} /\ Record(F, U, d, {}, {}, D, S)
<1>1. Under(D, d) = {}
    <2>1. ASSUME NEW k \in DOMAIN D, D[k].parent = d PROVE FALSE
        <3>1. d # 0
            BY Unfolded
        <3>2. /\ Len(PathOf(D, k)) = Len(PathOf(D, d)) + 1 /\ RootOf(D, k) = RootOf(D, d)
              /\ Len(PathOf(D, k)) <= Len(RootOf(D, k)) + DepthLimit
            BY <2>1, <3>1, DirFacts
        <3>3. Len(PathOf(D, d)) \in Nat /\ Len(RootOf(D, d)) \in Nat
            BY DirFacts
        <3> QED BY <3>2, <3>3, DepthIsLimited DEF Room
    <2> QED BY <2>1 DEF Under
<1>2. In(S, d) = {}
    <2>1. ASSUME NEW s \in DOMAIN S, S[s].dir = d PROVE FALSE
        BY <2>1 DEF RowsOK, SongRowOK, Room
    <2> QED BY <2>1 DEF In
<1>3. Under(D, d) \ U = {} /\ In(S, d) \ {} = {}
    BY <1>1, <1>2
<1>4. PICK p, r : p = PathOf(D, d) /\ r = Room(D, d)
    OBVIOUS
<1>5. Tally(F, p, r, {}, {}, {}, D, S)
    BY <1>4 DEF Tally
<1> QED BY <1>1, <1>3, <1>4, <1>5 DEF Record

LEMMA SkipDirWalks ==
    ASSUME IInv, PInv, IInv', stable, NEW U, Walking(U), SkipDir
    PROVE  \E V \in SUBSET DOMAIN dirs' : WalkOn(V)
<1>1. /\ stack # <<>> /\ Top.mode = "enter" /\ stack' = Below /\ UNCHANGED <<dirs, songs, todo>>
      /\ Top.depth >= DepthLimit \/ fs[PathOf(dirs, Top.id)] = "none"
    BY DirPathIs DEF SkipDir, InFrame, tables
<1>2. /\ ToSet(stack) = ToSet(Below) \cup {Top} /\ Top \in ToSet(stack)
      /\ Top.id \in DOMAIN dirs /\ Top.depth \in Nat /\ Sees(Top, dirs)
    BY <1>1, TopSees, StackSets
<1>3. /\ Waiting(fs, U, dirs, ToSet(stack), ToSet(todo)) /\ Worked(fs, U, Top, dirs, songs)
      /\ Reached(fs, U, dirs, songs, ToSet(stack)) /\ U \subseteq DOMAIN dirs
      /\ TablesOK(dirs, songs) /\ RowsOK(dirs, songs)
    BY <1>2, WalkParts
<1>4. ASSUME Top.id \notin U
      PROVE  Under(dirs, Top.id) = {} /\ Record(fs, U, Top.id, {}, {}, dirs, songs)
    <2>1. fs[PathOf(dirs, Top.id)] = "dir"
        BY <1>2, <1>3, <1>4 DEF Reached
    <2>2. /\ Top.depth >= DepthLimit
          /\ Len(PathOf(dirs, Top.id)) = Len(RootOf(dirs, Top.id)) + Top.depth
          /\ Len(RootOf(dirs, Top.id)) \in Nat
        BY <1>1, <1>2, <1>3, <2>1, DirFacts DEF Sees
    <2>3. ~Room(dirs, Top.id)
        BY <1>2, <2>2, DepthIsLimited DEF Room
    <2> QED BY <1>2, <1>3, <2>3, DeepestRecord
<1>5. Waiting(fs, U, dirs, ToSet(Below), ToSet(todo))
    <2>1. SUFFICES ASSUME NEW k \in U
                   PROVE  dirs[k].parent \in U \/ Due(fs, k, dirs, ToSet(Below), ToSet(todo))
        BY DEF Waiting
    <2>2. /\ k \in DOMAIN dirs
          /\ dirs[k].parent \in U \/ Due(fs, k, dirs, ToSet(stack), ToSet(todo))
        BY <1>3 DEF Waiting
    <2>3. dirs[k].parent = Top.id => dirs[k].parent \in U
        BY <1>4, <2>2 DEF Under
    <2> QED BY <1>1, <1>2, <2>2, <2>3 DEF Due
<1>6. PICK G : G = {}
    OBVIOUS
<1>7. /\ ToSet(stack') = ToSet(Below) \cup G
      /\ Waiting(fs, U, dirs, ToSet(Below) \cup G, ToSet(todo))
      /\ \A e \in G : Worked(fs, U, e, dirs, songs)
    BY <1>1, <1>5, <1>6
<1> QED BY <1>1, <1>4, <1>7, ReadStepWalks

LEMMA ReapDirWalks ==
    ASSUME IInv, PInv, IInv', stable, NEW U, Walking(U), ReapDir
    PROVE  \E V \in SUBSET DOMAIN dirs' : WalkOn(V)
<1>1. PICK g \in Frames, h \in Frames, d \in Top.dirs :
              /\ IsFrame(g, Top.mode, Top.id, Top.depth, Top.opened, Top.entries, Top.dirs \ {d},
                         Top.songs)
              /\ IsFrame(h, "destroy", d, 0, 0, {}, Under(dirs, d), In(songs, d))
              /\ ToSet(stack') = ToSet(Below) \cup {g, h}
    BY ReapDirDoes
<1>2. /\ g.mode = Top.mode /\ g.id = Top.id /\ g.entries = Top.entries /\ g.dirs = Top.dirs \ {d}
      /\ g.songs = Top.songs /\ h.mode = "destroy" /\ h.id = d
    BY <1>1 DEF IsFrame
<1>3. /\ stack # <<>> /\ Top.mode \in {"reap", "destroy"} /\ d \in DOMAIN dirs
      /\ dirs[d].parent = Top.id
    BY ReapingSees DEF ReapDir
<1>4. ToSet(stack) = ToSet(Below) \cup {Top}
    BY <1>3, StackSets
<1>5. /\ Waiting(fs, U, dirs, ToSet(stack), ToSet(todo)) /\ Worked(fs, U, Top, dirs, songs)
      /\ Closed(U, dirs)
    BY <1>4, WalkParts
<1>6. d \in U
    BY <1>3, <1>5 DEF Worked, Closed
<1>7. Worked(fs, U, g, dirs, songs) /\ Worked(fs, U, h, dirs, songs)
    BY <1>2, <1>3, <1>5, <1>6 DEF Worked
<1>8. Waiting(fs, U, dirs, ToSet(Below) \cup {g, h}, ToSet(todo))
    <2>1. SUFFICES ASSUME NEW k \in U
                   PROVE  dirs[k].parent \in U \/ Due(fs, k, dirs, ToSet(Below) \cup {g, h}, ToSet(todo))
        BY DEF Waiting
    <2>2. dirs[k].parent \in U \/ Due(fs, k, dirs, ToSet(Below) \cup {Top}, ToSet(todo))
        BY <1>4, <1>5 DEF Waiting
    <2>3. k \in Top.dirs => k \in g.dirs \/ k = h.id
        BY <1>2
    <2> QED BY <1>2, <1>3, <2>2, <2>3 DEF Due
<1>9. UNCHANGED <<dirs, songs, todo>>
    BY DEF ReapDir, tables
<1>10. PICK G : G = {g, h}
    OBVIOUS
<1>11. /\ ToSet(stack') = ToSet(Below) \cup G
       /\ Waiting(fs, U, dirs, ToSet(Below) \cup G, ToSet(todo))
       /\ \A e \in G : Worked(fs, U, e, dirs, songs)
    BY <1>1, <1>7, <1>8, <1>10
<1>12. Top.id \notin U => \E e \in G : e.id = Top.id /\ e.mode # "destroy"
    BY <1>2, <1>3, <1>5, <1>10 DEF Worked
<1> QED BY <1>3, <1>9, <1>11, <1>12, ReadStepWalks

LEMMA ReapSongWalks ==
    ASSUME IInv, PInv, IInv', stable, NEW U, Walking(U), ReapSong
    PROVE  \E V \in SUBSET DOMAIN dirs' : WalkOn(V)
<1> DEFINE B == ToSet(Below)
<1>1. PICK g \in Frames, s \in Top.songs :
              /\ IsFrame(g, Top.mode, Top.id, Top.depth, Top.opened, Top.entries, Top.dirs,
                         Top.songs \ {s})
              /\ ToSet(stack') = B \cup {g}
              /\ DOMAIN songs' = DOMAIN songs \ {s} /\ \A k \in DOMAIN songs' : songs'[k] = songs[k]
    BY ReapSongDoes
<1>2. /\ g.mode = Top.mode /\ g.id = Top.id /\ g.entries = Top.entries /\ g.dirs = Top.dirs
      /\ g.songs = Top.songs \ {s} /\ dirs' = dirs /\ todo' = todo
    BY <1>1 DEF IsFrame, ReapSong
<1>3. /\ stack # <<>> /\ Top.mode \in {"reap", "destroy"} /\ s \in DOMAIN songs
      /\ songs[s].dir = Top.id /\ Top.id \in DOMAIN dirs
    BY ReapingSees DEF ReapSong
<1>4. ToSet(stack) = B \cup {Top} /\ Top \in ToSet(stack)
    BY <1>3, TopSees, StackSets
<1>5. /\ Closed(U, dirs) /\ Waiting(fs, U, dirs, ToSet(stack), ToSet(todo))
      /\ Worked(fs, U, Top, dirs, songs) /\ RootsKnown(dirs, ToSet(todo))
      /\ Reached(fs, U, dirs, songs, ToSet(stack))
    BY <1>4, WalkParts
<1> HIDE DEF B
<1>6. RowsAgree(dirs, songs, dirs', songs')
    BY <1>1, <1>2 DEF RowsAgree
<1>7. ASSUME NEW k, k # Top.id PROVE Same(U, U, dirs, songs, dirs', songs', k)
    <2>1. In(songs', k) = In(songs, k)
        BY <1>1, <1>3, <1>7 DEF In
    <2> QED BY <1>2, <2>1 DEF Same
<1>8. In(songs', Top.id) \ g.songs = In(songs, Top.id) \ Top.songs
    BY <1>1, <1>2, <1>3 DEF In
<1>9. Worked(fs, U, g, dirs', songs')
    <2>1. CASE Top.mode = "destroy"
        BY <1>2, <1>5, <2>1 DEF Worked
    <2>2. CASE Top.mode = "reap"
        <3>1. /\ Top.id \notin U /\ Top.dirs \subseteq U
              /\ Record(fs, U, Top.id, Top.entries, Top.songs, dirs, songs)
            BY <1>5, <2>2 DEF Worked
        <3>2. PICK ds, ss, p, r : /\ ds = Under(dirs, Top.id) \ U /\ ss = In(songs, Top.id) \ Top.songs
                                  /\ r = Room(dirs, Top.id) /\ p = PathOf(dirs, Top.id)
            OBVIOUS
        <3>3. Tally(fs, p, r, Top.entries, ds, ss, dirs, songs)
            BY <3>1, <3>2 DEF Record
        <3>4. \A k \in ss : songs'[k] = songs[k]
            BY <1>1, <3>2 DEF In
        <3>5. Tally(fs, p, r, Top.entries, ds, ss, dirs', songs')
            BY <1>2, <3>3, <3>4, TallyKept
        <3>6. Record(fs, U, Top.id, g.entries, g.songs, dirs', songs')
            BY <1>2, <1>8, <3>2, <3>5 DEF Record
        <3> QED BY <1>2, <2>2, <3>1, <3>6 DEF Worked
    <2> QED BY <1>3, <2>1, <2>2
<1>10. Waiting(fs, U, dirs', B \cup {g}, ToSet(todo))
    BY <1>2, <1>3, <1>4, <1>5 DEF Waiting, Due
<1>11. ASSUME NEW k \in DOMAIN dirs' \ U
       PROVE  \/ /\ k \in DOMAIN dirs \ U /\ Same(U, U, dirs, songs, dirs', songs', k)
                 /\ \A e \in ToSet(stack) \ B : e.id # k
              \/ /\ fs[PathOf(dirs', k)] = "dir"
                 /\ \E e \in ToSet(stack') : e.id = k /\ e.mode # "destroy"
    <2>1. CASE k = Top.id
        <3>1. Top.mode # "destroy" /\ fs[PathOf(dirs, k)] = "dir"
            BY <1>2, <1>3, <1>5, <2>1 DEF Worked, Reached
        <3> QED BY <1>1, <1>2, <2>1, <3>1
    <2>2. CASE k # Top.id
        BY <1>2, <1>4, <1>7, <2>2
    <2> QED BY <2>1, <2>2
<1>12. ASSUME NEW e \in B
       PROVE  /\ e.mode # "enter" /\ e.id \in DOMAIN dirs'
              /\ Same(U, U, dirs, songs, dirs', songs', e.id) /\ e.dirs \cap U \subseteq U
    BY <1>2, <1>3, <1>7, BelowFacts DEF B
<1>13. B \in SUBSET ToSet(stack) /\ B \subseteq ToSet(stack')
    BY <1>1, <1>4
<1>14. \A e \in ToSet(stack') :
              \/ Worked(fs, U, e, dirs', songs')
              \/ /\ e \in B /\ e.mode # "enter" /\ e.id \in DOMAIN dirs'
                 /\ Same(U, U, dirs, songs, dirs', songs', e.id) /\ e.dirs \cap U \subseteq U
    BY <1>1, <1>9, <1>12
<1>15. /\ Closed(U, dirs') /\ Waiting(fs, U, dirs', ToSet(stack'), ToSet(todo'))
       /\ RootsKnown(dirs', ToSet(todo'))
    BY <1>1, <1>2, <1>5, <1>10
<1> QED BY <1>6, <1>11, <1>13, <1>14, <1>15, StepWalks

LEMMA ReturnWalks ==
    ASSUME IInv, PInv, IInv', stable, NEW U, Walking(U), Return
    PROVE  \E V \in SUBSET DOMAIN dirs' : WalkOn(V)
<1> DEFINE B == ToSet(Below)
<1>1. /\ stack # <<>> /\ ToSet(stack') = B /\ songs' = songs /\ todo' = todo
      /\ Top.dirs = {} /\ Top.mode \in {"reap", "destroy"}
      /\ Top.mode = "destroy" =>
            /\ Under(dirs, Top.id) = {}
            /\ DOMAIN dirs' = DOMAIN dirs \ {Top.id} /\ \A k \in DOMAIN dirs' : dirs'[k] = dirs[k]
      /\ Top.mode # "destroy" =>
            Top.mode = "reap" /\ Top.entries = {} /\ Top.songs = {} /\ dirs' = dirs
    BY ReturnDoes, ReapingSees DEF Return
<1>2. /\ ToSet(stack) = B \cup {Top} /\ Top \in ToSet(stack) /\ Top.id \in DOMAIN dirs /\ Sees(Top, dirs)
    BY <1>1, TopSees, StackSets
<1>3. /\ Closed(U, dirs) /\ Waiting(fs, U, dirs, ToSet(stack), ToSet(todo))
      /\ Worked(fs, U, Top, dirs, songs) /\ RootsKnown(dirs, ToSet(todo))
      /\ U \subseteq DOMAIN dirs /\ 0 \notin DOMAIN dirs
    BY <1>2, WalkParts
<1>4. CASE Top.mode = "reap"
    <2>1. Record(fs, U, Top.id, {}, {}, dirs, songs)
        BY <1>1, <1>3, <1>4 DEF Worked
    <2>2. PICK G : G = {}
        OBVIOUS
    <2>3. Waiting(fs, U, dirs, ToSet(Below) \cup G, ToSet(todo))
        BY <1>1, <1>2, <1>3, <1>4, <2>2 DEF Waiting, Due
    <2>4. /\ ToSet(stack') = ToSet(Below) \cup G /\ \A e \in G : Worked(fs, U, e, dirs, songs)
          /\ UNCHANGED <<dirs, songs, todo>>
        BY <1>1, <1>4, <2>2
    <2> QED BY <1>1, <2>1, <2>3, <2>4, ReadStepWalks
<1>5. CASE Top.mode = "destroy"
    <2> DEFINE V == U \ {Top.id}
    <2> HIDE DEF B
    <2>1. /\ Under(dirs, Top.id) = {} /\ DOMAIN dirs' = DOMAIN dirs \ {Top.id}
          /\ \A k \in DOMAIN dirs' : dirs'[k] = dirs[k]
          /\ Top.id \in U /\ dirs[Top.id].parent # 0
        BY <1>1, <1>2, <1>3, <1>5 DEF Worked, Sees
    <2>2. RowsAgree(dirs, songs, dirs', songs')
        BY <1>1, <2>1 DEF RowsAgree
    <2>3. \A k : Same(U, V, dirs, songs, dirs', songs', k)
        BY <1>1, <2>1 DEF Same, Under
    <2>4. Closed(V, dirs')
        BY <1>3, <2>1 DEF Closed
    <2>5. Waiting(fs, V, dirs', B, ToSet(todo))
        <3>1. SUFFICES ASSUME NEW k \in V
                       PROVE  dirs'[k].parent \in V \/ Due(fs, k, dirs', B, ToSet(todo))
            BY DEF Waiting
        <3>2. /\ k \in DOMAIN dirs /\ k # Top.id /\ dirs'[k] = dirs[k]
              /\ dirs[k].parent \in U \/ Due(fs, k, dirs, B \cup {Top}, ToSet(todo))
            BY <1>2, <1>3, <2>1 DEF Waiting
        <3>3. dirs[k].parent # Top.id
            BY <2>1, <3>2 DEF Under
        <3> QED BY <1>1, <1>5, <3>2, <3>3 DEF Due
    <2>6. RootsKnown(dirs', ToSet(todo))
        BY <1>3, <2>1 DEF RootsKnown
    <2>7. ASSUME NEW k \in DOMAIN dirs' \ V
          PROVE  /\ k \in DOMAIN dirs \ U /\ Same(U, V, dirs, songs, dirs', songs', k)
                 /\ \A e \in ToSet(stack) \ B : e.id # k
        BY <1>2, <2>1, <2>3
    <2>8. ASSUME NEW e \in ToSet(stack')
          PROVE  /\ e \in B /\ e.mode # "enter" /\ e.id \in DOMAIN dirs'
                 /\ e.id \in U <=> e.id \in V
                 /\ Same(U, V, dirs, songs, dirs', songs', e.id) /\ e.dirs \cap U \subseteq V
        <3>1. /\ e \in B /\ e.mode # "enter" /\ e.id \in DOMAIN dirs /\ e.id # Top.id
              /\ e.dirs \subseteq Under(dirs, e.id)
            BY <1>1, BelowFacts DEF B
        <3>2. Top.id \notin e.dirs
            <4>1. e.dirs \subseteq Under(dirs', e.id)
                BY <3>1, FramesAfter DEF FrameOK, OnLists
            <4> QED BY <2>1, <4>1 DEF Under
        <3> QED BY <2>1, <2>3, <3>1, <3>2
    <2>9. /\ B \in SUBSET ToSet(stack) /\ B \subseteq ToSet(stack')
          /\ Waiting(fs, V, dirs', ToSet(stack'), ToSet(todo')) /\ RootsKnown(dirs', ToSet(todo'))
        BY <1>1, <1>2, <2>5, <2>6
    <2> HIDE DEF V
    <2> QED BY <2>2, <2>4, <2>7, <2>8, <2>9, StepWalks
<1> QED BY <1>1, <1>4, <1>5

LEMMA HeadAndTail ==
    ASSUME NEW X, NEW t \in Seq(X), t # <<>>
    PROVE  /\ ToSet(t) = ToSet(Tail(t)) \cup {Head(t)} /\ Head(t) \in X
<1>1. /\ Len(t) \in Nat \ {0} /\ DOMAIN t = 1..Len(t)
      /\ DOMAIN Tail(t) = 1..(Len(t) - 1)
      /\ Head(t) = t[1] /\ \A i \in 1..(Len(t) - 1) : Tail(t)[i] = t[i + 1]
    OBVIOUS
<1>2. ASSUME NEW i \in 1..Len(t) PROVE t[i] = Head(t) \/ t[i] \in ToSet(Tail(t))
    <2>1. CASE i = 1
        BY <1>1, <2>1
    <2>2. CASE i # 1
        <3>1. i - 1 \in 1..(Len(t) - 1) /\ (i - 1) + 1 = i
            BY <1>1, <2>2
        <3>2. Tail(t)[i - 1] = t[i]
            BY <1>1, <3>1
        <3> QED BY <1>1, <3>1, <3>2 DEF ToSet
    <2> QED BY <2>1, <2>2
<1>3. ASSUME NEW i \in 1..(Len(t) - 1) PROVE Tail(t)[i] \in ToSet(t)
    <2>1. i + 1 \in 1..Len(t)
        BY <1>1
    <2> QED BY <1>1, <2>1 DEF ToSet
<1>4. t[1] \in ToSet(t) /\ t[1] \in X
    <2>1. 1 \in 1..Len(t)
        BY <1>1
    <2> QED BY <1>1, <2>1 DEF ToSet
<1> QED BY <1>1, <1>2, <1>3, <1>4 DEF ToSet

\* A root is scanned, for the first time or again: what is under it is not reached, but
\* for the root itself if it is there.
LEMMA ScanRootWalks ==
    ASSUME IInv, PInv, IInv', stable, NEW U, Walking(U), ScanRoot
    PROVE  \E V \in SUBSET DOMAIN dirs' : WalkOn(V)
<1> DEFINE root == Head(todo)
           row == [parent |-> 0, name |-> root]
           known == {k \in DOMAIN dirs : dirs[k] = row}
<1>1. stack = <<>> /\ todo # <<>> /\ todo' = Tail(todo) /\ songs' = songs
    BY DEF ScanRoot
<1>2. PICK h \in Frames, d \in Nat \ {0} :
         /\ IsFrame(h, "enter", d, 0, 0, {}, {}, {})
         /\ ToSet(stack') = {h}
         /\ \/ d \in known /\ dirs' = dirs
            \/ /\ known = {} /\ d \notin DOMAIN dirs
               /\ DOMAIN dirs' = DOMAIN dirs \cup {d} /\ dirs'[d] = row
               /\ \A k \in DOMAIN dirs : dirs'[k] = dirs[k]
    BY ScanRootDoes
<1>3. ToSet(stack) = {}
    BY <1>1, EmptySets
<1>4. ToSet(todo) = ToSet(todo') \cup {root}
    BY <1>1, TodoOK, HeadAndTail
<1>5. /\ d \in DOMAIN dirs' /\ dirs'[d].parent = 0 /\ dirs'[d].name = root
      /\ \A k \in DOMAIN dirs : k \in DOMAIN dirs' /\ dirs'[k] = dirs[k]
      /\ \A k \in DOMAIN dirs' : k \in DOMAIN dirs \/ k = d
    BY <1>2
<1> HIDE DEF root, known, row
<1>6. /\ Closed(U, dirs) /\ Waiting(fs, U, dirs, {}, ToSet(todo))
      /\ Reached(fs, U, dirs, songs, {}) /\ RootsKnown(dirs, ToSet(todo))
      /\ U \subseteq DOMAIN dirs /\ 0 \notin DOMAIN dirs
      /\ TablesOK(dirs, songs) /\ RowsOK(dirs, songs)
    BY <1>3, WalkParts
<1>7. TablesOK(dirs', songs') /\ RowsAgree(dirs, songs, dirs', songs')
    BY <1>1, <1>5 DEF IInv, RowsAgree
<1>8. ASSUME NEW k \in DOMAIN dirs'
      PROVE  /\ dirs'[k].parent = 0 => RootOf(dirs', k) = dirs'[k].name
             /\ dirs'[k].parent # 0 => /\ dirs'[k].parent \in DOMAIN dirs'
                                       /\ RootOf(dirs', dirs'[k].parent) = RootOf(dirs', k)
             /\ k # 0
    BY <1>7, Unfolded
<1>9. \A k \in DOMAIN dirs' : dirs'[k].parent = 0 /\ RootOf(dirs', k) = root => k = d
    <2>1. ASSUME NEW k \in DOMAIN dirs, dirs[k].parent = 0, dirs[k].name = root PROVE k \in known
        BY <1>6, <2>1 DEF RowsOK, DirRowOK, known, row
    <2>2. \A k, j \in known : k = j
        BY <1>6 DEF TablesOK, RootsApart, known, row
    <2> QED BY <1>2, <1>5, <1>8, <2>1, <2>2
<1>10. h.mode = "enter" /\ h.id = d
    BY <1>2 DEF IsFrame
<1>11. RootOf(dirs', d) = root /\ PathOf(dirs', d) = root
    BY <1>5, <1>7, Unfolded
<1> DEFINE V == {k \in DOMAIN dirs' : (k \in U \/ RootOf(dirs', k) = root)
                                         /\ ~(k = d /\ fs[root] = "dir")}
<1>12. Closed(V, dirs')
    <2>1. ASSUME NEW k \in DOMAIN dirs', dirs'[k].parent \in V PROVE k \in V
        <3>1. dirs'[k].parent # 0 /\ k # d
            BY <1>5, <1>8, <2>1
        <3>2. k \in DOMAIN dirs /\ dirs[k].parent = dirs'[k].parent
            BY <1>5, <3>1
        <3> QED BY <1>6, <1>8, <2>1, <3>1, <3>2 DEF Closed
    <2> QED BY <2>1 DEF Closed
<1>13. Waiting(fs, V, dirs', {h}, ToSet(todo'))
    <2>1. SUFFICES ASSUME NEW k \in V
                   PROVE  dirs'[k].parent \in V \/ Due(fs, k, dirs', {h}, ToSet(todo'))
        BY DEF Waiting
    <2>2. CASE RootOf(dirs', k) = root
        <3>1. CASE dirs'[k].parent = 0
            BY <1>5, <1>9, <2>2, <3>1 DEF Due
        <3>2. CASE dirs'[k].parent = d
            BY <1>10, <3>2 DEF Due
        <3>3. CASE dirs'[k].parent # 0 /\ dirs'[k].parent # d
            BY <1>8, <2>2, <3>3
        <3> QED BY <3>1, <3>2, <3>3
    <2>3. CASE RootOf(dirs', k) # root
        <3>1. /\ k \in U /\ k \in DOMAIN dirs /\ dirs'[k] = dirs[k]
              /\ dirs[k].parent \in U \/ Due(fs, k, dirs, {}, ToSet(todo))
            BY <1>5, <1>6, <2>3 DEF Waiting
        <3>2. CASE dirs[k].parent \in U
            <4>1. dirs'[k].parent # 0 /\ dirs'[k].parent # d
                BY <1>6, <1>8, <1>11, <2>3, <3>1, <3>2
            <4> QED BY <1>8, <3>1, <3>2, <4>1
        <3>3. CASE Due(fs, k, dirs, {}, ToSet(todo))
            BY <1>4, <1>8, <2>3, <3>1, <3>3 DEF Due
        <3> QED BY <3>1, <3>2, <3>3
    <2> QED BY <2>2, <2>3
<1>14. RootsKnown(dirs', ToSet(todo'))
    BY <1>4, <1>5, <1>6 DEF RootsKnown
<1>15. Worked(fs, V, h, dirs', songs')
    <2>1. ASSUME NEW k \in DOMAIN dirs', dirs'[k].parent = d PROVE k \in V
        BY <1>5, <1>8, <1>11, <2>1
    <2>2. Under(dirs', d) \subseteq V
        BY <2>1 DEF Under
    <2>3. d \in V => fs[PathOf(dirs', d)] # "dir"
        BY <1>11
    <2> HIDE DEF V
    <2> QED BY <1>10, <2>2, <2>3 DEF Worked
<1>16. ASSUME NEW k \in DOMAIN dirs' \ V
       PROVE  \/ k \in DOMAIN dirs \ U /\ Same(U, V, dirs, songs, dirs', songs', k)
              \/ /\ fs[PathOf(dirs', k)] = "dir"
                 /\ \E f \in ToSet(stack') : f.id = k /\ f.mode # "destroy"
    <2>1. CASE k = d
        BY <1>2, <1>10, <1>11, <2>1
    <2>2. CASE k # d
        <3>1. k \in DOMAIN dirs /\ k \notin U /\ RootOf(dirs', k) # root
            BY <1>5, <2>2
        <3>2. ASSUME NEW j \in Under(dirs', k)
              PROVE  j \in Under(dirs, k) /\ (j \in V <=> j \in U)
            <4>1. j \in DOMAIN dirs' /\ dirs'[j].parent = k /\ j # d /\ RootOf(dirs', j) # root
                BY <1>5, <1>8, <3>1, <3>2 DEF Under
            <4> QED BY <1>5, <4>1 DEF Under
        <3>3. \A j \in Under(dirs, k) : j \in Under(dirs', k)
            BY <1>5 DEF Under
        <3> HIDE DEF V
        <3> QED BY <1>1, <3>1, <3>2, <3>3 DEF Same
    <2> QED BY <2>1, <2>2
<1>17. PICK B : B = {}
    OBVIOUS
<1>18. /\ Waiting(fs, V, dirs', ToSet(stack'), ToSet(todo'))
       /\ \A f \in ToSet(stack') : Worked(fs, V, f, dirs', songs')
       /\ B \in SUBSET ToSet(stack) /\ B \subseteq ToSet(stack')
       /\ \A k : \A f \in ToSet(stack) \ B : f.id # k
    BY <1>2, <1>3, <1>13, <1>15, <1>17
<1> HIDE DEF V
<1> QED BY <1>7, <1>12, <1>14, <1>16, <1>18, StepWalks

LEMMA StartWalks ==
    ASSUME IInv, PInv, Start PROVE WalkOK(fs, DOMAIN dirs, dirs, songs, ToSet(stack'), ToSet(todo'))
<1>1. ToSet(stack') = {} /\ todo' = Roots
    BY EmptySets DEF Start
<1>2. /\ \A k \in DOMAIN dirs : dirs[k].parent \in DOMAIN dirs \cup {0}
      /\ \A k \in DOMAIN dirs : dirs[k].parent = 0 => dirs[k].name \in ToSet(Roots)
    BY DEF IInv, TablesOK, Rooted, PInv, RowsOK, DirRowOK
<1>3. Closed(DOMAIN dirs, dirs) /\ Waiting(fs, DOMAIN dirs, dirs, {}, ToSet(Roots))
    BY <1>2 DEF Closed, Waiting, Due
<1>4. Reached(fs, DOMAIN dirs, dirs, songs, {}) /\ RootsKnown(dirs, ToSet(Roots))
    BY DEF Reached, RootsKnown
<1> QED BY <1>1, <1>3, <1>4 DEF WalkOK

LEMMA NextWInv == IInv /\ PInv /\ WInv /\ [Next]_vars => WInv'
<1> SUFFICES ASSUME IInv, PInv, WInv, [Next]_vars, stable', app' = "scanning"
             PROVE  \E U \in SUBSET DOMAIN dirs' :
                       WalkOK(fs', U, dirs', songs', ToSet(stack'), ToSet(todo'))
    BY DEF WInv
<1>1. CASE Start
    <2>1. fs' = fs /\ dirs' = dirs /\ songs' = songs
        BY <1>1 DEF Start, tables
    <2>2. WalkOK(fs, DOMAIN dirs, dirs, songs, ToSet(stack'), ToSet(todo'))
        BY <1>1, StartWalks
    <2> QED BY <2>1, <2>2
<1>2. CASE UNCHANGED vars
    BY <1>2 DEF vars, tables, observer, WInv
<1>3. CASE ScanStep
    <2>1. IInv'
        BY NextIInv DEF PInv
    <2>2. ~OpenFails /\ ~ScanDone /\ \A n, f : ~VisitNewTag(n, f) /\ ~VisitVanished(n, f)
        BY DEF OpenFails, ScanDone, VisitNewTag, VisitVanished, Abort
    <2>3. \/ ScanRoot \/ SkipDir \/ EnterDir \/ LoopEnds \/ ReapDir \/ ReapSong \/ Return
          \/ \E n, f : VisitDir(n, f)
          \/ \E n, f : VisitKnownSong(n, f) \/ VisitNewSong(n, f) \/ VisitVanishing(n, f)
        BY <1>3, <2>2 DEF ScanStep
    <2>4. app = "scanning" /\ fs' = fs /\ stable
        BY <2>3 DEF ScanRoot, SkipDir, EnterDir, LoopEnds, VisitDir, VisitKnownSong,
            VisitNewSong, VisitVanishing, ReapDir, ReapSong, Return, Visits, Reaping, InFrame,
            observer
    <2>5. PICK U \in SUBSET DOMAIN dirs : Walking(U)
        BY <2>4 DEF WInv, Walking
    <2>6. \E V \in SUBSET DOMAIN dirs' : WalkOn(V)
        BY <2>1, <2>3, <2>4, <2>5, ScanRootWalks, SkipDirWalks, EnterDirWalks, LoopEndsWalks,
            VisitDirWalks, VisitSongWalks, ReapDirWalks, ReapSongWalks, ReturnWalks
    <2> QED BY <2>4, <2>6 DEF WalkOn
<1>4. CASE DatabaseFails \/ Crash \/ ChangeFs
    BY <1>4 DEF DatabaseFails, Crash, Abort, ChangeFs
<1> QED BY <1>1, <1>2, <1>3, <1>4 DEF Next

------------------------------------------------------------------------------
(* After a scan has completed, and in the scans that follow it.            *)

\* Whatever is in a root that is there is recorded once, and nothing else.
Recorded ==
    \A k \in DOMAIN dirs : fs[RootOf(dirs, k)] = "dir" =>
        fs[PathOf(dirs, k)] = "dir" /\ Record(fs, {}, k, {}, {}, dirs, songs)

\* An activation of a scan that has nothing to write: it lists the rows of what the
\* iterator still has to return.
Calm(f) ==
    /\ f.mode # "destroy"
    /\ f.mode \in {"sync", "reap"} =>
          /\ f.dirs = {k \in Under(dirs, f.id) : dirs[k].name \in f.entries}
          /\ f.songs = {s \in In(songs, f.id) : songs[s].name \in f.entries}

FInv == quiet => Recorded /\ RootsKnown(dirs, {}) /\ \A f \in ToSet(stack) : Calm(f)

\* When the scan has ended the rows that it has not come to are of roots that are not
\* there: the least other one would have to be under one of them.
LEMMA MountedReached ==
    ASSUME IInv, PInv, NEW U, WalkOK(fs, U, dirs, songs, {}, {}), NEW k \in U
    PROVE  fs[RootOf(dirs, k)] # "dir"
<1>1. TablesOK(dirs, songs) /\ U \subseteq DOMAIN dirs /\ U \subseteq Nat
    BY DEF IInv, TablesOK, Bounded, WalkOK, Closed
<1> DEFINE Bad == {d \in U : fs[RootOf(dirs, d)] = "dir"}
<1>2. SUFFICES ASSUME k \in Bad PROVE FALSE
    OBVIOUS
<1>3. Bad \in SUBSET Nat /\ Bad # {}
    BY <1>1, <1>2
<1>4. PICK d \in Bad : \A e \in Bad : d <= e
    <2> HIDE DEF Bad
    <2> QED BY <1>3, LeastOfNaturals
<1>5. /\ d \in Nat \ {0} /\ 0 \notin DOMAIN dirs
      /\ dirs[d].parent = 0 => RootOf(dirs, d) = dirs[d].name
      /\ dirs[d].parent # 0 => /\ dirs[d].parent \in Nat /\ dirs[d].parent < d
                               /\ RootOf(dirs, d) = RootOf(dirs, dirs[d].parent)
    <2>1. \A e \in DOMAIN dirs : e \in Nat
        BY <1>1 DEF TablesOK, Bounded
    <2> QED BY <1>1, <1>4, <2>1, Unfolded
<1>6. dirs[d].parent \in U \/ (dirs[d].parent = 0 /\ fs[dirs[d].name] # "dir")
    BY <1>4 DEF WalkOK, Waiting, Due
<1>7. dirs[d].parent \in U /\ dirs[d].parent # 0
    BY <1>1, <1>4, <1>5, <1>6
<1>8. dirs[d].parent \in Bad
    BY <1>4, <1>5, <1>7
<1> QED BY <1>4, <1>5, <1>7, <1>8

LEMMA DoneRecords ==
    ASSUME IInv, PInv, NEW U, WalkOK(fs, U, dirs, songs, {}, {})
    PROVE  Recorded /\ RootsKnown(dirs, {})
<1>1. ASSUME NEW k \in DOMAIN dirs, fs[RootOf(dirs, k)] = "dir"
      PROVE  fs[PathOf(dirs, k)] = "dir" /\ Record(fs, {}, k, {}, {}, dirs, songs)
    <2>1. k \notin U
        BY <1>1, MountedReached
    <2>2. fs[PathOf(dirs, k)] = "dir" /\ Record(fs, U, k, {}, {}, dirs, songs)
        BY <2>1 DEF WalkOK, Reached
    <2>3. Under(dirs, k) \ U = Under(dirs, k) \ {}
        <3>1. ASSUME NEW j \in Under(dirs, k) PROVE j \notin U
            <4>1. j \in DOMAIN dirs /\ dirs[j].parent = k
                BY <3>1 DEF Under
            <4>2. RootOf(dirs, j) = RootOf(dirs, k)
                <5>1. k # 0
                    BY Unfolded DEF IInv
                <5> QED BY <4>1, <5>1, Unfolded DEF IInv
            <4> QED BY <1>1, <4>2, MountedReached
        <3> QED BY <3>1
    <2> QED BY <2>2, <2>3 DEF Record
<1> QED BY <1>1 DEF Recorded, WalkOK

\* The entries of a directory and its rows, as long as nothing changes.
LEMMA RecordOf ==
    ASSUME IInv, PInv, Recorded, NEW d \in DOMAIN dirs, fs[RootOf(dirs, d)] = "dir"
    PROVE  LET p == PathOf(dirs, d) IN
           /\ p \in Paths /\ fs[p] = "dir"
           /\ \A n : Len(p) < Len(RootOf(dirs, d)) + DepthLimit /\ Append(p, n) \in Paths =>
                 /\ fs[Append(p, n)] = "dir" => \E k \in Under(dirs, d) : dirs[k].name = n
                 /\ fs[Append(p, n)] = "song" => \E s \in In(songs, d) : songs[s].name = n
           /\ \A k \in Under(dirs, d) :
                 /\ dirs[k].name \in Names /\ Append(p, dirs[k].name) \in Paths
                 /\ fs[Append(p, dirs[k].name)] = "dir"
                 /\ \A j \in Under(dirs, d) : dirs[j].name = dirs[k].name => j = k
           /\ \A s \in In(songs, d) :
                 /\ songs[s].name \in Names /\ Append(p, songs[s].name) \in Paths
                 /\ fs[Append(p, songs[s].name)] = "song"
                 /\ \A t \in In(songs, d) : songs[t].name = songs[s].name => t = s
<1> DEFINE p == PathOf(dirs, d)
<1>1. TablesOK(dirs, songs) /\ RowsOK(dirs, songs)
    BY DEF IInv, PInv
<1>2. fs[p] = "dir" /\ Record(fs, {}, d, {}, {}, dirs, songs) /\ p \in Paths /\ d # 0
    BY <1>1, DirFacts, Unfolded DEF Recorded
<1>3. Tally(fs, p, Room(dirs, d), {}, Under(dirs, d), In(songs, d), dirs, songs)
    <2>1. Under(dirs, d) \ {} = Under(dirs, d) /\ In(songs, d) \ {} = In(songs, d)
        OBVIOUS
    <2> QED BY <1>2, <2>1 DEF Record
<1>4. ASSUME NEW n, Append(p, n) \in Paths PROVE n \in Names
    BY <1>2, <1>4, EntryFacts
<1>5. ASSUME NEW k \in Under(dirs, d)
      PROVE  /\ Append(p, dirs[k].name) \in Paths /\ fs[Append(p, dirs[k].name)] = "dir"
    <2>1. k \in DOMAIN dirs /\ dirs[k].parent = d
        BY <1>5 DEF Under
    <2>2. PathOf(dirs, k) = Append(p, dirs[k].name) /\ RootOf(dirs, k) = RootOf(dirs, d)
        BY <1>1, <1>2, <2>1, Unfolded
    <2>3. PathOf(dirs, k) \in Paths
        BY <1>1, <2>1, DirFacts
    <2>4. fs[PathOf(dirs, k)] = "dir"
        BY <2>1, <2>2 DEF Recorded
    <2> QED BY <2>2, <2>3, <2>4
<1>6. ASSUME NEW s \in In(songs, d) PROVE Append(p, songs[s].name) \in Paths
    <2>1. s \in DOMAIN songs /\ songs[s].dir = d
        BY <1>6 DEF In
    <2> QED BY <1>1, <2>1 DEF RowsOK, SongRowOK, SongAt
<1> HIDE DEF p
<1>7. \A n : Len(p) < Len(RootOf(dirs, d)) + DepthLimit /\ Append(p, n) \in Paths =>
                 /\ fs[Append(p, n)] = "dir" => \E k \in Under(dirs, d) : dirs[k].name = n
                 /\ fs[Append(p, n)] = "song" => \E s \in In(songs, d) : songs[s].name = n
    BY <1>3, <1>4 DEF Tally, Room, p
<1>8. \A k \in Under(dirs, d) : \A j \in Under(dirs, d) : dirs[j].name = dirs[k].name => j = k
    BY <1>3 DEF Tally
<1>9. \A s \in In(songs, d) :
         /\ fs[Append(p, songs[s].name)] = "song"
         /\ \A t \in In(songs, d) : songs[t].name = songs[s].name => t = s
    BY <1>3 DEF Tally
<1> QED BY <1>2, <1>4, <1>5, <1>6, <1>7, <1>8, <1>9 DEF p

\* What quiet lets the top activation know.
LEMMA CalmTop ==
    ASSUME IInv, PInv, FInv, quiet, stack # <<>>
    PROVE  /\ stable /\ Recorded /\ RootsKnown(dirs, {}) /\ Calm(Top)
           /\ \A f \in ToSet(Below) : Calm(f)
           /\ TablesOK(dirs, songs) /\ RowsOK(dirs, songs)
<1>1. ToSet(stack) = ToSet(Below) \cup {Top}
    BY StackSets
<1> QED BY <1>1 DEF FInv, PInv, World, IInv

LEMMA EnterDirCalm ==
    ASSUME IInv, PInv, FInv, quiet, EnterDir
    PROVE  UNCHANGED <<dirs, songs>> /\ \A f \in ToSet(stack') : Calm(f)
<1> DEFINE p == PathOf(dirs, Top.id)
<1>1. /\ stack # <<>> /\ Top.mode = "enter" /\ UNCHANGED tables /\ fs[p] = "dir"
    BY EnterDirDoes
<1>2. PICK g \in Frames :
         /\ IsFrame(g, "sync", Top.id, Top.depth + 1, changes, Contents,
                    Under(dirs, Top.id), In(songs, Top.id))
         /\ ToSet(stack') = ToSet(Below) \cup {g}
    BY EnterDirDoes
<1>3. /\ g.mode = "sync" /\ g.id = Top.id /\ g.entries = Contents
      /\ g.dirs = Under(dirs, Top.id) /\ g.songs = In(songs, Top.id)
    BY <1>2 DEF IsFrame
<1>4. stable /\ Recorded /\ \A f \in ToSet(Below) : Calm(f)
    BY <1>1, CalmTop
<1>5. /\ Top.id \in DOMAIN dirs /\ Sees(Top, dirs) /\ TablesOK(dirs, songs)
    BY <1>1, TopSees
<1>6. fs[RootOf(dirs, Top.id)] = "dir"
    <2>1. dirs[Top.id].parent = 0 => p = RootOf(dirs, Top.id)
        BY <1>5, Unfolded
    <2>2. dirs[Top.id].parent # 0 => fs[RootOf(dirs, Top.id)] = "dir"
        BY <1>1, <1>4, <1>5 DEF Sees
    <2> QED BY <1>1, <2>1, <2>2
<1>7. /\ \A k \in Under(dirs, Top.id) :
            /\ dirs[k].name \in Names /\ Append(p, dirs[k].name) \in Paths
            /\ fs[Append(p, dirs[k].name)] = "dir"
      /\ \A s \in In(songs, Top.id) :
            /\ songs[s].name \in Names /\ Append(p, songs[s].name) \in Paths
            /\ fs[Append(p, songs[s].name)] = "song"
    BY <1>4, <1>5, <1>6, RecordOf
<1>8. \A n : Entry(n) = Append(p, n)
    BY DirPathIs DEF Entry
<1> HIDE DEF p
<1>9. /\ \A k \in Under(dirs, Top.id) : dirs[k].name \in Contents
      /\ \A s \in In(songs, Top.id) : songs[s].name \in Contents
    BY <1>7, <1>8 DEF Contents
<1>10. Calm(g)
    BY <1>3, <1>9 DEF Calm
<1> QED BY <1>1, <1>2, <1>4, <1>10 DEF tables

LEMMA VisitDirCalm ==
    ASSUME IInv, PInv, FInv, quiet, NEW n, NEW f, VisitDir(n, f)
    PROVE  UNCHANGED <<dirs, songs>> /\ \A e \in ToSet(stack') : Calm(e)
<1> DEFINE p == PathOf(dirs, Top.id)
           r == RootOf(dirs, Top.id)
<1>1. Visits(n, "dir", f) /\ songs' = songs
    BY DEF VisitDir
<1>2. stack # <<>>
    BY <1>1, AtEntry
<1>3. stable /\ Recorded /\ Calm(Top) /\ \A e \in ToSet(Below) : Calm(e)
    BY <1>2, CalmTop
<1>4. /\ Top.mode = "sync" /\ Append(p, n) \in Paths /\ fs[Append(p, n)] = "dir"
      /\ Len(p) < Len(r) + DepthLimit /\ fs[r] = "dir"
      /\ n \in Top.entries /\ f.entries = Top.entries \ {n}
    BY <1>1, <1>3, AtEntry
<1>5. Top.id \in DOMAIN dirs
    BY <1>2, TopSees
<1>6. /\ \E k \in Under(dirs, Top.id) : dirs[k].name = n
      /\ \A k, j \in Under(dirs, Top.id) : dirs[j].name = dirs[k].name => j = k
      /\ \A s \in In(songs, Top.id) : fs[Append(p, songs[s].name)] = "song"
    BY <1>3, <1>4, <1>5, RecordOf
<1>7. /\ Top.dirs = {k \in Under(dirs, Top.id) : dirs[k].name \in Top.entries}
      /\ Top.songs = {s \in In(songs, Top.id) : songs[s].name \in Top.entries}
    BY <1>3, <1>4 DEF Calm
<1>8. PICK g \in Frames, h \in Frames, d \in Nat \ {0} :
         /\ IsFrame(g, "sync", Top.id, Top.depth, Top.opened, f.entries, Top.dirs \ {d}, Top.songs)
         /\ IsFrame(h, "enter", d, Top.depth, 0, {}, {}, {})
         /\ ToSet(stack') = ToSet(Below) \cup {g, h}
         /\ \/ d \in KnownDirs(n) /\ dirs' = dirs
            \/ /\ KnownDirs(n) = {} /\ d \notin DOMAIN dirs
               /\ DOMAIN dirs' = DOMAIN dirs \cup {d} /\ dirs'[d] = [parent |-> Top.id, name |-> n]
               /\ \A k \in DOMAIN dirs : dirs'[k] = dirs[k]
    BY VisitDirDoes
<1> HIDE DEF p, r
<1>9. KnownDirs(n) # {}
    BY <1>4, <1>6, <1>7 DEF KnownDirs
<1>10. dirs' = dirs /\ d \in Under(dirs, Top.id) /\ dirs[d].name = n
    BY <1>7, <1>8, <1>9 DEF KnownDirs
<1>11. /\ g.mode = "sync" /\ g.id = Top.id /\ g.entries = Top.entries \ {n}
       /\ g.dirs = Top.dirs \ {d} /\ g.songs = Top.songs /\ h.mode = "enter"
    BY <1>4, <1>8 DEF IsFrame
<1>12. Top.dirs \ {d} = {k \in Under(dirs, Top.id) : dirs[k].name \in Top.entries \ {n}}
    BY <1>6, <1>7, <1>10
<1>13. Top.songs = {s \in In(songs, Top.id) : songs[s].name \in Top.entries \ {n}}
    <2>1. \A s \in In(songs, Top.id) : songs[s].name # n
        BY <1>4, <1>6
    <2> QED BY <1>7, <2>1
<1>14. Calm(g) /\ Calm(h)
    BY <1>11, <1>12, <1>13 DEF Calm
<1> QED BY <1>1, <1>3, <1>8, <1>10, <1>14

LEMMA VisitSongCalm ==
    ASSUME IInv, PInv, FInv, quiet, NEW n, NEW f,
           VisitKnownSong(n, f) \/ VisitNewSong(n, f) \/ VisitVanishing(n, f)
    PROVE  UNCHANGED <<dirs, songs>> /\ \A e \in ToSet(stack') : Calm(e)
<1> DEFINE p == PathOf(dirs, Top.id)
           r == RootOf(dirs, Top.id)
<1>1. PICK g, s :
         /\ g \in Frames
         /\ IsFrame(g, "sync", Top.id, Top.depth, Top.opened, f.entries, Top.dirs, Top.songs \ {s})
         /\ ToSet(stack') = ToSet(Below) \cup {g}
         /\ stack # <<>> /\ Top.mode = "sync" /\ dirs' = dirs
         /\ \/ Visits(n, "song", f) /\ s \in KnownSongs(n) /\ songs' = songs
            \/ Visits(n, "song", f) /\ KnownSongs(n) = {}
            \/ Visits(n, "none", f)
    BY VisitSongDoes
<1>2. stable /\ Recorded /\ Calm(Top) /\ \A e \in ToSet(Below) : Calm(e)
    BY <1>1, CalmTop
<1>3. ~Visits(n, "none", f)
    BY <1>2, AtEntry
<1>4. Visits(n, "song", f)
    BY <1>1, <1>3
<1>5. /\ Append(p, n) \in Paths /\ fs[Append(p, n)] = "song"
      /\ Len(p) < Len(r) + DepthLimit /\ fs[r] = "dir"
      /\ n \in Top.entries /\ f.entries = Top.entries \ {n}
    BY <1>2, <1>4, AtEntry
<1>6. Top.id \in DOMAIN dirs
    BY <1>1, TopSees
<1>7. /\ \E t \in In(songs, Top.id) : songs[t].name = n
      /\ \A t, u \in In(songs, Top.id) : songs[u].name = songs[t].name => u = t
      /\ \A k \in Under(dirs, Top.id) : fs[Append(p, dirs[k].name)] = "dir"
    BY <1>2, <1>5, <1>6, RecordOf
<1>8. /\ Top.dirs = {k \in Under(dirs, Top.id) : dirs[k].name \in Top.entries}
      /\ Top.songs = {t \in In(songs, Top.id) : songs[t].name \in Top.entries}
    BY <1>1, <1>2 DEF Calm
<1> HIDE DEF p, r
<1>9. KnownSongs(n) # {}
    BY <1>5, <1>7, <1>8 DEF KnownSongs
<1>10. songs' = songs /\ s \in In(songs, Top.id) /\ songs[s].name = n
    BY <1>1, <1>3, <1>8, <1>9 DEF KnownSongs
<1>11. /\ g.mode = "sync" /\ g.id = Top.id /\ g.entries = Top.entries \ {n}
       /\ g.dirs = Top.dirs /\ g.songs = Top.songs \ {s}
    BY <1>1, <1>5 DEF IsFrame
<1>12. Top.songs \ {s} = {t \in In(songs, Top.id) : songs[t].name \in Top.entries \ {n}}
    BY <1>7, <1>8, <1>10
<1>13. Top.dirs = {k \in Under(dirs, Top.id) : dirs[k].name \in Top.entries \ {n}}
    <2>1. \A k \in Under(dirs, Top.id) : dirs[k].name # n
        BY <1>5, <1>7
    <2> QED BY <1>8, <2>1
<1>14. Calm(g)
    BY <1>11, <1>12, <1>13 DEF Calm
<1> QED BY <1>1, <1>2, <1>10, <1>14

LEMMA LoopEndsCalm ==
    ASSUME IInv, PInv, FInv, quiet, LoopEnds
    PROVE  UNCHANGED <<dirs, songs>> /\ \A e \in ToSet(stack') : Calm(e)
<1>1. /\ stack # <<>> /\ Top.mode = "sync" /\ UNCHANGED tables
    BY LoopEndsDoes
<1>2. stable /\ Calm(Top) /\ \A e \in ToSet(Below) : Calm(e)
    BY <1>1, CalmTop
<1>3. PICK g \in Frames :
         /\ IsFrame(g, "reap", Top.id, Top.depth, 0, {}, Top.dirs, Top.songs)
         /\ ToSet(stack') = ToSet(Below) \cup {g}
    BY LoopEndsDoes
<1>4. Top.entries = {}
    BY <1>2, LoopEndsDoes
<1>5. Top.dirs = {} /\ Top.songs = {}
    BY <1>1, <1>2, <1>4 DEF Calm
<1>6. Calm(g)
    BY <1>3, <1>5 DEF Calm, IsFrame
<1> QED BY <1>1, <1>2, <1>3, <1>6 DEF tables

\* There is nothing to reap.
LEMMA ReapingCalm ==
    ASSUME IInv, PInv, FInv, quiet, Reaping
    PROVE  Top.mode = "reap" /\ Top.dirs = {} /\ Top.songs = {} /\ \A e \in ToSet(Below) : Calm(e)
<1>1. stack # <<>> /\ Top.mode \in {"reap", "destroy"} /\ Sees(Top, dirs)
    BY ReapingSees
<1>2. Calm(Top) /\ \A e \in ToSet(Below) : Calm(e)
    BY <1>1, CalmTop
<1>3. Top.mode = "reap" /\ Top.entries = {}
    BY <1>1, <1>2 DEF Calm, Sees
<1> QED BY <1>2, <1>3 DEF Calm

LEMMA ReturnCalm ==
    ASSUME IInv, PInv, FInv, quiet, Return \/ SkipDir
    PROVE  UNCHANGED <<dirs, songs>> /\ \A e \in ToSet(stack') : Calm(e)
<1>1. CASE Return
    <2>1. Reaping
        BY <1>1 DEF Return
    <2>2. Top.mode = "reap" /\ \A e \in ToSet(Below) : Calm(e)
        BY <2>1, ReapingCalm
    <2> QED BY <1>1, <2>2, ReturnDoes
<1>2. CASE SkipDir
    <2>1. stack # <<>> /\ stack' = Below /\ UNCHANGED tables
        BY <1>2 DEF SkipDir, InFrame
    <2> QED BY <2>1, CalmTop DEF tables
<1> QED BY <1>1, <1>2

LEMMA ScanRootCalm ==
    ASSUME IInv, PInv, FInv, quiet, ScanRoot
    PROVE  UNCHANGED <<dirs, songs>> /\ \A e \in ToSet(stack') : Calm(e)
<1> DEFINE row == [parent |-> 0, name |-> Head(todo)]
           known == {k \in DOMAIN dirs : dirs[k] = row}
<1>1. /\ todo # <<>> /\ songs' = songs
      /\ \E h \in Frames, d \in Nat \ {0} :
            /\ IsFrame(h, "enter", d, 0, 0, {}, {}, {})
            /\ ToSet(stack') = {h}
            /\ known # {} => dirs' = dirs
    BY ScanRootDoes
<1>2. Head(todo) \in ToSet(Roots)
    BY <1>1, TodoOK, HeadAndTail
<1>3. PICK k \in DOMAIN dirs : dirs[k].parent = 0 /\ dirs[k].name = Head(todo)
    BY <1>2 DEF FInv, RootsKnown
<1>4. dirs[k] = row
    BY <1>3 DEF PInv, RowsOK, DirRowOK
<1>5. known # {}
    BY <1>4
<1>6. \A h : IsFrame(h, "enter", h.id, 0, 0, {}, {}, {}) => Calm(h)
    BY DEF IsFrame, Calm
<1>7. \A h, d : IsFrame(h, "enter", d, 0, 0, {}, {}, {}) => h.id = d
    BY DEF IsFrame
<1> HIDE DEF known
<1> QED BY <1>1, <1>5, <1>6, <1>7

LEMMA QuietStep ==
    ASSUME IInv, PInv, FInv, quiet, ScanStep, ~ScanDone
    PROVE  UNCHANGED <<dirs, songs>> /\ \A e \in ToSet(stack') : Calm(e)
<1>1. CASE OpenFails \/ \E n, f : VisitNewTag(n, f) \/ VisitVanished(n, f)
    BY <1>1, EmptySets DEF OpenFails, VisitNewTag, VisitVanished, Abort, tables
<1>2. ~ReapDir /\ ~ReapSong
    BY ReapingCalm DEF ReapDir, ReapSong
<1>3. \/ ScanRoot \/ SkipDir \/ EnterDir \/ LoopEnds \/ Return
      \/ OpenFails \/ \E n, f : VisitNewTag(n, f) \/ VisitVanished(n, f)
      \/ \E n, f : VisitDir(n, f)
      \/ \E n, f : VisitKnownSong(n, f) \/ VisitNewSong(n, f) \/ VisitVanishing(n, f)
    BY <1>2 DEF ScanStep
<1> QED BY <1>1, <1>3, ScanRootCalm, EnterDirCalm, LoopEndsCalm, ReturnCalm, VisitDirCalm,
        VisitSongCalm

LEMMA QuietKeeps ==
    ASSUME IInv, PInv, FInv, quiet, [Next]_vars, ~ScanDone
    PROVE  UNCHANGED <<dirs, songs>> /\ (quiet' => fs' = fs /\ \A e \in ToSet(stack') : Calm(e))
<1>1. CASE ScanStep
    <2>1. UNCHANGED fs
        BY <1>1 DEF ScanStep, ScanRoot, SkipDir, EnterDir, OpenFails, LoopEnds, VisitDir,
            VisitKnownSong, VisitNewSong, VisitNewTag, VisitVanished, VisitVanishing, ReapDir,
            ReapSong, Return, ScanDone, Abort
    <2> QED BY <1>1, <2>1, QuietStep
<1>2. CASE Start \/ DatabaseFails \/ Crash
    BY <1>2, EmptySets DEF Start, DatabaseFails, Crash, Abort, tables
<1>3. CASE ChangeFs
    BY <1>3 DEF ChangeFs, tables
<1>4. CASE UNCHANGED vars
    BY <1>4 DEF vars, tables, FInv
<1> QED BY <1>1, <1>2, <1>3, <1>4 DEF Next

LEMMA NextFInv == IInv /\ PInv /\ WInv /\ FInv /\ [Next]_vars => FInv'
<1> SUFFICES ASSUME IInv, PInv, WInv, FInv, [Next]_vars, quiet' PROVE FInv'
    BY DEF FInv
<1>1. CASE ScanDone
    <2>1. /\ app = "scanning" /\ stack = <<>> /\ todo = <<>> /\ stable
          /\ fs' = fs /\ dirs' = dirs /\ songs' = songs /\ stack' = stack
        BY <1>1 DEF ScanDone, tables
    <2>2. ToSet(stack) = {} /\ ToSet(todo) = {}
        BY <2>1, EmptySets
    <2>3. \E U \in SUBSET DOMAIN dirs : WalkOK(fs, U, dirs, songs, {}, {})
        BY <2>1, <2>2 DEF WInv
    <2>4. Recorded /\ RootsKnown(dirs, {})
        BY <2>3, DoneRecords
    <2> QED BY <2>1, <2>2, <2>4 DEF FInv, Recorded
<1>2. CASE ~ScanDone
    <2>1. quiet
        BY <1>2 DEF Next, Start, ScanStep, ScanRoot, SkipDir, EnterDir, OpenFails, LoopEnds,
            VisitDir, VisitKnownSong, VisitNewSong, VisitNewTag, VisitVanished, VisitVanishing,
            ReapDir, ReapSong, Return, DatabaseFails, Crash, ChangeFs, Abort, vars, observer
    <2>2. dirs' = dirs /\ songs' = songs /\ fs' = fs /\ \A e \in ToSet(stack') : Calm(e)
        BY <1>2, <2>1, QuietKeeps
    <2>3. \A e \in ToSet(stack)' : Calm(e)'
        BY <2>2 DEF Calm
    <2> QED BY <2>1, <2>2, <2>3 DEF FInv, Recorded
<1> QED BY <1>1, <1>2

LEMMA InitWalks == Init => WInv /\ FInv
BY DEF Init, WInv, FInv

LEMMA ScannedInvariant == Spec => [](IInv /\ PInv /\ WInv /\ FInv)
<1>1. Init => WInv /\ FInv
    BY InitWalks
<1>2. IInv /\ PInv /\ WInv /\ FInv /\ [Next]_vars => (WInv /\ FInv)'
    BY NextWInv, NextFInv
<1> QED BY <1>1, <1>2, SeenInvariant, PTL DEF Spec

\* Once a scan has completed over what did not change, and as long as that does not,
\* no step of a later scan writes: the rowids outlive restarts.
THEOREM RescanWritesNothingEver == Spec => RescanWritesNothing
<1>1. IInv /\ PInv /\ FInv /\ [Next]_vars => [quiet => UNCHANGED tables]_vars
    <2>1. ScanDone => UNCHANGED tables
        BY DEF ScanDone
    <2> QED BY <2>1, QuietKeeps DEF tables
<1> QED BY <1>1, ScannedInvariant, PTL DEF Spec, RescanWritesNothing

\* The directory of an entry of a root that is not the root.
LEMMA FrontRecordable ==
    ASSUME PInv, NEW r \in ToSet(Roots), fs[r] = "dir", NEW kind \in {"dir", "song"},
           NEW p \in Recordable(r, kind), p # r
    PROVE  /\ p \in Paths /\ Front(p) \in Recordable(r, "dir")
           /\ p = Append(Front(p), Last(p)) /\ Len(p) > 1 /\ Len(p) <= Len(r) + DepthLimit
           /\ Len(Front(p)) \in Nat /\ Len(p) \in Nat /\ Len(Front(p)) < Len(p)
<1>1. p \in Paths /\ IsPrefix(r, p) /\ fs[p] = kind /\ Len(p) <= Len(r) + DepthLimit
    BY DEF Recordable
<1>2. /\ r \in Seq(Names) /\ Len(r) \in Nat \ {0}
      /\ p \in Seq(Names) /\ p # <<>> /\ Len(p) \in Nat \ {0}
    BY <1>1, RootFacts, PathFacts
<1>3. Len(r) < Len(p)
    BY <1>1, <1>2, PrefixFacts
<1>4. /\ p = Append(Front(p), Last(p)) /\ Front(p) \in Seq(Names) /\ Last(p) \in Names
      /\ Len(Front(p)) = Len(p) - 1 /\ Len(p) > 1
    BY <1>2, <1>3, FrontAndLast, SMTT(30)
<1>5. PICK q \in Seq(Names), n \in Names : q = Front(p) /\ n = Last(p)
    BY <1>4
<1>6. IsPrefix(r, q)
    <2>1. Append(q, n) = p
        BY <1>4, <1>5
    <2>2. Len(q) = Len(p) - 1
        BY <1>4, <1>5
    <2>3. Len(r) <= Len(q)
        BY <1>2, <1>3, <2>2
    <2> QED BY <1>1, <1>2, <2>1, <2>3, PrefixFacts
<1>7. Front(p) \in Paths /\ fs[Front(p)] = "dir"
    BY <1>1, <1>4, PathsClosed DEF PInv, World, IsTree
<1>8. Len(Front(p)) <= Len(r) + DepthLimit
    BY <1>1, <1>2, <1>4, DepthIsLimited
<1>9. Front(p) \in Recordable(r, "dir")
    BY <1>5, <1>6, <1>7, <1>8 DEF Recordable
<1> QED BY <1>1, <1>2, <1>4, <1>9

\* A shortest path that is not recorded would be of an entry of one that is.
LEMMA DirRecorded ==
    ASSUME IInv, PInv, FInv, quiet, NEW r \in ToSet(Roots), fs[r] = "dir",
           NEW p \in Recordable(r, "dir")
    PROVE  \E d \in DOMAIN dirs : RootOf(dirs, d) = r /\ PathOf(dirs, d) = p
<1> DEFINE Missing == {q \in Recordable(r, "dir") :
                          ~\E d \in DOMAIN dirs : RootOf(dirs, d) = r /\ PathOf(dirs, d) = q}
           Lengths == {Len(q) : q \in Missing}
<1>1. SUFFICES ASSUME p \in Missing PROVE FALSE
    OBVIOUS
<1>2. TablesOK(dirs, songs)
    BY DEF IInv
<1>3. Lengths \in SUBSET Nat /\ Lengths # {}
    <2>1. \A q \in Missing : q \in Paths
        BY DEF Recordable
    <2>2. \A q \in Missing : Len(q) \in Nat
        BY <2>1, PathFacts
    <2> HIDE DEF Missing
    <2> QED BY <1>1, <2>2
<1>4. PICK q \in Missing : \A e \in Missing : Len(q) <= Len(e)
    <2> HIDE DEF Missing
    <2>1. PICK m \in Lengths : \A k \in Lengths : m <= k
        <3> HIDE DEF Lengths
        <3> QED BY <1>3, LeastOfNaturals
    <2> QED BY <2>1
<1>5. CASE q = r
    <2>1. PICK k \in DOMAIN dirs : dirs[k].parent = 0 /\ dirs[k].name = r
        BY DEF FInv, RootsKnown
    <2>2. PathOf(dirs, k) = r /\ RootOf(dirs, k) = r
        BY <1>2, <2>1, Unfolded
    <2> QED BY <1>4, <1>5, <2>2
<1>6. CASE q # r
    <2>1. /\ q \in Paths /\ Front(q) \in Recordable(r, "dir")
          /\ q = Append(Front(q), Last(q)) /\ Len(q) > 1 /\ Len(q) <= Len(r) + DepthLimit
          /\ Len(Front(q)) \in Nat /\ Len(q) \in Nat /\ Len(Front(q)) < Len(q)
        BY <1>4, <1>6, FrontRecordable
    <2>2. Front(q) \notin Missing
        BY <1>4, <2>1
    <2>3. PICK d \in DOMAIN dirs : RootOf(dirs, d) = r /\ PathOf(dirs, d) = Front(q)
        BY <2>1, <2>2
    <2>4. fs[q] = "dir"
        BY <1>4 DEF Recordable
    <2>5. PICK p2, n : p2 = Front(q) /\ n = Last(q)
        OBVIOUS
    <2>6. PICK k \in DOMAIN dirs : dirs[k].parent = d /\ dirs[k].name = n
        <3>1. /\ Append(p2, n) = q /\ p2 = PathOf(dirs, d) /\ fs[RootOf(dirs, d)] = "dir"
              /\ Len(p2) < Len(RootOf(dirs, d)) + DepthLimit
            <4>1. Len(r) \in Nat
                BY RootFacts, PathFacts
            <4>2. Append(p2, n) = q /\ p2 = PathOf(dirs, d) /\ RootOf(dirs, d) = r
                BY <2>1, <2>3, <2>5
            <4>3. Len(p2) < Len(r) + DepthLimit
                BY <2>1, <2>5, <4>1, DepthIsLimited
            <4> QED BY <4>2, <4>3
        <3>2. Recorded
            BY DEF FInv
        <3>3. Append(p2, n) \in Paths /\ fs[Append(p2, n)] = "dir"
            BY <2>1, <2>4, <3>1
        <3> HIDE DEF Missing
        <3>4. \E k \in Under(dirs, d) : dirs[k].name = n
            BY <3>1, <3>2, <3>3, RecordOf
        <3> QED BY <3>4 DEF Under
    <2>7. PathOf(dirs, k) = q /\ RootOf(dirs, k) = r
        BY <1>2, <2>1, <2>3, <2>5, <2>6, Unfolded
    <2> QED BY <1>4, <2>7
<1> QED BY <1>5, <1>6

LEMMA SongRecorded ==
    ASSUME IInv, PInv, FInv, quiet, NEW r \in ToSet(Roots), fs[r] = "dir",
           NEW p \in Recordable(r, "song")
    PROVE  \E s \in DOMAIN songs : RootOf(dirs, songs[s].dir) = r /\ SongAt(dirs, songs, s) = p
<1>1. fs[p] = "song"
    BY DEF Recordable
<1>2. /\ p \in Paths /\ Front(p) \in Recordable(r, "dir")
      /\ p = Append(Front(p), Last(p)) /\ Len(p) > 1 /\ Len(p) <= Len(r) + DepthLimit
    BY <1>1, FrontRecordable
<1>3. PICK d \in DOMAIN dirs : RootOf(dirs, d) = r /\ PathOf(dirs, d) = Front(p)
    BY <1>2, DirRecorded
<1>4. PICK q, n : q = Front(p) /\ n = Last(p)
    OBVIOUS
<1>5. PICK s \in DOMAIN songs : songs[s].dir = d /\ songs[s].name = n
    <2>1. /\ Append(q, n) = p /\ q = PathOf(dirs, d) /\ fs[RootOf(dirs, d)] = "dir"
          /\ Len(q) < Len(RootOf(dirs, d)) + DepthLimit
        <3>1. Len(r) \in Nat /\ Len(Front(p)) \in Nat /\ Len(p) \in Nat /\ Len(Front(p)) < Len(p)
            BY <1>1, RootFacts, PathFacts, FrontRecordable
        <3> QED BY <1>2, <1>3, <1>4, <3>1, DepthIsLimited
    <2>2. Recorded
        BY DEF FInv
    <2>3. \E s \in In(songs, d) : songs[s].name = n
        BY <1>1, <1>2, <2>1, <2>2, RecordOf
    <2> QED BY <2>3 DEF In
<1> QED BY <1>2, <1>3, <1>4, <1>5 DEF SongAt

\* One row for each path of a root that is there: the least of several would have its
\* parent in common with the others, which has one row for each name.
LEMMA DirsUnique ==
    ASSUME IInv, PInv, FInv, quiet, NEW r, fs[r] = "dir",
           NEW d \in DOMAIN dirs, NEW e \in DOMAIN dirs,
           RootOf(dirs, d) = r, RootOf(dirs, e) = r, PathOf(dirs, d) = PathOf(dirs, e)
    PROVE  d = e
<1> DEFINE Twice == {k \in DOMAIN dirs : RootOf(dirs, k) = r /\
                        \E j \in DOMAIN dirs : /\ RootOf(dirs, j) = r /\ j # k
                                               /\ PathOf(dirs, j) = PathOf(dirs, k)}
<1>1. SUFFICES ASSUME d \in Twice PROVE FALSE
    OBVIOUS
<1>2. TablesOK(dirs, songs) /\ RowsOK(dirs, songs) /\ Recorded
    BY DEF IInv, PInv, FInv
<1>3. \A k \in DOMAIN dirs : k \in Nat
    BY <1>2, Unfolded
<1>4. PICK k \in Twice : \A j \in Twice : k <= j
    <2>1. Twice \in SUBSET Nat /\ Twice # {}
        BY <1>1, <1>3
    <2> HIDE DEF Twice
    <2> QED BY <2>1, LeastOfNaturals
<1>5. PICK j \in DOMAIN dirs : /\ RootOf(dirs, j) = r /\ j # k /\ PathOf(dirs, j) = PathOf(dirs, k)
    BY <1>4
<1>6. k \in DOMAIN dirs /\ RootOf(dirs, k) = r
    BY <1>4
<1>7. ASSUME NEW i \in DOMAIN dirs, RootOf(dirs, i) = r
      PROVE  /\ dirs[i].parent = 0 => PathOf(dirs, i) = r /\ dirs[i] = [parent |-> 0, name |-> r]
             /\ dirs[i].parent # 0 =>
                   LET q == PathOf(dirs, dirs[i].parent) IN
                   /\ dirs[i].parent \in DOMAIN dirs /\ dirs[i].parent < i
                   /\ RootOf(dirs, dirs[i].parent) = r
                   /\ Front(PathOf(dirs, i)) = q /\ Last(PathOf(dirs, i)) = dirs[i].name
                   /\ PathOf(dirs, i) # r
    <2>1. CASE dirs[i].parent = 0
        <3>1. dirs[i] = [parent |-> dirs[i].parent, name |-> dirs[i].name]
            BY <1>2 DEF RowsOK, DirRowOK
        <3> QED BY <1>2, <1>7, <2>1, <3>1, Unfolded
    <2>2. CASE dirs[i].parent # 0
        <3>1. /\ dirs[i].parent \in DOMAIN dirs /\ dirs[i].parent < i
              /\ PathOf(dirs, i) = Append(PathOf(dirs, dirs[i].parent), dirs[i].name)
              /\ RootOf(dirs, dirs[i].parent) = r
            BY <1>2, <1>7, <2>2, Unfolded
        <3>2. PICK q, n : q = PathOf(dirs, dirs[i].parent) /\ n = dirs[i].name
            OBVIOUS
        <3>3. q \in Paths /\ IsPrefix(r, q)
            BY <1>2, <3>1, <3>2 DEF RowsOK, DirRowOK
        <3>4. PathOf(dirs, i) \in Paths /\ r \in Paths
            BY <1>2, <1>7, DirFacts
        <3>5. Front(Append(q, n)) = q /\ Last(Append(q, n)) = n /\ Len(Append(q, n)) = Len(q) + 1
            BY <3>1, <3>2, <3>3, <3>4, EntryFacts
        <3>6. Len(r) <= Len(q) /\ Len(r) \in Nat /\ Len(q) \in Nat
            BY <3>3, <3>4, PathFacts, PrefixFacts
        <3>7. Append(q, n) # r
            BY <3>5, <3>6
        <3> QED BY <2>2, <3>1, <3>2, <3>5, <3>7
    <2> QED BY <2>1, <2>2
<1>8. CASE dirs[k].parent = 0
    <2>1. dirs[j].parent = 0
        BY <1>5, <1>6, <1>7, <1>8
    <2>2. dirs[j] = dirs[k]
        BY <1>5, <1>6, <1>7, <1>8, <2>1
    <2> QED BY <1>2, <1>5, <1>6, <1>8, <2>2 DEF TablesOK, RootsApart
<1>9. CASE dirs[k].parent # 0
    <2>1. dirs[j].parent # 0
        BY <1>5, <1>6, <1>7, <1>9
    <2>2. PICK m, l : m = dirs[k].parent /\ l = dirs[j].parent
        OBVIOUS
    <2>3. /\ m \in DOMAIN dirs /\ m < k /\ RootOf(dirs, m) = r
          /\ l \in DOMAIN dirs /\ RootOf(dirs, l) = r
          /\ PathOf(dirs, l) = PathOf(dirs, m) /\ dirs[k].name = dirs[j].name
        BY <1>5, <1>6, <1>7, <1>9, <2>1, <2>2
    <2>4. m \notin Twice
        <3> HIDE DEF Twice
        <3> QED BY <1>3, <1>4, <1>6, <2>3
    <2>5. l = m
        BY <2>3, <2>4
    <2>6. k \in Under(dirs, m) /\ j \in Under(dirs, m)
        BY <1>5, <1>6, <2>2, <2>5 DEF Under
    <2> QED BY <1>2, <1>5, <2>3, <2>6, RecordOf
<1> QED BY <1>8, <1>9

LEMMA SongsUnique ==
    ASSUME IInv, PInv, FInv, quiet, NEW r, fs[r] = "dir",
           NEW s \in DOMAIN songs, NEW t \in DOMAIN songs,
           RootOf(dirs, songs[s].dir) = r, RootOf(dirs, songs[t].dir) = r,
           SongAt(dirs, songs, s) = SongAt(dirs, songs, t)
    PROVE  s = t
<1>1. TablesOK(dirs, songs) /\ RowsOK(dirs, songs) /\ Recorded
    BY DEF IInv, PInv, FInv
<1>2. PICK d, e : d = songs[s].dir /\ e = songs[t].dir
    OBVIOUS
<1>3. /\ d \in DOMAIN dirs /\ e \in DOMAIN dirs
      /\ PathOf(dirs, d) = PathOf(dirs, e) /\ songs[s].name = songs[t].name
    BY <1>1, <1>2, SongFacts
<1>4. d = e
    BY <1>2, <1>3, DirsUnique
<1>5. s \in In(songs, d) /\ t \in In(songs, d)
    BY <1>2, <1>4 DEF In
<1> QED BY <1>1, <1>2, <1>3, <1>5, RecordOf

\* A scan that completed over what did not change has recorded, of each root that
\* is there, all that is in it, once, and nothing else, whatever earlier scans that were
\* broken off or saw other contents had left; later scans leave it so.
THEOREM MirrorsWhenDoneEver == Spec => []MirrorsWhenDone
<1>1. ASSUME IInv, PInv, FInv, quiet, NEW r \in ToSet(Roots), fs[r] = "dir"
      PROVE  /\ {DirPath[d] : d \in DirsUnder(r)} = Recordable(r, "dir")
             /\ {SongPath(s) : s \in SongsUnder(r)} = Recordable(r, "song")
             /\ \A d, e \in DirsUnder(r) : DirPath[d] = DirPath[e] => d = e
             /\ \A s, t \in SongsUnder(r) : SongPath(s) = SongPath(t) => s = t
    <2>1. TablesOK(dirs, songs) /\ RowsOK(dirs, songs) /\ Recorded
        BY <1>1 DEF IInv, PInv, FInv
    <2>2. /\ \A d : d \in DirsUnder(r) <=> d \in DOMAIN dirs /\ RootOf(dirs, d) = r
          /\ \A s : s \in SongsUnder(r) <=> s \in DOMAIN songs /\ RootOf(dirs, songs[s].dir) = r
          /\ \A d : DirPath[d] = PathOf(dirs, d)
          /\ \A s : SongPath(s) = SongAt(dirs, songs, s)
        BY DirPathIs, SongPathIs DEF DirsUnder, SongsUnder
    <2>3. ASSUME NEW d \in DirsUnder(r) PROVE DirPath[d] \in Recordable(r, "dir")
        <3>1. /\ d \in DOMAIN dirs /\ RootOf(dirs, d) = r /\ DirPath[d] = PathOf(dirs, d)
            BY <2>2
        <3>2. fs[PathOf(dirs, d)] = "dir"
            BY <1>1, <2>1, <3>1 DEF Recorded
        <3>3. /\ PathOf(dirs, d) \in Paths /\ IsPrefix(r, PathOf(dirs, d))
              /\ Len(PathOf(dirs, d)) <= Len(r) + DepthLimit
            BY <2>1, <3>1 DEF RowsOK, DirRowOK
        <3> QED BY <3>1, <3>2, <3>3 DEF Recordable
    <2>4. ASSUME NEW s \in SongsUnder(r) PROVE SongPath(s) \in Recordable(r, "song")
        <3>1. /\ s \in DOMAIN songs /\ RootOf(dirs, songs[s].dir) = r
              /\ SongPath(s) = SongAt(dirs, songs, s)
            BY <2>2
        <3>2. /\ songs[s].dir \in DOMAIN dirs /\ SongAt(dirs, songs, s) \in Paths
              /\ IsPrefix(r, SongAt(dirs, songs, s))
              /\ Len(SongAt(dirs, songs, s)) <= Len(r) + DepthLimit
            BY <2>1, <3>1, SongFacts
        <3>3. s \in In(songs, songs[s].dir)
            BY <3>1 DEF In
        <3>4. fs[SongAt(dirs, songs, s)] = "song"
            BY <1>1, <2>1, <3>1, <3>2, <3>3, RecordOf DEF SongAt
        <3> QED BY <3>1, <3>2, <3>4 DEF Recordable
    <2>5. ASSUME NEW p \in Recordable(r, "dir") PROVE \E d \in DirsUnder(r) : DirPath[d] = p
        BY <1>1, <2>2, DirRecorded
    <2>6. ASSUME NEW p \in Recordable(r, "song") PROVE \E s \in SongsUnder(r) : SongPath(s) = p
        BY <1>1, <2>2, SongRecorded
    <2>7. ASSUME NEW d \in DirsUnder(r), NEW e \in DirsUnder(r), DirPath[d] = DirPath[e]
          PROVE  d = e
        BY <1>1, <2>2, <2>7, DirsUnique
    <2>8. ASSUME NEW s \in SongsUnder(r), NEW t \in SongsUnder(r), SongPath(s) = SongPath(t)
          PROVE  s = t
        BY <1>1, <2>2, <2>8, SongsUnique
    <2> QED BY <2>3, <2>4, <2>5, <2>6, <2>7, <2>8
<1>2. IInv /\ PInv /\ FInv => MirrorsWhenDone
    BY <1>1 DEF MirrorsWhenDone
<1> QED BY <1>2, ScannedInvariant, PTL
==============================================================================
