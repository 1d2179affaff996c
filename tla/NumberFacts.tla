----------------------------- MODULE NumberFacts -----------------------------
(***************************************************************************)
(* The least and the greatest of a set of natural numbers, induction and   *)
(* recursion over them, and the rowids of a table.                         *)
(***************************************************************************)
EXTENDS Integers, FiniteSetsExt, WellFoundedInduction, TLAPS

\* A set of natural numbers with an upper bound has a greatest element.
LEMMA MaxOfBounded ==
    ASSUME NEW n \in Nat, NEW S \in SUBSET (0..n), S # {}
    PROVE  /\ Max(S) \in S
           /\ \A y \in S : Max(S) >= y
<1> DEFINE Above == {m \in Nat : \A y \in S : y <= m}
           Less == OpToRel(<, Nat)
<1>1. Above \subseteq Nat /\ n \in Above
    OBVIOUS
<1>2. PICK m \in Above : \A k \in Above : ~(<<k, m>> \in Less)
    <2> HIDE DEF Above, Less
    <2>1. IsWellFoundedOn(Less, Nat)
        BY NatLessThanWellFounded DEF Less
    <2> QED BY <1>1, <2>1, WFMin
<1>3. m \in S
    <2>1. SUFFICES ASSUME m \notin S PROVE FALSE
        OBVIOUS
    <2>2. PICK y \in S : TRUE
        OBVIOUS
    <2>3. m - 1 \in Above
        BY <2>1, <2>2
    <2>4. <<m - 1, m>> \in Less
        BY <2>3 DEF OpToRel
    <2> QED BY <1>2, <2>3, <2>4
<1>4. \A y \in S : m >= y
    OBVIOUS
<1> QED BY <1>3, <1>4 DEF Max

\* A set of natural numbers that is not empty has a least element.
LEMMA LeastOfNaturals ==
    ASSUME NEW S \in SUBSET Nat, S # {} PROVE \E m \in S : \A k \in S : m <= k
<1> DEFINE Less == OpToRel(<, Nat)
<1>1. PICK m \in S : \A k \in S : ~(<<k, m>> \in Less)
    <2> HIDE DEF Less
    <2>1. IsWellFoundedOn(Less, Nat)
        BY NatLessThanWellFounded DEF Less
    <2> QED BY <2>1, WFMin
<1>2. ASSUME NEW k \in S, k < m PROVE FALSE
    <2>1. <<k, m>> \in Less
        BY <1>2 DEF OpToRel
    <2> QED BY <1>1, <2>1
<1> QED BY <1>2

LEMMA MinOfNaturals ==
    ASSUME NEW S \in SUBSET Nat, S # {} PROVE Min(S) \in S
BY LeastOfNaturals DEF Min

\* A number is its own remainder when the divisor is greater.
LEMMA SmallRemainder ==
    ASSUME NEW n \in Nat, NEW m \in Nat, n < m PROVE n % m = n
OBVIOUS

\* Induction, for what can be said as membership of a set.
LEMMA InductiveSet ==
    ASSUME NEW S, 0 \in S, \A n \in Nat : n \in S => n + 1 \in S
    PROVE  \A n \in Nat : n \in S
<1> DEFINE Bad == Nat \ S
<1>1. SUFFICES ASSUME Bad # {} PROVE FALSE
    OBVIOUS
<1>2. PICK m \in Bad : \A k \in Bad : m <= k
    <2> HIDE DEF Bad
    <2>1. Bad \in SUBSET Nat
        BY DEF Bad
    <2> QED BY <1>1, <2>1, LeastOfNaturals
<1>3. m # 0 /\ m \in Nat
    BY <1>2
<1>4. m - 1 \in Nat /\ m - 1 \in S
    BY <1>2, <1>3
<1>5. (m - 1) + 1 \in S
    BY <1>4
<1> QED BY <1>2, <1>3, <1>5

\* A function that is defined by its value at 0 and a step from each value to the next.
IsRecursive(f, base, step, m) == f[0] = base /\ \A n \in 1..m : f[n] = step[<<n, f[n - 1]>>]

LEMMA Recursion ==
    ASSUME NEW m \in Nat, NEW X, NEW base \in X, NEW step \in [(1..m) \X X -> X]
    PROVE  \E f \in [0..m -> X] : IsRecursive(f, base, step, m)
<1> DEFINE Good == {k \in Nat : k <= m => \E f \in [0..k -> X] : IsRecursive(f, base, step, k)}
<1>1. 0 \in Good
    <2>1. /\ [n \in 0..0 |-> base] \in [0..0 -> X]
          /\ IsRecursive([n \in 0..0 |-> base], base, step, 0)
        BY DEF IsRecursive
    <2> QED BY <2>1
<1>2. ASSUME NEW k \in Nat, k \in Good PROVE k + 1 \in Good
    <2>1. SUFFICES ASSUME k + 1 <= m
                   PROVE  \E f \in [0..(k + 1) -> X] : IsRecursive(f, base, step, k + 1)
        OBVIOUS
    <2>2. PICK f \in [0..k -> X] : IsRecursive(f, base, step, k)
        BY <1>2, <2>1
    <2> DEFINE g == [n \in 0..(k + 1) |-> IF n = k + 1 THEN step[<<n, f[k]>>] ELSE f[n]]
    <2>3. <<k + 1, f[k]>> \in (1..m) \X X
        BY <2>1, <2>2
    <2>4. g \in [0..(k + 1) -> X]
        BY <2>2, <2>3
    <2>5. g[0] = base
        BY <2>2 DEF IsRecursive
    <2>6. ASSUME NEW n \in 1..(k + 1) PROVE g[n] = step[<<n, g[n - 1]>>]
        <3>1. n - 1 \in 0..k /\ g[n - 1] = f[n - 1]
            OBVIOUS
        <3>2. CASE n = k + 1
            BY <3>1, <3>2
        <3>3. CASE n # k + 1
            <4>1. n \in 1..k
                BY <3>3
            <4> QED BY <2>2, <3>1, <3>3, <4>1 DEF IsRecursive
        <3> QED BY <3>2, <3>3
    <2>7. IsRecursive(g, base, step, k + 1)
        BY <2>5, <2>6 DEF IsRecursive
    <2> QED BY <2>4, <2>7
<1>3. m \in Good
    <2> HIDE DEF Good
    <2> QED BY <1>1, <1>2, InductiveSet
<1> QED BY <1>3

\* The rowids of a table are bounded.
Bounded(table) == \E n \in Nat : DOMAIN table \subseteq 1..n

\* What SQLite takes for the next row is no row's id, and greater than all.
LEMMA NextRowid ==
    ASSUME NEW table, Bounded(table)
    PROVE  /\ 1 + Max(DOMAIN table \cup {0}) \in Nat \ {0}
           /\ \A r \in DOMAIN table :
                 r \in Nat /\ 0 < r /\ r < 1 + Max(DOMAIN table \cup {0})
<1>1. PICK n \in Nat : DOMAIN table \subseteq 1..n
    BY DEF Bounded
<1>2. DOMAIN table \cup {0} \in SUBSET (0..n) /\ DOMAIN table \cup {0} # {}
    BY <1>1
<1>3. /\ Max(DOMAIN table \cup {0}) \in DOMAIN table \cup {0}
      /\ \A y \in DOMAIN table \cup {0} : Max(DOMAIN table \cup {0}) >= y
    BY <1>2, MaxOfBounded
<1> QED BY <1>1, <1>2, <1>3
==============================================================================
