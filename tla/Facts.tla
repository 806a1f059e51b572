-------------------------------- MODULE Facts --------------------------------
(***************************************************************************)
(* Facts about numbers, sequences, finite sets and linked lists that the   *)
(* proofs share.  Nothing here speaks of the file system.                  *)
(***************************************************************************)
EXTENDS Integers, Sequences, FiniteSets, Functions,
        FiniteSetTheorems, SequenceTheorems, WellFoundedInduction, TLAPS

-----------------------------------------------------------------------------
(* Numbers, induction and recursion *)

\* A set of natural numbers that is not empty has a least element.
LEMMA LeastNumber ==
  ASSUME NEW S \in SUBSET Nat, S # {}
  PROVE  \E n \in S : \A m \in S : n <= m
<1> DEFINE R == {ss \in Nat \X Nat : ss[1] < ss[2]}
<1>1. IsWellFoundedOn(R, Nat)
  BY NatLessThanWellFounded DEF OpToRel
<1> HIDE DEF R
<1>2. PICK x \in S : \A y \in S : ~(<<y, x>> \in R)
  BY <1>1, WFMin
<1>3. ASSUME NEW y \in S PROVE x <= y
  <2>1. y < x => <<y, x>> \in R
    BY DEF R
  <2>2. QED
    BY <1>2, <2>1
<1> QED
  BY <1>2, <1>3

\* Induction up to N, on the set of the numbers for which something holds.
LEMMA Induction ==
  ASSUME NEW N \in Nat, NEW S, 0 \in S,
         \A n \in 0 .. (N - 1) : n \in S => n + 1 \in S
  PROVE  \A n \in 0 .. N : n \in S
<1> DEFINE T == {n \in 0 .. N : n \notin S}
<1>1. ASSUME T # {} PROVE FALSE
  <2>1. T \in SUBSET Nat
    OBVIOUS
  <2>2. PICK n \in T : \A m \in T : n <= m
    BY <1>1, <2>1, LeastNumber
  <2>3. n \in 1 .. N /\ n - 1 \in 0 .. (N - 1) /\ n - 1 \notin T
    BY <2>2
  <2>4. n - 1 \in S /\ (n - 1) + 1 = n
    BY <2>3
  <2>5. QED
    BY <2>2, <2>3, <2>4
<1> QED
  BY <1>1

\* g starts from base and makes every step from its value one below.
Recurs(N, base, step, g) == g[0] = base /\ \A n \in 1 .. N : g[n] = step[n][g[n - 1]]

\* A function that is defined from its value one below exists.
LEMMA Recursion ==
  ASSUME NEW N \in Nat, NEW T, NEW base \in T, NEW step \in [1 .. N -> [T -> T]]
  PROVE  \E g \in [0 .. N -> T] : Recurs(N, base, step, g)
<1> DEFINE Good(m, g) == g \in [0 .. m -> T] /\ g[0] = base /\ \A n \in 1 .. m : g[n] = step[n][g[n - 1]]
           S == {m \in 0 .. N : \E g : Good(m, g)}
<1>1. 0 \in S
  <2>1. Good(0, [n \in 0 .. 0 |-> base])
    OBVIOUS
  <2> HIDE DEF Good
  <2>2. \E g : Good(0, g)
    BY <2>1
  <2> QED
    BY <2>2
<1>2. ASSUME NEW m \in 0 .. (N - 1), m \in S PROVE m + 1 \in S
  <2>1. PICK g : Good(m, g)
    BY <1>2
  <2> DEFINE h == [n \in 0 .. (m + 1) |-> IF n = m + 1 THEN step[m + 1][g[m]] ELSE g[n]]
  <2>2. m \in Nat /\ m + 1 \in 1 .. N /\ g[m] \in T
    BY <2>1
  <2>3. step[m + 1][g[m]] \in T
    BY <2>2
  <2>4. h \in [0 .. (m + 1) -> T] /\ h[0] = base
    BY <2>1, <2>2, <2>3
  <2>5. ASSUME NEW n \in 1 .. (m + 1) PROVE h[n] = step[n][h[n - 1]]
    <3>1. n - 1 \in 0 .. m /\ h[n - 1] = g[n - 1]
      BY <2>2
    <3>2. CASE n = m + 1
      BY <2>2, <3>1, <3>2
    <3>3. CASE n # m + 1
      <4>1. n \in 1 .. m /\ h[n] = g[n]
        BY <2>2, <3>3
      <4>2. g[n] = step[n][g[n - 1]]
        BY <2>1, <4>1
      <4> QED
        BY <3>1, <4>1, <4>2
    <3> QED
      BY <3>2, <3>3
  <2> HIDE DEF h
  <2>6. Good(m + 1, h)
    BY <2>4, <2>5
  <2> QED
    BY <2>2, <2>6
<1> HIDE DEF S
<1>3. \A m \in 0 .. N : m \in S
  BY <1>1, <1>2, Induction
<1> HIDE DEF Good
<1>4. PICK g : Good(N, g)
  BY <1>3 DEF S
<1> QED
  BY <1>4 DEF Good, Recurs

\* Quotient and remainder of a natural number.
LEMMA DivMod ==
  ASSUME NEW n \in Nat, NEW p \in Nat, p >= 1
  PROVE  n \div p \in Nat /\ n % p \in 0 .. (p - 1) /\ n = (n \div p) * p + (n % p)
  OBVIOUS

\* A quotient and a remainder are those of the number made from them.
LEMMA Quotient ==
  ASSUME NEW q \in Nat, NEW p \in Nat, p >= 1, NEW r \in 0 .. (p - 1)
  PROVE  (q * p + r) \div p = q /\ (q * p + r) % p = r
<1>1. q * p + r \in Nat
  OBVIOUS
<1> QED
  BY <1>1, DivMod

-----------------------------------------------------------------------------
(* Sequences *)

\* A sequence without its last element.
LEMMA DropLast ==
  ASSUME NEW S, NEW s \in Seq(S), Len(s) > 0
  PROVE  /\ SubSeq(s, 1, Len(s) - 1) \in Seq(S)
         /\ Len(SubSeq(s, 1, Len(s) - 1)) = Len(s) - 1
         /\ \A k \in 1 .. (Len(s) - 1) : SubSeq(s, 1, Len(s) - 1)[k] = s[k]
<1> DEFINE n == Len(s) - 1
<1>1. n \in Nat
  OBVIOUS
<1>2. \A k \in 1 .. n : s[k] \in S
  OBVIOUS
<1> HIDE DEF n
<1>3. /\ SubSeq(s, 1, n) \in Seq(S)
      /\ Len(SubSeq(s, 1, n)) = IF 1 <= n THEN n - 1 + 1 ELSE 0
      /\ \A k \in 1 .. (n - 1 + 1) : SubSeq(s, 1, n)[k] = s[1 + k - 1]
  BY <1>1, <1>2, SubSeqProperties
<1>4. Len(SubSeq(s, 1, n)) = n /\ \A k \in 1 .. n : SubSeq(s, 1, n)[k] = s[k]
  BY <1>1, <1>3
<1>5. QED
  BY <1>3, <1>4 DEF n

\* A sequence with one more element.
LEMMA AddLast ==
  ASSUME NEW S, NEW s \in Seq(S), NEW e \in S
  PROVE  /\ Append(s, e) \in Seq(S)
         /\ Len(Append(s, e)) = Len(s) + 1
         /\ \A k \in 1 .. Len(s) : Append(s, e)[k] = s[k]
         /\ Append(s, e)[Len(s) + 1] = e
  OBVIOUS

Elements(s) == {s[k] : k \in 1 .. Len(s)}

Distinct(s) == \A j, k \in 1 .. Len(s) : s[j] = s[k] => j = k

\* A sequence without repetition is no longer than the set of its elements.
LEMMA DistinctCount ==
  ASSUME NEW S, IsFiniteSet(S), NEW s \in Seq(S), Distinct(s)
  PROVE  /\ Len(s) = Cardinality(Elements(s)) /\ Len(s) <= Cardinality(S)
         /\ IsFiniteSet(Elements(s)) /\ Cardinality(S) \in Nat
<1>1. s \in [1 .. Len(s) -> Elements(s)] /\ Len(s) \in Nat /\ Elements(s) \subseteq S
  BY DEF Elements
<1>2. s \in Surjection(1 .. Len(s), Elements(s)) /\ s \in Injection(1 .. Len(s), Elements(s))
  BY <1>1 DEF Surjection, Injection, Distinct, Elements, IsInjective
<1>3. IsFiniteSet(1 .. Len(s)) /\ Cardinality(1 .. Len(s)) = Len(s)
  <2>1. Cardinality(1 .. Len(s)) = IF 1 > Len(s) THEN 0 ELSE Len(s) - 1 + 1
    BY <1>1, FS_Interval
  <2> QED
    BY <1>1, <2>1, FS_Interval
<1>4. IsFiniteSet(Elements(s)) /\ Cardinality(Elements(s)) = Len(s)
  BY <1>2, <1>3, FS_Surjection
<1>5. Cardinality(Elements(s)) <= Cardinality(S) /\ Cardinality(S) \in Nat
  BY <1>1, FS_Subset, FS_CardinalityType
<1> QED
  BY <1>4, <1>5

-----------------------------------------------------------------------------
(* Linked lists: word[b] is the link of node b, 0 ends the list *)

\* c is the list from its last node to its head.
Chain(word, head, c) ==
  /\ head = IF Len(c) = 0 THEN 0 ELSE c[Len(c)]
  /\ \A k \in 1 .. Len(c) : word[c[k]] = IF k = 1 THEN 0 ELSE c[k - 1]
  /\ Distinct(c)

\* The node that a walk of n steps from the head of list c is at.
NodeAt(c, n) == IF n < Len(c) THEN c[Len(c) - n] ELSE 0

\* Every step of f from the first to the last follows a link.
Follows(D, word, f, first, last) ==
  \A n \in first .. last : f[n] = IF f[n - 1] \in D THEN word[f[n - 1]] ELSE 0

\* A walk along the links goes through the list from its head.
LEMMA Walk ==
  ASSUME NEW D, 0 \notin D, NEW word, NEW head, NEW c \in Seq(D), Chain(word, head, c),
         NEW N \in Nat, NEW f, f[0] = head, Follows(D, word, f, 1, N)
  PROVE  \A n \in 0 .. N : f[n] = NodeAt(c, n)
<1> DEFINE S == {n \in 0 .. N : f[n] = NodeAt(c, n)}
<1>1. Len(c) \in Nat /\ \A k \in 1 .. Len(c) : c[k] \in D
  OBVIOUS
<1>2. 0 \in S
  BY <1>1 DEF Chain, NodeAt
<1>3. ASSUME NEW n \in 0 .. (N - 1), n \in S PROVE n + 1 \in S
  <2>1. n + 1 \in 1 .. N /\ (n + 1) - 1 = n /\ n \in Nat
    OBVIOUS
  <2>2. f[n + 1] = IF NodeAt(c, n) \in D THEN word[NodeAt(c, n)] ELSE 0
    BY <1>3, <2>1 DEF Follows
  <2>3. CASE n < Len(c)
    <3>1. NodeAt(c, n) = c[Len(c) - n] /\ Len(c) - n \in 1 .. Len(c)
      BY <1>1, <2>1, <2>3 DEF NodeAt
    <3>2. f[n + 1] = IF Len(c) - n = 1 THEN 0 ELSE c[(Len(c) - n) - 1]
      BY <1>1, <2>2, <3>1 DEF Chain
    <3>3. f[n + 1] = NodeAt(c, n + 1)
      BY <1>1, <2>1, <2>3, <3>2 DEF NodeAt
    <3> QED
      BY <2>1, <3>3
  <2>4. CASE ~(n < Len(c))
    BY <1>1, <2>1, <2>2, <2>4 DEF NodeAt
  <2> QED
    BY <2>3, <2>4
<1> HIDE DEF S
<1>4. \A n \in 0 .. N : n \in S
  BY <1>2, <1>3, Induction
<1> QED
  BY <1>4 DEF S

\* The same walk, when its steps are counted from 1.
LEMMA WalkFromOne ==
  ASSUME NEW D, 0 \notin D, NEW word, NEW head, NEW c \in Seq(D), Chain(word, head, c),
         NEW N \in Nat, N > 0, NEW f, f[1] = head, Follows(D, word, f, 2, N)
  PROVE  \A n \in 1 .. N : f[n] = NodeAt(c, n - 1)
<1> DEFINE g == [n \in 0 .. (N - 1) |-> f[n + 1]]
           M == N - 1
<1>1. M \in Nat /\ g[0] = head
  OBVIOUS
<1>2. ASSUME NEW n \in 1 .. M
      PROVE  g[n] = IF g[n - 1] \in D THEN word[g[n - 1]] ELSE 0
  <2>1. g[n] = f[n + 1] /\ g[n - 1] = f[n] /\ n + 1 \in 2 .. N /\ (n + 1) - 1 = n
    OBVIOUS
  <2>2. f[n + 1] = IF f[(n + 1) - 1] \in D THEN word[f[(n + 1) - 1]] ELSE 0
    BY <2>1 DEF Follows
  <2> QED
    BY <2>1, <2>2
<1>3. \A n \in 1 .. N : n - 1 \in 0 .. M /\ g[n - 1] = f[n]
  OBVIOUS
<1> HIDE DEF g, M
<1>4. Follows(D, word, g, 1, M)
  BY <1>2 DEF Follows
<1>5. \A n \in 0 .. M : g[n] = NodeAt(c, n)
  BY <1>1, <1>4, Walk
<1> QED
  BY <1>3, <1>5

\* There is such a walk.
LEMMA WalkExists ==
  ASSUME NEW D, 0 \notin D, NEW word, NEW head, NEW c \in Seq(D), Chain(word, head, c),
         NEW N \in Nat
  PROVE  LET g == [n \in 0 .. N |-> NodeAt(c, n)]
         IN  \A n \in 0 .. N :
               g[n] = IF n = 0 THEN head ELSE IF g[n - 1] \in D THEN word[g[n - 1]] ELSE 0
<1> DEFINE g == [n \in 0 .. N |-> NodeAt(c, n)]
<1>1. Len(c) \in Nat /\ \A k \in 1 .. Len(c) : c[k] \in D
  OBVIOUS
<1>2. ASSUME NEW n \in 0 .. N
      PROVE  g[n] = IF n = 0 THEN head ELSE IF g[n - 1] \in D THEN word[g[n - 1]] ELSE 0
  <2>1. CASE n = 0
    BY <1>1, <2>1 DEF Chain, NodeAt
  <2>2. CASE n # 0 /\ n - 1 < Len(c)
    <3>1. g[n - 1] = c[Len(c) - (n - 1)] /\ Len(c) - (n - 1) \in 1 .. Len(c)
      BY <1>1, <2>2 DEF NodeAt
    <3>2. word[g[n - 1]] = IF Len(c) - (n - 1) = 1 THEN 0 ELSE c[(Len(c) - (n - 1)) - 1]
      BY <3>1 DEF Chain
    <3>3. g[n] = IF n < Len(c) THEN c[Len(c) - n] ELSE 0
      BY DEF NodeAt
    <3> QED
      BY <1>1, <2>2, <3>1, <3>2, <3>3
  <2>3. CASE n # 0 /\ ~(n - 1 < Len(c))
    <3>1. g[n - 1] = 0 /\ g[n] = 0
      BY <1>1, <2>3 DEF NodeAt
    <3> QED
      BY <2>3, <3>1
  <2> QED
    BY <1>1, <2>1, <2>2, <2>3
<1> QED
  BY <1>2

\* A node that is not on the list may be written to.
LEMMA ChainKept ==
  ASSUME NEW D, NEW word, DOMAIN word = D, NEW head, NEW c \in Seq(D), Chain(word, head, c),
         NEW b, b \notin Elements(c), NEW v
  PROVE  Chain([word EXCEPT ![b] = v], head, c)
  BY DEF Chain, Elements

\* A new head.
LEMMA ChainPushed ==
  ASSUME NEW D, NEW word, DOMAIN word = D, NEW head, NEW c \in Seq(D), Chain(word, head, c),
         NEW b \in D, b \notin Elements(c)
  PROVE  /\ Append(c, b) \in Seq(D)
         /\ Chain([word EXCEPT ![b] = head], b, Append(c, b))
         /\ Elements(Append(c, b)) = Elements(c) \union {b}
<1> DEFINE e == Append(c, b)
<1>1. /\ e \in Seq(D) /\ Len(e) = Len(c) + 1 /\ Len(c) \in Nat
      /\ \A k \in 1 .. Len(c) : e[k] = c[k]
      /\ e[Len(c) + 1] = b
  BY AddLast
<1> HIDE DEF e
<1>2. Elements(e) = Elements(c) \union {b}
  <2>1. 1 .. Len(e) = (1 .. Len(c)) \union {Len(c) + 1}
    BY <1>1
  <2> QED
    BY <1>1, <2>1 DEF Elements
<1>3. \A k \in 1 .. Len(c) : c[k] # b /\ c[k] \in D
  BY DEF Elements
<1>4. Distinct(e)
  BY <1>1, <1>3 DEF Distinct, Chain
<1>5. ASSUME NEW k \in 1 .. Len(e)
      PROVE  [word EXCEPT ![b] = head][e[k]] = IF k = 1 THEN 0 ELSE e[k - 1]
  <2>1. CASE k = Len(c) + 1
    <3>1. [word EXCEPT ![b] = head][e[k]] = head
      BY <1>1, <2>1
    <3> QED
      BY <1>1, <2>1, <3>1 DEF Chain
  <2>2. CASE k # Len(c) + 1
    <3>1. k \in 1 .. Len(c) /\ (k # 1 => k - 1 \in 1 .. Len(c))
      BY <1>1, <2>2
    <3>2. [word EXCEPT ![b] = head][e[k]] = word[c[k]]
      BY <1>1, <1>3, <3>1
    <3> QED
      BY <1>1, <3>1, <3>2 DEF Chain
  <2> QED
    BY <2>1, <2>2
<1>6. b = IF Len(e) = 0 THEN 0 ELSE e[Len(e)]
  BY <1>1
<1> QED
  BY <1>1, <1>2, <1>4, <1>5, <1>6 DEF Chain, e

\* The head taken away.
LEMMA ChainPopped ==
  ASSUME NEW D, 0 \notin D, NEW word, NEW head, head # 0, NEW c \in Seq(D), Chain(word, head, c)
  PROVE  /\ head \in Elements(c)
         /\ \E d \in Seq(D) : Chain(word, word[head], d) /\ Elements(d) = Elements(c) \ {head}
<1> DEFINE n == Len(c)
           d == SubSeq(c, 1, n - 1)
<1>1. n \in Nat /\ n > 0 /\ c[n] = head
  BY DEF Chain
<1>2. /\ d \in Seq(D) /\ Len(d) = n - 1
      /\ \A k \in 1 .. (n - 1) : d[k] = c[k]
  BY <1>1, DropLast
<1> HIDE DEF d
<1>3. word[head] = IF n = 1 THEN 0 ELSE c[n - 1]
  <2>1. n \in 1 .. Len(c)
    BY <1>1
  <2>2. word[c[n]] = IF n = 1 THEN 0 ELSE c[n - 1]
    BY <2>1 DEF Chain
  <2> QED
    BY <1>1, <2>2
<1>4. Chain(word, word[head], d)
  <2>1. word[head] = IF Len(d) = 0 THEN 0 ELSE d[Len(d)]
    BY <1>1, <1>2, <1>3
  <2>2. \A k \in 1 .. Len(d) : word[d[k]] = IF k = 1 THEN 0 ELSE d[k - 1]
    BY <1>1, <1>2 DEF Chain
  <2>3. Distinct(d)
    BY <1>1, <1>2 DEF Distinct, Chain
  <2> QED
    BY <2>1, <2>2, <2>3 DEF Chain
<1>5. Elements(d) = Elements(c) \ {head}
  <2>1. \A k \in 1 .. (n - 1) : c[k] # head
    BY <1>1 DEF Chain, Distinct
  <2>2. 1 .. n = (1 .. (n - 1)) \union {n}
    BY <1>1
  <2> QED
    BY <1>1, <1>2, <2>1, <2>2 DEF Elements
<1>6. head \in Elements(c)
  <2>1. n \in 1 .. Len(c)
    BY <1>1
  <2> QED
    BY <1>1, <2>1 DEF Elements
<1> QED
  BY <1>2, <1>4, <1>5, <1>6
=============================================================================
