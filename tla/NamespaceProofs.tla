-------------------------- MODULE NamespaceProofs --------------------------
(***************************************************************************)
(* Theorems about names and directories while no crash cut a handler short, *)
(* for any number of names, inodes, blocks, requests and crashes.          *)
(*                                                                         *)
(* First the lemmas.  Names as the edges of a tree: <<d, name, n>> says    *)
(* that a name in directory d leads to inode n; what adding a leaf,        *)
(* removing one and moving a subtree do to the tree and to the paths in    *)
(* it.  Then the entries of directories: what adding one and removing one  *)
(* do to the blocks, and what a lookup finds in them.                      *)
(***************************************************************************)
EXTENDS Namespace, Facts

\* The edges E make trees of the inodes A with the roots R, the root directory among them: a
\* name leads to one inode, no inode has two names, a root none, and what contains the roots
\* and all they lead to is A.
Treelike(E, A, R) ==
  /\ E \subseteq A \X Name \X A
  /\ A \subseteq Inum /\ R \subseteq A /\ ROOT_DIR_INODE_NUM \in R
  /\ \A e, f \in E : e[1] = f[1] /\ e[2] = f[2] => e = f
  /\ \A e, f \in E : e[3] = f[3] => e = f
  /\ \A e \in E : e[3] \notin R
  /\ \A S \in SUBSET A : R \subseteq S /\ (\A e \in E : e[1] \in S => e[3] \in S) => S = A

\* f goes from the root along the names of path.
Along(E, path, f) ==
  /\ f \in [0 .. Len(path) -> Inum]
  /\ f[0] = ROOT_DIR_INODE_NUM
  /\ \A k \in 1 .. Len(path) : <<f[k - 1], path[k], f[k]>> \in E

\* The path leads from the root to n.
LeadsTo(E, path, n) == \E f \in [0 .. Len(path) -> Inum] : Along(E, path, f) /\ f[Len(path)] = n

-----------------------------------------------------------------------------
(* Trees *)

\* What the roots lead to is all.
LEMMA AllReached ==
  ASSUME NEW E, NEW A, NEW R, Treelike(E, A, R), NEW S \in SUBSET A, R \subseteq S,
         \A e \in E : e[1] \in S => e[3] \in S
  PROVE  S = A
  BY DEF Treelike

\* A new leaf.
LEMMA LeafAdded ==
  ASSUME NEW E, NEW A, NEW R, Treelike(E, A, R), NEW d \in A, NEW a \in Name, NEW n \in Inum, n \notin A,
         \A e \in E : ~(e[1] = d /\ e[2] = a)
  PROVE  Treelike(E \union {<<d, a, n>>}, A \union {n}, R)
<1> DEFINE E2 == E \union {<<d, a, n>>}
           A2 == A \union {n}
<1>1. E2 \subseteq A2 \X Name \X A2 /\ A2 \subseteq Inum /\ R \subseteq A2 /\ ROOT_DIR_INODE_NUM \in R
  BY DEF Treelike
<1>2. \A e, f \in E2 : e[1] = f[1] /\ e[2] = f[2] => e = f
  BY DEF Treelike
<1>3. \A e, f \in E2 : e[3] = f[3] => e = f
  BY DEF Treelike
<1>4. \A e \in E2 : e[3] \notin R
  BY DEF Treelike
<1>5. ASSUME NEW S \in SUBSET A2, R \subseteq S, \A e \in E2 : e[1] \in S => e[3] \in S
      PROVE  S = A2
  <2>1. S \ {n} \in SUBSET A /\ R \subseteq S \ {n}
    BY <1>5 DEF Treelike
  <2>2. \A e \in E : e[1] \in S \ {n} => e[3] \in S \ {n}
    BY <1>5 DEF Treelike
  <2>3. S \ {n} = A
    <3> DEFINE T == S \ {n}
    <3>1. T \in SUBSET A /\ R \subseteq T /\ \A e \in E : e[1] \in T => e[3] \in T
      BY <2>1, <2>2
    <3> HIDE DEF T
    <3>2. T = A
      BY <3>1, AllReached
    <3> QED
      BY <3>2 DEF T
  <2>4. n \in S
    <3>1. <<d, a, n>> \in E2 /\ d \in S
      BY <2>3
    <3>2. <<d, a, n>>[1] = d /\ <<d, a, n>>[3] = n
      OBVIOUS
    <3> QED
      BY <1>5, <3>1, <3>2
  <2> QED
    BY <2>3, <2>4
<1> HIDE DEF E2, A2
<1>6. Treelike(E2, A2, R)
  BY <1>1, <1>2, <1>3, <1>4, <1>5 DEF Treelike
<1> QED
  BY <1>6 DEF E2, A2

\* An inode is taken off with its name; what it led to are roots.
LEMMA StumpsLeft ==
  ASSUME NEW E, NEW A, NEW R, Treelike(E, A, R), NEW o \in E, o[1] # o[3]
  PROVE  LET out == {e \in E : e[1] = o[3]}
         IN  Treelike((E \ {o}) \ out, A \ {o[3]}, R \union {e[3] : e \in out})
<1> DEFINE out == {e \in E : e[1] = o[3]}
           E2  == (E \ {o}) \ out
           A2  == A \ {o[3]}
           R2  == R \union {e[3] : e \in out}
<1>1. E2 \subseteq A2 \X Name \X A2 /\ A2 \subseteq Inum
  BY DEF Treelike
<1>2. R2 \subseteq A2 /\ ROOT_DIR_INODE_NUM \in R2
  BY DEF Treelike
<1>3. \A e, f \in E2 : e[1] = f[1] /\ e[2] = f[2] => e = f
  BY DEF Treelike
<1>4. \A e, f \in E2 : e[3] = f[3] => e = f
  BY DEF Treelike
<1>5. \A e \in E2 : e[3] \notin R2
  BY DEF Treelike
<1>6. ASSUME NEW S \in SUBSET A2, R2 \subseteq S, \A e \in E2 : e[1] \in S => e[3] \in S
      PROVE  S = A2
  <2> DEFINE T == S \union {o[3]}
  <2>1. T \in SUBSET A /\ R \subseteq T
    BY <1>6 DEF Treelike
  <2>2. \A e \in E : e[1] \in T => e[3] \in T
    BY <1>6
  <2> HIDE DEF T
  <2>3. T = A
    BY <2>1, <2>2, AllReached
  <2> QED
    BY <2>3 DEF T
<1> HIDE DEF E2, A2, R2
<1>7. Treelike(E2, A2, R2)
  BY <1>1, <1>2, <1>3, <1>4, <1>5, <1>6 DEF Treelike
<1> QED
  BY <1>7 DEF E2, A2, R2

-----------------------------------------------------------------------------
(* Paths *)

\* The parts of a path.
LEMMA FrontOf ==
  ASSUME NEW p \in Seq(Name), p # << >>
  PROVE  /\ Len(p) \in Nat /\ Len(p) > 0 /\ Last(p) = p[Len(p)] /\ Last(p) \in Name
         /\ Front(p) \in Seq(Name) /\ Len(Front(p)) = Len(p) - 1
         /\ \A k \in 1 .. (Len(p) - 1) : Front(p)[k] = p[k]
<1>1. Len(p) \in Nat /\ Len(p) > 0
  OBVIOUS
<1> QED
  BY <1>1, DropLast DEF Front, Last

\* The last name of a path is in the directory that the rest leads to.
LEMMA PathUp ==
  ASSUME NEW E, NEW p \in Seq(Name), p # << >>, NEW n, LeadsTo(E, p, n)
  PROVE  \E d \in Inum : LeadsTo(E, Front(p), d) /\ <<d, Last(p), n>> \in E
<1>1. PICK f \in [0 .. Len(p) -> Inum] : Along(E, p, f) /\ f[Len(p)] = n
  BY DEF LeadsTo
<1> DEFINE q == Front(p)
           g == [k \in 0 .. Len(q) |-> f[k]]
<1>2. /\ Len(p) \in Nat /\ Len(p) > 0 /\ Last(p) = p[Len(p)]
      /\ q \in Seq(Name) /\ Len(q) = Len(p) - 1 /\ \A k \in 1 .. (Len(p) - 1) : q[k] = p[k]
  BY FrontOf
<1> HIDE DEF q
<1>3. g \in [0 .. Len(q) -> Inum] /\ g[0] = f[0] /\ g[Len(q)] = f[Len(p) - 1]
  BY <1>1, <1>2
<1>4. \A k \in 1 .. Len(q) : <<g[k - 1], q[k], g[k]>> \in E
  <2> TAKE k \in 1 .. Len(q)
  <2>1. k \in 1 .. Len(p) /\ g[k] = f[k] /\ g[k - 1] = f[k - 1] /\ q[k] = p[k]
    BY <1>2
  <2> QED
    BY <1>1, <2>1 DEF Along
<1> HIDE DEF g
<1>5. LeadsTo(E, q, g[Len(q)])
  BY <1>1, <1>3, <1>4 DEF LeadsTo, Along
<1>6. <<f[Len(p) - 1], Last(p), n>> \in E /\ f[Len(p) - 1] \in Inum
  BY <1>1, <1>2 DEF Along
<1> QED
  BY <1>3, <1>5, <1>6 DEF q

\* One name further.
LEMMA PathDown ==
  ASSUME NEW E, NEW p \in Seq(Name), p # << >>, NEW d, LeadsTo(E, Front(p), d),
         NEW n \in Inum, <<d, Last(p), n>> \in E
  PROVE  LeadsTo(E, p, n)
<1> DEFINE q == Front(p)
<1>1. /\ Len(p) \in Nat /\ Len(p) > 0 /\ Last(p) = p[Len(p)]
      /\ q \in Seq(Name) /\ Len(q) = Len(p) - 1 /\ \A k \in 1 .. (Len(p) - 1) : q[k] = p[k]
  BY FrontOf
<1> HIDE DEF q
<1>2. PICK f \in [0 .. Len(q) -> Inum] : Along(E, q, f) /\ f[Len(q)] = d
  BY DEF LeadsTo, q
<1> DEFINE g == [k \in 0 .. Len(p) |-> IF k = Len(p) THEN n ELSE f[k]]
<1>3. g \in [0 .. Len(p) -> Inum] /\ g[0] = f[0] /\ g[Len(p)] = n
  BY <1>1, <1>2
<1>4. ASSUME NEW k \in 1 .. Len(p) PROVE <<g[k - 1], p[k], g[k]>> \in E
  <2>1. CASE k = Len(p)
    <3>1. g[k - 1] = d /\ g[k] = n
      BY <1>1, <1>2, <2>1
    <3> QED
      BY <1>1, <2>1, <3>1
  <2>2. CASE k # Len(p)
    <3>1. k \in 1 .. Len(q) /\ g[k] = f[k] /\ g[k - 1] = f[k - 1] /\ q[k] = p[k]
      BY <1>1, <2>2
    <3> QED
      BY <1>2, <3>1 DEF Along
  <2> QED
    BY <2>1, <2>2
<1> HIDE DEF g
<1>5. Along(E, p, g)
  BY <1>2, <1>3, <1>4 DEF Along
<1> QED
  BY <1>3, <1>5 DEF LeadsTo

\* A path leads to what more names make it lead to.
LEMMA PathKept ==
  ASSUME NEW E, NEW F, NEW p \in Seq(Name), NEW f \in [0 .. Len(p) -> Inum], Along(E, p, f),
         \A k \in 1 .. Len(p) : <<f[k - 1], p[k], f[k]>> \in E => <<f[k - 1], p[k], f[k]>> \in F
  PROVE  LeadsTo(F, p, f[Len(p)])
  BY DEF LeadsTo, Along

\* The beginning of a path leads to where the path comes by.
LEMMA PathPart ==
  ASSUME NEW E, NEW p \in Seq(Name), NEW f \in [0 .. Len(p) -> Inum], Along(E, p, f),
         NEW m \in 0 .. Len(p)
  PROVE  SubSeq(p, 1, m) \in Seq(Name) /\ LeadsTo(E, SubSeq(p, 1, m), f[m])
<1> DEFINE q == SubSeq(p, 1, m)
           g == [k \in 0 .. m |-> f[k]]
<1>1. q \in Seq(Name) /\ Len(q) = m /\ \A k \in 1 .. m : q[k] = p[k]
  OBVIOUS
<1> HIDE DEF q
<1>2. g \in [0 .. m -> Inum] /\ g[0] = f[0] /\ g[m] = f[m]
  OBVIOUS
<1>3. \A k \in 1 .. m : <<g[k - 1], q[k], g[k]>> \in E
  <2> TAKE k \in 1 .. m
  <2>1. k \in 1 .. Len(p) /\ g[k] = f[k] /\ g[k - 1] = f[k - 1] /\ q[k] = p[k]
    BY <1>1
  <2> QED
    BY <2>1 DEF Along
<1> HIDE DEF g
<1>4. Along(E, q, g)
  BY <1>1, <1>2, <1>3 DEF Along
<1> QED
  BY <1>1, <1>2, <1>4 DEF LeadsTo, q

\* The path without a name leads to the root, and nowhere else.
LEMMA NoName ==
  ASSUME NEW E, NEW n, LeadsTo(E, << >>, n)
  PROVE  n = ROOT_DIR_INODE_NUM
  BY DEF LeadsTo, Along

\* The path without a name leads to the root.
LEMMA RootPath ==
  ASSUME NEW E
  PROVE  LeadsTo(E, << >>, ROOT_DIR_INODE_NUM)
<1>1. ROOT_DIR_INODE_NUM \in Inum
  BY NamespaceAssumption DEF Inum, ROOT_DIR_INODE_NUM
<1>2. Along(E, << >>, [k \in 0 .. 0 |-> ROOT_DIR_INODE_NUM])
  BY <1>1 DEF Along
<1> QED
  BY <1>1, <1>2 DEF LeadsTo

\* In a tree, one path leads to an inode.
LEMMA OnePath ==
  ASSUME NEW E, NEW A, NEW R, Treelike(E, A, R), NEW p \in Seq(Name), NEW q \in Seq(Name),
         NEW n, LeadsTo(E, p, n), LeadsTo(E, q, n)
  PROVE  p = q
<1> DEFINE Unique(s) == \A t \in Seq(Name), m \in Inum : LeadsTo(E, s, m) /\ LeadsTo(E, t, m) => s = t
           S == {k \in 0 .. Len(p) : \A s \in Seq(Name) : Len(s) = k => Unique(s)}
<1>1. 0 \in S
  <2>1. SUFFICES ASSUME NEW s \in Seq(Name), Len(s) = 0, NEW t \in Seq(Name), NEW m \in Inum,
                        LeadsTo(E, s, m), LeadsTo(E, t, m)
                 PROVE  s = t
    OBVIOUS
  <2>2. s = << >> /\ m = ROOT_DIR_INODE_NUM
    BY <2>1, NoName
  <2>3. CASE t # << >>
    <3>1. PICK d \in Inum : <<d, Last(t), m>> \in E
      BY <2>1, <2>3, PathUp
    <3>2. <<d, Last(t), m>>[3] = m
      OBVIOUS
    <3> QED
      BY <2>2, <3>1, <3>2 DEF Treelike
  <2> QED
    BY <2>2, <2>3
<1>2. ASSUME NEW k \in 0 .. (Len(p) - 1), k \in S PROVE k + 1 \in S
  <2>1. SUFFICES ASSUME NEW s \in Seq(Name), Len(s) = k + 1, NEW t \in Seq(Name), NEW m \in Inum,
                        LeadsTo(E, s, m), LeadsTo(E, t, m)
                 PROVE  s = t
    OBVIOUS
  <2>2. s # << >>
    BY <2>1
  <2>3. PICK d \in Inum : LeadsTo(E, Front(s), d) /\ <<d, Last(s), m>> \in E
    BY <2>1, <2>2, PathUp
  <2>4. m # ROOT_DIR_INODE_NUM
    <3>1. <<d, Last(s), m>>[3] = m
      OBVIOUS
    <3> QED
      BY <2>3, <3>1 DEF Treelike
  <2>5. t # << >>
    BY <2>1, <2>4, NoName
  <2>6. PICK c \in Inum : LeadsTo(E, Front(t), c) /\ <<c, Last(t), m>> \in E
    BY <2>1, <2>5, PathUp
  <2>7. c = d /\ Last(s) = Last(t)
    <3>1. <<d, Last(s), m>>[3] = <<c, Last(t), m>>[3]
      OBVIOUS
    <3>2. <<d, Last(s), m>> = <<c, Last(t), m>>
      <4>1. \A e, g \in E : e[3] = g[3] => e = g
        BY DEF Treelike
      <4> QED
        BY <2>3, <2>6, <3>1, <4>1
    <3> QED
      BY <3>2
  <2>8. /\ Len(s) \in Nat /\ Last(s) = s[Len(s)] /\ Front(s) \in Seq(Name) /\ Len(Front(s)) = Len(s) - 1
        /\ \A j \in 1 .. (Len(s) - 1) : Front(s)[j] = s[j]
    BY <2>2, FrontOf
  <2>9. /\ Len(t) \in Nat /\ Last(t) = t[Len(t)] /\ Front(t) \in Seq(Name) /\ Len(Front(t)) = Len(t) - 1
        /\ \A j \in 1 .. (Len(t) - 1) : Front(t)[j] = t[j]
    BY <2>5, FrontOf
  <2>10. Front(s) = Front(t)
    BY <1>2, <2>1, <2>3, <2>6, <2>7, <2>8, <2>9
  <2>11. Len(s) = Len(t)
    BY <2>8, <2>9, <2>10
  <2>12. ASSUME NEW j \in 1 .. Len(s) PROVE s[j] = t[j]
    <3>1. CASE j = Len(s)
      BY <2>7, <2>8, <2>9, <2>11, <3>1
    <3>2. CASE j # Len(s)
      <4>1. j \in 1 .. (Len(s) - 1) /\ j \in 1 .. (Len(t) - 1)
        BY <2>8, <2>11, <3>2
      <4> QED
        BY <2>8, <2>9, <2>10, <4>1
    <3> QED
      BY <3>1, <3>2
  <2> QED
    BY <2>11, <2>12
<1>3. Len(p) \in Nat /\ n \in Inum
  BY DEF LeadsTo
<1> HIDE DEF S
<1>4. \A k \in 0 .. Len(p) : k \in S
  BY <1>1, <1>2, <1>3, Induction
<1> QED
  BY <1>3, <1>4 DEF S

\* A path leads to one inode.
LEMMA OneEnd ==
  ASSUME NEW E, \A e, f \in E : e[1] = f[1] /\ e[2] = f[2] => e = f,
         NEW p \in Seq(Name), NEW n, NEW m, LeadsTo(E, p, n), LeadsTo(E, p, m)
  PROVE  n = m
<1>1. PICK f \in [0 .. Len(p) -> Inum] : Along(E, p, f) /\ f[Len(p)] = n
  BY DEF LeadsTo
<1>2. PICK g \in [0 .. Len(p) -> Inum] : Along(E, p, g) /\ g[Len(p)] = m
  BY DEF LeadsTo
<1> DEFINE S == {k \in 0 .. Len(p) : f[k] = g[k]}
<1>3. 0 \in S /\ Len(p) \in Nat
  BY <1>1, <1>2 DEF Along
<1>4. ASSUME NEW k \in 0 .. (Len(p) - 1), k \in S PROVE k + 1 \in S
  <2>1. k + 1 \in 1 .. Len(p) /\ (k + 1) - 1 = k
    BY <1>3
  <2>2. <<f[k], p[k + 1], f[k + 1]>> \in E /\ <<g[k], p[k + 1], g[k + 1]>> \in E
    BY <1>1, <1>2, <2>1 DEF Along
  <2>3. <<f[k], p[k + 1], f[k + 1]>> = <<g[k], p[k + 1], g[k + 1]>>
    <3>1. f[k] = g[k]
      BY <1>4
    <3> QED
      BY <2>2, <3>1
  <2> QED
    BY <2>1, <2>3
<1> HIDE DEF S
<1>5. \A k \in 0 .. Len(p) : k \in S
  BY <1>3, <1>4, Induction
<1> QED
  BY <1>1, <1>2, <1>3, <1>5 DEF S

\* A name that is not on the way of a path may be taken away.
LEMMA PathAround ==
  ASSUME NEW E, NEW A, NEW R, Treelike(E, A, R), NEW o \in E,
         NEW q \in Seq(Name), LeadsTo(E, q, o[3]), NEW p \in Seq(Name), NEW n, LeadsTo(E, p, n),
         ~IsPrefix(q, p)
  PROVE  LeadsTo(E \ {o}, p, n) /\ LeadsTo((E \ {o}) \ {e \in E : e[1] = o[3]}, p, n)
<1>1. PICK f \in [0 .. Len(p) -> Inum] : Along(E, p, f) /\ f[Len(p)] = n
  BY DEF LeadsTo
<1>2. ASSUME NEW k \in 0 .. Len(p) PROVE f[k] # o[3]
  <2>1. SUFFICES ASSUME f[k] = o[3] PROVE FALSE
    OBVIOUS
  <2>2. f[k] = o[3]
    BY <2>1
  <2>3. k \in 0 .. Len(p) /\ Len(p) \in Nat
    OBVIOUS
  <2>4. SubSeq(p, 1, k) \in Seq(Name) /\ LeadsTo(E, SubSeq(p, 1, k), f[k])
    BY <1>1, <2>3, PathPart
  <2>5. q = SubSeq(p, 1, k)
    BY <2>2, <2>4, OnePath
  <2>6. Len(q) = k /\ SubSeq(q, 1, k) = q
    BY <2>3, <2>5
  <2> QED
    BY <2>3, <2>5, <2>6 DEF IsPrefix
<1>3. ASSUME NEW k \in 1 .. Len(p)
      PROVE  <<f[k - 1], p[k], f[k]>> \in (E \ {o}) \ {e \in E : e[1] = o[3]}
  <2>1. k \in 0 .. Len(p) /\ k - 1 \in 0 .. Len(p)
    OBVIOUS
  <2>2. f[k - 1] # o[3] /\ f[k] # o[3]
    BY <1>2, <2>1
  <2>3. <<f[k - 1], p[k], f[k]>> \in E
    BY <1>1 DEF Along
  <2> QED
    BY <2>2, <2>3
<1>4. LeadsTo((E \ {o}) \ {e \in E : e[1] = o[3]}, p, f[Len(p)])
  BY <1>1, <1>3, PathKept
<1>5. LeadsTo(E \ {o}, p, f[Len(p)])
  BY <1>1, <1>3, PathKept
<1> QED
  BY <1>1, <1>4, <1>5

\* Without its last name a path leads nowhere.
LEMMA PathGone ==
  ASSUME NEW E, NEW A, NEW R, Treelike(E, A, R), NEW o \in E,
         NEW q \in Seq(Name), LeadsTo(E, q, o[3]), NEW n, LeadsTo(E \ {o}, q, n)
  PROVE  FALSE
<1>1. PICK f \in [0 .. Len(q) -> Inum] : Along(E \ {o}, q, f) /\ f[Len(q)] = n
  BY DEF LeadsTo
<1>2. Along(E, q, f)
  BY <1>1 DEF Along
<1>3. LeadsTo(E, q, n)
  BY <1>1, <1>2 DEF LeadsTo
<1>4. \A e, g \in E : e[1] = g[1] /\ e[2] = g[2] => e = g
  BY DEF Treelike
<1>5. n = o[3] /\ o[3] # ROOT_DIR_INODE_NUM
  BY <1>3, <1>4, OneEnd DEF Treelike
<1>6. q # << >>
  BY <1>5, NoName
<1>7. PICK d \in Inum : <<d, Last(q), n>> \in E \ {o}
  BY <1>6, PathUp
<1>8. <<d, Last(q), n>>[3] = o[3]
  BY <1>5
<1> QED
  BY <1>7, <1>8 DEF Treelike

\* An inode that gets another name, in a directory that is not below it.
LEMMA Moved ==
  ASSUME NEW E, NEW A, NEW R, Treelike(E, A, R), NEW o \in E, NEW d \in A, NEW b \in Name,
         \A e \in E : ~(e[1] = d /\ e[2] = b),
         NEW q \in Seq(Name), LeadsTo(E, q, d),
         NEW p \in Seq(Name), LeadsTo(E, p, o[3]), ~IsPrefix(p, q)
  PROVE  Treelike((E \union {<<d, b, o[3]>>}) \ {o}, A, R)
<1> DEFINE n   == o[3]
           new == <<d, b, n>>
           E2  == (E \union {new}) \ {o}
<1>1. new[1] = d /\ new[2] = b /\ new[3] = n /\ n \in A
  BY DEF Treelike
<1>2. E2 \subseteq A \X Name \X A /\ A \subseteq Inum /\ R \subseteq A /\ ROOT_DIR_INODE_NUM \in R
  BY DEF Treelike
<1>3. \A e, f \in E2 : e[1] = f[1] /\ e[2] = f[2] => e = f
  <2>1. \A e, f \in E : e[1] = f[1] /\ e[2] = f[2] => e = f
    BY DEF Treelike
  <2>2. \A e \in E2 : e # new => e \in E
    OBVIOUS
  <2> QED
    BY <1>1, <2>1, <2>2
<1>4. \A e, f \in E2 : e[3] = f[3] => e = f
  <2>1. \A e \in E : e[3] = n => e = o
    BY DEF Treelike
  <2> QED
    BY <1>1, <2>1 DEF Treelike
<1>5. \A e \in E2 : e[3] \notin R
  BY <1>1 DEF Treelike
<1>6. new \in E2 /\ new # o
  BY <1>1
<1>7. \A e \in E \ {o} : e \in E2
  OBVIOUS
<1>8. LeadsTo(E \ {o}, q, d)
  BY PathAround
<1>9. d \in Inum
  BY DEF Treelike
<1> HIDE DEF E2, n, new
<1>10. ASSUME NEW S \in SUBSET A, R \subseteq S, \A e \in E2 : e[1] \in S => e[3] \in S
      PROVE  S = A
  <2>1. PICK f \in [0 .. Len(q) -> Inum] : Along(E \ {o}, q, f) /\ f[Len(q)] = d
    BY <1>8 DEF LeadsTo
  <2> DEFINE K == {k \in 0 .. Len(q) : f[k] \in S}
  <2>2. 0 \in K /\ Len(q) \in Nat
    BY <1>2, <1>10, <2>1 DEF Along
  <2>3. ASSUME NEW k \in 0 .. (Len(q) - 1), k \in K PROVE k + 1 \in K
    <3>1. k + 1 \in 1 .. Len(q) /\ (k + 1) - 1 = k
      BY <2>2
    <3>2. <<f[k], q[k + 1], f[k + 1]>> \in E2
      BY <1>7, <2>1, <3>1 DEF Along
    <3>3. <<f[k], q[k + 1], f[k + 1]>>[1] \in S
      BY <2>3
    <3>4. f[k + 1] \in S
      BY <1>10, <3>2, <3>3
    <3> QED
      BY <3>1, <3>4
  <2> HIDE DEF K
  <2>4. \A k \in 0 .. Len(q) : k \in K
    BY <2>2, <2>3, Induction
  <2>5. d \in S
    BY <2>1, <2>2, <2>4 DEF K
  <2>6. n \in S
    BY <1>1, <1>6, <1>10, <2>5
  <2>7. \A e \in E : e[1] \in S => e[3] \in S
    BY <1>7, <1>10, <2>6 DEF n
  <2> QED
    BY <1>10, <2>7, AllReached
<1>11. Treelike(E2, A, R)
  BY <1>2, <1>3, <1>4, <1>5, <1>10 DEF Treelike
<1> QED
  BY <1>11 DEF E2, new, n

-----------------------------------------------------------------------------
(* What k names lead to at most *)

\* One name further along the links L.
Further(L, S) == S \union {l[3] : l \in {m \in L : m[1] \in S}}

Furthers(L, reach, N) == \A k \in 1 .. N : reach[k] = Further(L, reach[k - 1])

\* As many names as there are inodes lead everywhere.
LEMMA ReachesAll ==
  ASSUME NEW E, NEW A, NEW R, Treelike(E, A, R), NEW L,
         \A e \in E : \E l \in L : l[1] = e[1] /\ l[3] = e[3],
         \A l \in L : \E e \in E : l[1] = e[1] /\ l[3] = e[3],
         NEW reach, reach[0] = R, Furthers(L, reach, INODES)
  PROVE  reach[INODES] = A
<1> DEFINE Closed(S) == \A e \in E : e[1] \in S => e[3] \in S
           K == {k \in 0 .. INODES :
                   /\ reach[k] \subseteq A /\ R \subseteq reach[k]
                   /\ Closed(reach[k]) \/ Cardinality(reach[k]) > k}
<1>1. INODES \in Nat /\ A \subseteq Inum /\ Inum = 0 .. (INODES - 1)
      /\ R \subseteq A /\ ROOT_DIR_INODE_NUM \in R
  BY NamespaceAssumption DEF Treelike, Inum
<1>2. IsFiniteSet(A) /\ Cardinality(A) <= INODES /\ Cardinality(A) \in Nat
  <2>1. IsFiniteSet(Inum) /\ Cardinality(Inum) = INODES
    <3>1. IsFiniteSet(0 .. (INODES - 1))
          /\ Cardinality(0 .. (INODES - 1)) = IF 0 > INODES - 1 THEN 0 ELSE INODES - 1 - 0 + 1
      BY <1>1, FS_Interval
    <3> QED
      BY <1>1, <3>1
  <2>2. A \in SUBSET Inum
    BY <1>1
  <2> HIDE DEF K
  <2>3. IsFiniteSet(A) /\ Cardinality(A) <= Cardinality(Inum)
    BY <2>1, <2>2, FS_Subset
  <2> QED
    BY <2>1, <2>3, FS_CardinalityType
<1>3. 0 \in K
  <2>1. IsFiniteSet(R) /\ R # {}
    BY <1>1, <1>2, FS_Subset
  <2>2. 0 \in 0 .. INODES /\ reach[0] \subseteq A /\ R \subseteq reach[0]
    BY <1>1
  <2>3. Cardinality(reach[0]) > 0
    BY <2>1, FS_EmptySet, FS_CardinalityType
  <2> QED
    BY <2>2, <2>3
<1>4. ASSUME NEW k \in 0 .. (INODES - 1), k \in K PROVE k + 1 \in K
  <2>1. k + 1 \in 1 .. INODES /\ (k + 1) - 1 = k /\ k \in Nat
    BY <1>1
  <2>2. reach[k + 1] = Further(L, reach[k])
    BY <2>1 DEF Furthers
  <2>3. \A n : n \in reach[k + 1] <=> n \in reach[k] \/ \E e \in E : e[1] \in reach[k] /\ e[3] = n
    BY <2>2 DEF Further
  <2>4. reach[k + 1] \subseteq A /\ R \subseteq reach[k + 1] /\ reach[k] \subseteq reach[k + 1]
    BY <1>4, <2>3 DEF Treelike
  <2>5. CASE Closed(reach[k])
    <3>1. \A n : n \in reach[k + 1] <=> n \in reach[k]
      BY <2>3, <2>5
    <3>2. reach[k + 1] = reach[k]
      BY <3>1
    <3> QED
      BY <2>1, <2>4, <2>5, <3>2
  <2>6. CASE ~Closed(reach[k])
    <3>1. PICK e \in E : e[1] \in reach[k] /\ e[3] \notin reach[k]
      BY <2>6
    <3>2. e[3] \in reach[k + 1]
      BY <2>3, <3>1
    <3>3. IsFiniteSet(reach[k + 1]) /\ IsFiniteSet(reach[k])
      BY <1>2, <2>4, FS_Subset
    <3>4. reach[k] \in SUBSET reach[k + 1] /\ reach[k] # reach[k + 1]
      BY <2>4, <3>1, <3>2
    <3>5. Cardinality(reach[k]) > k
      BY <1>4, <2>6
    <3> HIDE DEF K
    <3>6. Cardinality(reach[k]) \in Nat /\ Cardinality(reach[k + 1]) \in Nat
      BY <3>3, FS_CardinalityType
    <3>7. /\ Cardinality(reach[k]) <= Cardinality(reach[k + 1])
          /\ Cardinality(reach[k]) # Cardinality(reach[k + 1])
      BY <3>3, <3>4, FS_Subset
    <3>8. Cardinality(reach[k + 1]) > k + 1
      BY <2>1, <3>5, <3>6, <3>7
    <3> USE DEF K
    <3> QED
      BY <2>1, <2>4, <3>8
  <2> QED
    BY <2>5, <2>6
<1> HIDE DEF K
<1>5. \A k \in 0 .. INODES : k \in K
  BY <1>1, <1>3, <1>4, Induction
<1>6. INODES \in K
  BY <1>1, <1>5
<1>7. /\ reach[INODES] \subseteq A /\ R \subseteq reach[INODES]
      /\ Closed(reach[INODES]) \/ Cardinality(reach[INODES]) > INODES
  BY <1>6 DEF K
<1>8. Cardinality(reach[INODES]) <= Cardinality(A) /\ Cardinality(reach[INODES]) \in Nat
  BY <1>2, <1>7, FS_Subset, FS_CardinalityType
<1>9. Closed(reach[INODES])
  BY <1>1, <1>2, <1>7, <1>8
<1> QED
  BY <1>7, <1>9, AllReached

-----------------------------------------------------------------------------
(* Directories and their entries *)

Node == [is_allocated : BOOLEAN, dir : BOOLEAN, linkCount : Int, filesCount : Int, blocks : Seq(Block),
         addresses : SUBSET Block]

\* The entries of a directory whose inode is node, when the blocks are bk.
Holds(node, bk) ==
  {e \in Entry : \E b \in Range(node.blocks) : \E k \in 1 .. Len(bk[b]) : bk[b][k] = e}

\* No two of them have the same name.
OneName(node, bk) ==
  \A b, c \in Range(node.blocks) : \A j \in 1 .. Len(bk[b]), k \in 1 .. Len(bk[c]) :
    bk[b][j].name = bk[c][k].name => b = c /\ j = k

\* A directory has no block twice, no name twice, and counts its entries.
Counts(node, bk) ==
  /\ Distinct(node.blocks) /\ OneName(node, bk)
  /\ IsFiniteSet(Holds(node, bk)) /\ node.filesCount = Cardinality(Holds(node, bk))

\* Neither entries nor the addresses of entries.
NoBlocks(node) == node.blocks = << >> /\ node.addresses = {}

\* The inodes tab and the blocks bk fit each other, and the blocks u are those
\* of the directories, each of one.
Fits(tab, bk, u) ==
  /\ tab \in [Inum -> Node] /\ bk \in [Block -> Seq(Entry)]
  /\ \A n \in Inum : (tab[n].is_allocated /\ tab[n].dir) \/ NoBlocks(tab[n])
  /\ \A n \in Inum : Counts(tab[n], bk)
  /\ \A n, m \in Inum : n # m => Owns(tab[n]) \intersect Owns(tab[m]) = {}
  /\ u = UNION {Owns(tab[n]) : n \in Inum}

\* The names, without "." and "..".
Edges(tab, bk) ==
  {e \in Inum \X Name \X (Inum \union {-1}) : [name |-> e[2], inum |-> e[3]] \in Holds(tab[e[1]], bk)}

Alloc(tab) == {n \in Inum : tab[n].is_allocated}

\* The inodes, but for those half made, are as a finished creation leaves them; the
\* directories B have no "." and "..".
Finished(tab, bk, half, B) ==
  /\ tab[ROOT_DIR_INODE_NUM].is_allocated /\ tab[ROOT_DIR_INODE_NUM].dir
  /\ \A n \in Inum \ half : tab[n].is_allocated =>
       /\ n # ROOT_DIR_INODE_NUM => tab[n].linkCount = 1
       /\ tab[n].dir /\ n \notin B => /\ [name |-> Dot, inum |-> n] \in Holds(tab[n], bk)
                                     /\ \E p \in Inum : [name |-> DotDot, inum |-> p] \in Holds(tab[n], bk)

Sound(tab, bk, u, half, B, R) ==
  Fits(tab, bk, u) /\ Finished(tab, bk, half, B) /\ Treelike(Edges(tab, bk), Alloc(tab), R)

\* The blocks of directories, apart from those that are lost.
Held == used \ lost

\* What is lost is still allocated.
Accounts == lost \subseteq used /\ used \subseteq Block

\* The directories that no name leads to.
Roots == {ROOT_DIR_INODE_NUM} \union stranded

\* The inodes that the code sets up have the type.
LEMMA EmptyNodes == Free \in Node /\ EmptyDir \in Node
<1>1. << >> \in Seq(Block)
  OBVIOUS
<1>2. Free \in Node
  BY <1>1 DEF Free, Node
<1>3. EmptyDir \in Node
  <2> DEFINE one == [Free EXCEPT !.is_allocated = TRUE]
             two == [one EXCEPT !.dir = TRUE]
  <2>1. one \in Node
    BY <1>2 DEF Node
  <2> HIDE DEF one
  <2>2. two \in Node
    BY <2>1 DEF Node
  <2> HIDE DEF two
  <2>3. [two EXCEPT !.linkCount = 1] \in Node
    BY <2>2 DEF Node
  <2> QED
    BY <2>3 DEF one, two, EmptyDir
<1> QED
  BY <1>2, <1>3

-----------------------------------------------------------------------------
(* One directory *)

\* With the blocks bk the directory holds H, in order.
Consists(node, bk, H) ==
  node \in Node /\ bk \in [Block -> Seq(Entry)] /\ Counts(node, bk) /\ Holds(node, bk) = H

\* The other directories stay as they are.
OthersKept(d, tab, bk, tab2, bk2) ==
  \A m \in Inum \ {d} : tab2[m] = tab[m] /\ Holds(tab2[m], bk2) = Holds(tab[m], bk)

\* The elements of a sequence.
LEMMA RangeOf ==
  ASSUME NEW S, NEW s \in Seq(S)
  PROVE  /\ Range(s) \subseteq S /\ \A x : x \in Range(s) <=> \E k \in 1 .. Len(s) : s[k] = x
         /\ \A x \in S : Range(Append(s, x)) = Range(s) \union {x}
         /\ Range(<< >>) = {}
<1>1. Range(s) \subseteq S /\ \A x : x \in Range(s) <=> \E k \in 1 .. Len(s) : s[k] = x
  BY DEF Range
<1>2. ASSUME NEW x \in S PROVE Range(Append(s, x)) = Range(s) \union {x}
  <2> DEFINE t == Append(s, x)
  <2>1. t \in Seq(S) /\ Len(t) = Len(s) + 1 /\ (\A k \in 1 .. Len(s) : t[k] = s[k]) /\ t[Len(s) + 1] = x
    BY AddLast
  <2>2. Len(s) \in Nat /\ DOMAIN t = 1 .. Len(t) /\ DOMAIN s = 1 .. Len(s)
    BY <2>1
  <2> HIDE DEF t
  <2>3. Range(t) = Range(s) \union {x}
    BY <2>1, <2>2 DEF Range
  <2> QED
    BY <2>3 DEF t
<1>3. Range(<< >>) = {}
  BY DEF Range
<1> QED
  BY <1>1, <1>2, <1>3

\* The sequence without its element j.
LEMMA RemovedAt ==
  ASSUME NEW S, NEW s \in Seq(S), NEW j \in 1 .. Len(s)
  PROVE  /\ RemoveAt(s, j) \in Seq(S) /\ Len(RemoveAt(s, j)) = Len(s) - 1
         /\ \A k \in 1 .. (Len(s) - 1) : RemoveAt(s, j)[k] = IF k < j THEN s[k] ELSE s[k + 1]
<1> DEFINE a == SubSeq(s, 1, j - 1)
           c == SubSeq(s, j + 1, Len(s))
<1>1. Len(s) \in Nat /\ j \in Nat /\ \A k \in 1 .. Len(s) : s[k] \in S
  OBVIOUS
<1>2. a \in Seq(S) /\ Len(a) = j - 1 /\ \A k \in 1 .. (j - 1) : a[k] = s[k]
  OBVIOUS
<1>3. c \in Seq(S) /\ Len(c) = Len(s) - j /\ \A k \in 1 .. (Len(s) - j) : c[k] = s[j + k]
  OBVIOUS
<1> HIDE DEF a, c
<1>4. /\ a \o c \in Seq(S) /\ Len(a \o c) = Len(s) - 1
      /\ \A k \in 1 .. (Len(s) - 1) : (a \o c)[k] = IF k <= j - 1 THEN a[k] ELSE c[k - (j - 1)]
  <2>1. /\ a \o c \in Seq(S) /\ Len(a \o c) = Len(a) + Len(c)
        /\ \A k \in 1 .. (Len(a) + Len(c)) : (a \o c)[k] = IF k <= Len(a) THEN a[k] ELSE c[k - Len(a)]
    BY <1>2, <1>3, ConcatProperties
  <2>2. Len(a) + Len(c) = Len(s) - 1
    BY <1>1, <1>2, <1>3
  <2> QED
    BY <1>2, <2>1, <2>2
<1>5. ASSUME NEW k \in 1 .. (Len(s) - 1) PROVE (a \o c)[k] = IF k < j THEN s[k] ELSE s[k + 1]
  <2>1. CASE k < j
    <3>1. k <= j - 1 /\ k \in 1 .. (j - 1)
      BY <1>1, <2>1
    <3> QED
      BY <1>2, <1>4, <2>1, <3>1
  <2>2. CASE ~(k < j)
    <3>1. ~(k <= j - 1) /\ k - (j - 1) \in 1 .. (Len(s) - j) /\ j + (k - (j - 1)) = k + 1
      BY <1>1, <2>2
    <3> QED
      BY <1>3, <1>4, <2>2, <3>1
  <2> QED
    BY <2>1, <2>2
<1> QED
  BY <1>4, <1>5 DEF RemoveAt, a, c

\* One more entry in a block of the directory.
LEMMA EntryAppended ==
  ASSUME NEW node \in Node, NEW bk \in [Block -> Seq(Entry)], Counts(node, bk),
         NEW b \in Range(node.blocks), NEW e \in Entry, \A f \in Holds(node, bk) : f.name # e.name
  PROVE  LET node2 == [node EXCEPT !.filesCount = @ + 1]
             bk2   == [bk EXCEPT ![b] = Append(@, e)]
         IN  Consists(node2, bk2, Holds(node, bk) \union {e})
<1> DEFINE node2 == [node EXCEPT !.filesCount = @ + 1]
           bk2   == [bk EXCEPT ![b] = Append(@, e)]
           R     == Range(node.blocks)
<1>1. node2 \in Node /\ node2.blocks = node.blocks /\ node2.filesCount = node.filesCount + 1
  <2>1. node.filesCount + 1 \in Int
    BY DEF Node
  <2> QED
    BY <2>1 DEF Node
<1>2. R \subseteq Block /\ b \in Block
  BY RangeOf DEF Node
<1>3. /\ Append(bk[b], e) \in Seq(Entry) /\ Len(Append(bk[b], e)) = Len(bk[b]) + 1
      /\ \A k \in 1 .. Len(bk[b]) : Append(bk[b], e)[k] = bk[b][k]
      /\ Append(bk[b], e)[Len(bk[b]) + 1] = e
      /\ Len(bk[b]) \in Nat
  <2>1. bk[b] \in Seq(Entry)
    BY <1>2
  <2> QED
    BY <2>1, AddLast
<1>4. /\ bk2 \in [Block -> Seq(Entry)] /\ bk2[b] = Append(bk[b], e)
      /\ \A c \in Block \ {b} : bk2[c] = bk[c]
  BY <1>2, <1>3
<1> HIDE DEF bk2, node2
<1>5. /\ \A c \in R : \A k \in 1 .. Len(bk2[c]) :
           (k \in 1 .. Len(bk[c]) /\ bk2[c][k] = bk[c][k]) \/ (c = b /\ k = Len(bk[b]) + 1 /\ bk2[c][k] = e)
      /\ \A c \in R : \A k \in 1 .. Len(bk[c]) : k \in 1 .. Len(bk2[c]) /\ bk2[c][k] = bk[c][k]
      /\ Len(bk[b]) + 1 \in 1 .. Len(bk2[b]) /\ bk2[b][Len(bk[b]) + 1] = e
  <2>1. /\ \A k \in 1 .. Len(bk2[b]) :
             (k \in 1 .. Len(bk[b]) /\ bk2[b][k] = bk[b][k]) \/ (k = Len(bk[b]) + 1 /\ bk2[b][k] = e)
        /\ \A k \in 1 .. Len(bk[b]) : k \in 1 .. Len(bk2[b]) /\ bk2[b][k] = bk[b][k]
        /\ Len(bk[b]) + 1 \in 1 .. Len(bk2[b]) /\ bk2[b][Len(bk[b]) + 1] = e
    BY <1>3, <1>4
  <2>2. \A c \in R : c # b => bk2[c] = bk[c]
    BY <1>2, <1>4
  <2> QED
    BY <2>1, <2>2
<1>6. \A c \in R : \A k \in 1 .. Len(bk[c]) : bk[c][k] \in Holds(node, bk)
  BY <1>2 DEF Holds
<1>7. Holds(node2, bk2) = Holds(node, bk) \union {e}
  <2>1. ASSUME NEW x \in Holds(node2, bk2) PROVE x \in Holds(node, bk) \union {e}
    <3>1. PICK c \in R : \E k \in 1 .. Len(bk2[c]) : bk2[c][k] = x
      BY <1>1 DEF Holds
    <3>2. PICK k \in 1 .. Len(bk2[c]) : bk2[c][k] = x
      BY <3>1
    <3>3. (k \in 1 .. Len(bk[c]) /\ x = bk[c][k]) \/ x = e
      BY <1>5, <3>2
    <3> QED
      BY <1>6, <3>3
  <2>2. ASSUME NEW x \in Holds(node, bk) PROVE x \in Holds(node2, bk2)
    <3>1. PICK c \in R : \E k \in 1 .. Len(bk[c]) : bk[c][k] = x
      BY DEF Holds
    <3>2. PICK k \in 1 .. Len(bk[c]) : bk[c][k] = x
      BY <3>1
    <3>3. k \in 1 .. Len(bk2[c]) /\ bk2[c][k] = x
      BY <1>5, <3>2
    <3>4. x \in Entry
      BY DEF Holds
    <3> QED
      BY <1>1, <3>3, <3>4 DEF Holds
  <2>3. e \in Holds(node2, bk2)
    BY <1>1, <1>5 DEF Holds
  <2> QED
    BY <2>1, <2>2, <2>3
<1>8. OneName(node2, bk2)
  <2>1. SUFFICES ASSUME NEW c \in R, NEW d \in R,
                        NEW j \in 1 .. Len(bk2[c]), NEW k \in 1 .. Len(bk2[d]),
                        bk2[c][j].name = bk2[d][k].name
                 PROVE  c = d /\ j = k
    BY <1>1 DEF OneName
  <2>2. (j \in 1 .. Len(bk[c]) /\ bk2[c][j] = bk[c][j]) \/ (c = b /\ j = Len(bk[b]) + 1 /\ bk2[c][j] = e)
    BY <1>5
  <2>3. (k \in 1 .. Len(bk[d]) /\ bk2[d][k] = bk[d][k]) \/ (d = b /\ k = Len(bk[b]) + 1 /\ bk2[d][k] = e)
    BY <1>5
  <2>4. /\ j \in 1 .. Len(bk[c]) => bk[c][j] \in Holds(node, bk)
        /\ k \in 1 .. Len(bk[d]) => bk[d][k] \in Holds(node, bk)
    BY <1>6
  <2>5. OneName(node, bk)
    BY DEF Counts
  <2>6. CASE /\ j \in 1 .. Len(bk[c]) /\ bk2[c][j] = bk[c][j]
             /\ k \in 1 .. Len(bk[d]) /\ bk2[d][k] = bk[d][k]
    BY <2>1, <2>6, <2>5 DEF OneName
  <2>7. CASE j \in 1 .. Len(bk[c]) /\ bk2[c][j] = bk[c][j] /\ bk2[d][k] = e
    BY <2>1, <2>4, <2>7
  <2>8. CASE bk2[c][j] = e /\ k \in 1 .. Len(bk[d]) /\ bk2[d][k] = bk[d][k]
    BY <2>1, <2>4, <2>8
  <2>9. CASE c = b /\ j = Len(bk[b]) + 1 /\ d = b /\ k = Len(bk[b]) + 1
    BY <2>9
  <2> QED
    BY <2>2, <2>3, <2>6, <2>7, <2>8, <2>9
<1>9. /\ IsFiniteSet(Holds(node2, bk2)) /\ node2.filesCount = Cardinality(Holds(node2, bk2))
  <2>1. e \notin Holds(node, bk)
    OBVIOUS
  <2> QED
    BY <1>1, <1>7, <2>1, FS_AddElement DEF Counts
<1>10. Counts(node2, bk2)
  BY <1>1, <1>8, <1>9 DEF Counts
<1> QED
  BY <1>1, <1>4, <1>7, <1>10 DEF Consists, node2, bk2

\* The directory with one more block, for one entry.
Opened(node, b, A) == [node EXCEPT !.filesCount = @ + 1, !.blocks = Append(@, b), !.addresses = A]

OpenedBlocks(bk, b, e) == [bk EXCEPT ![b] = <<e>>]

\* One more block, with one entry.
LEMMA BlockAppended ==
  ASSUME NEW node \in Node, NEW bk \in [Block -> Seq(Entry)], Counts(node, bk),
         NEW b \in Block \ Range(node.blocks), NEW A, A \subseteq Block, NEW e \in Entry,
         \A f \in Holds(node, bk) : f.name # e.name
  PROVE  Consists(Opened(node, b, A), OpenedBlocks(bk, b, e), Holds(node, bk) \union {e})
<1> DEFINE node2 == Opened(node, b, A)
           bk2   == OpenedBlocks(bk, b, e)
           R     == Range(node.blocks)
           s     == node.blocks
<1>1. /\ s \in Seq(Block) /\ Append(s, b) \in Seq(Block) /\ Len(s) \in Nat
      /\ Len(Append(s, b)) = Len(s) + 1 /\ Append(s, b)[Len(s) + 1] = b
      /\ \A k \in 1 .. Len(s) : Append(s, b)[k] = s[k] /\ s[k] \in R
      /\ R \subseteq Block /\ Range(Append(s, b)) = R \union {b}
  <2>1. s \in Seq(Block)
    BY DEF Node
  <2> QED
    BY <2>1, RangeOf, AddLast
<1>2. node2 \in Node /\ node2.blocks = Append(s, b) /\ node2.filesCount = node.filesCount + 1
  <2>1. node.filesCount + 1 \in Int
    BY DEF Node
  <2> QED
    BY <1>1, <2>1 DEF Node, Opened
<1>3. /\ bk2 \in [Block -> Seq(Entry)] /\ bk2[b] = <<e>> /\ Len(bk2[b]) = 1 /\ bk2[b][1] = e
      /\ \A c \in R : bk2[c] = bk[c]
  BY <1>1 DEF OpenedBlocks
<1> HIDE DEF node2, bk2
<1>4. Distinct(node2.blocks)
  <2>1. SUFFICES ASSUME NEW j \in 1 .. (Len(s) + 1), NEW k \in 1 .. (Len(s) + 1),
                        Append(s, b)[j] = Append(s, b)[k]
                 PROVE  j = k
    BY <1>1, <1>2 DEF Distinct
  <2>2. (j \in 1 .. Len(s) \/ j = Len(s) + 1) /\ (k \in 1 .. Len(s) \/ k = Len(s) + 1)
    BY <1>1
  <2>3. \A i \in 1 .. Len(s) : s[i] # b
    BY <1>1
  <2>4. Distinct(s)
    BY DEF Counts
  <2> QED
    BY <1>1, <2>1, <2>2, <2>3, <2>4 DEF Distinct
<1>5. \A c \in R : \A k \in 1 .. Len(bk[c]) : bk[c][k] \in Holds(node, bk)
  BY <1>1 DEF Holds
<1>6. Holds(node2, bk2) = Holds(node, bk) \union {e}
  <2>1. Range(node2.blocks) = R \union {b}
    BY <1>1, <1>2
  <2>2. ASSUME NEW x \in Entry
        PROVE  x \in Holds(node2, bk2) <=> x \in Holds(node, bk) \/ \E k \in 1 .. Len(bk2[b]) : bk2[b][k] = x
    BY <1>3, <2>1 DEF Holds
  <2>3. ASSUME NEW x PROVE (\E k \in 1 .. Len(bk2[b]) : bk2[b][k] = x) <=> x = e
    BY <1>3
  <2>4. Holds(node2, bk2) \subseteq Entry /\ Holds(node, bk) \subseteq Entry
    BY DEF Holds
  <2>5. ASSUME NEW x \in Entry PROVE x \in Holds(node2, bk2) <=> x \in Holds(node, bk) \/ x = e
    BY <2>2, <2>3
  <2> QED
    BY <2>4, <2>5
<1>7. OneName(node2, bk2)
  <2>1. SUFFICES ASSUME NEW c \in R \union {b}, NEW d \in R \union {b},
                        NEW j \in 1 .. Len(bk2[c]), NEW k \in 1 .. Len(bk2[d]),
                        bk2[c][j].name = bk2[d][k].name
                 PROVE  c = d /\ j = k
    BY <1>1, <1>2 DEF OneName
  <2>2. \A i \in 1 .. Len(bk2[b]) : i = 1 /\ bk2[b][i] = e
    BY <1>3
  <2>3. (c = b => j = 1 /\ bk2[c][j] = e) /\ (d = b => k = 1 /\ bk2[d][k] = e)
    BY <2>2
  <2>4. c # b => c \in R /\ bk2[c] = bk[c] /\ bk2[c][j] \in Holds(node, bk)
    BY <1>3, <1>5
  <2>5. d # b => d \in R /\ bk2[d] = bk[d] /\ bk2[d][k] \in Holds(node, bk)
    BY <1>3, <1>5
  <2>6. OneName(node, bk)
    BY DEF Counts
  <2> QED
    BY <2>1, <2>3, <2>4, <2>5, <2>6 DEF OneName
<1>8. /\ IsFiniteSet(Holds(node2, bk2)) /\ node2.filesCount = Cardinality(Holds(node2, bk2))
  <2>1. e \notin Holds(node, bk)
    OBVIOUS
  <2> QED
    BY <1>2, <1>6, <2>1, FS_AddElement DEF Counts
<1>9. Counts(node2, bk2)
  BY <1>4, <1>7, <1>8 DEF Counts
<1> QED
  BY <1>1, <1>2, <1>3, <1>6, <1>9 DEF Consists, node2, bk2

\* One entry less.
LEMMA EntryRemoved ==
  ASSUME NEW node \in Node, NEW bk \in [Block -> Seq(Entry)], Counts(node, bk),
         NEW b \in Range(node.blocks), NEW j \in 1 .. Len(bk[b])
  PROVE  LET node2 == [node EXCEPT !.filesCount = @ - 1]
             bk2   == [bk EXCEPT ![b] = RemoveAt(@, j)]
         IN  Consists(node2, bk2, Holds(node, bk) \ {bk[b][j]})
<1> DEFINE node2 == [node EXCEPT !.filesCount = @ - 1]
           bk2   == [bk EXCEPT ![b] = RemoveAt(@, j)]
           R     == Range(node.blocks)
<1>1. node2 \in Node /\ node2.blocks = node.blocks /\ node2.filesCount = node.filesCount - 1
  <2>1. node.filesCount - 1 \in Int
    BY DEF Node
  <2> QED
    BY <2>1 DEF Node
<1>2. R \subseteq Block /\ b \in Block
  BY RangeOf DEF Node
<1>3. /\ RemoveAt(bk[b], j) \in Seq(Entry) /\ Len(RemoveAt(bk[b], j)) = Len(bk[b]) - 1
      /\ \A k \in 1 .. (Len(bk[b]) - 1) : RemoveAt(bk[b], j)[k] = IF k < j THEN bk[b][k] ELSE bk[b][k + 1]
      /\ Len(bk[b]) \in Nat
  <2> DEFINE s == bk[b]
  <2>1. s \in Seq(Entry) /\ j \in 1 .. Len(s)
    BY <1>2
  <2> HIDE DEF s
  <2>2. /\ RemoveAt(s, j) \in Seq(Entry) /\ Len(RemoveAt(s, j)) = Len(s) - 1
        /\ \A k \in 1 .. (Len(s) - 1) : RemoveAt(s, j)[k] = IF k < j THEN s[k] ELSE s[k + 1]
    BY <2>1, RemovedAt
  <2>3. Len(s) \in Nat
    BY <2>1
  <2> QED
    BY <2>2, <2>3 DEF s
<1>4. /\ bk2 \in [Block -> Seq(Entry)] /\ bk2[b] = RemoveAt(bk[b], j)
      /\ \A c \in R : c # b => bk2[c] = bk[c]
  BY <1>2, <1>3
<1> DEFINE Old(c, k) == IF c = b /\ k >= j THEN k + 1 ELSE k
<1> HIDE DEF bk2, node2
<1>5. ASSUME NEW c \in R, NEW k \in 1 .. Len(bk2[c])
      PROVE  Old(c, k) \in 1 .. Len(bk[c]) /\ bk2[c][k] = bk[c][Old(c, k)] /\ ~(c = b /\ Old(c, k) = j)
  <2>1. ASSUME NEW i \in 1 .. Len(bk2[b]) 
        PROVE  /\ i \in Int /\ j \in Int /\ i \in 1 .. Len(bk[b]) /\ i + 1 \in 1 .. Len(bk[b])
               /\ bk2[b][i] = IF i < j THEN bk[b][i] ELSE bk[b][i + 1]
    BY <1>3, <1>4
  <2>2. CASE c = b /\ k < j
    BY <2>1, <2>2
  <2>3. CASE c = b /\ ~(k < j)
    <3>1. k \in 1 .. Len(bk2[b])
      BY <2>3
    <3>2. k \in Int /\ j \in Int /\ k + 1 \in 1 .. Len(bk[b]) /\ bk2[b][k] = bk[b][k + 1]
      BY <2>1, <2>3, <3>1
    <3> QED
      BY <2>3, <3>2
  <2>4. CASE c # b
    BY <1>4, <2>4
  <2> QED
    BY <2>2, <2>3, <2>4
<1>6. ASSUME NEW c \in R, NEW k \in 1 .. Len(bk[c]), ~(c = b /\ k = j)
      PROVE  \E i \in 1 .. Len(bk2[c]) : bk2[c][i] = bk[c][k]
  <2>1. CASE c = b /\ k < j
    <3>1. k \in 1 .. (Len(bk[b]) - 1)
      BY <1>3, <2>1
    <3>2. k \in 1 .. Len(bk2[b]) /\ bk2[b][k] = bk[b][k]
      BY <1>3, <1>4, <2>1, <3>1
    <3> QED
      BY <2>1, <3>2
  <2>2. CASE c = b /\ k > j
    <3>1. k \in 1 .. Len(bk[b])
      BY <2>2
    <3>2. k - 1 \in 1 .. Len(bk2[b]) /\ bk2[b][k - 1] = bk[b][(k - 1) + 1] /\ (k - 1) + 1 = k
      BY <1>3, <1>4, <2>2, <3>1
    <3>3. k - 1 \in 1 .. Len(bk2[c]) /\ bk2[c][k - 1] = bk[c][k]
      BY <2>2, <3>2
    <3> QED
      BY <3>3
  <2>3. CASE c # b
    BY <1>4, <2>3
  <2>4. k < j \/ k = j \/ k > j
    <3>1. bk[c] \in Seq(Entry) /\ bk[b] \in Seq(Entry)
      BY <1>2
    <3>2. k \in Int /\ j \in Int
      BY <3>1
    <3> QED
      BY <3>2
  <2> QED
    BY <1>6, <2>1, <2>2, <2>3, <2>4
<1>7. \A c \in R : \A k \in 1 .. Len(bk[c]) : bk[c][k] \in Holds(node, bk)
  BY <1>2 DEF Holds
<1>8. OneName(node, bk) /\ bk[b][j] \in Holds(node, bk)
  BY <1>7 DEF Counts
<1> HIDE DEF Old
<1>9. Holds(node2, bk2) = Holds(node, bk) \ {bk[b][j]}
  <2>1. ASSUME NEW x \in Holds(node2, bk2) PROVE x \in Holds(node, bk) \ {bk[b][j]}
    <3>1. PICK c \in R : \E k \in 1 .. Len(bk2[c]) : bk2[c][k] = x
      BY <1>1 DEF Holds
    <3>2. PICK k \in 1 .. Len(bk2[c]) : bk2[c][k] = x
      BY <3>1
    <3>3. /\ Old(c, k) \in 1 .. Len(bk[c]) /\ x = bk[c][Old(c, k)] /\ ~(c = b /\ Old(c, k) = j)
      BY <1>5, <3>2
    <3>4. x # bk[b][j]
      BY <1>8, <3>3 DEF OneName
    <3> QED
      BY <1>7, <3>3, <3>4
  <2>2. ASSUME NEW x \in Holds(node, bk), x # bk[b][j] PROVE x \in Holds(node2, bk2)
    <3>1. PICK c \in R : \E k \in 1 .. Len(bk[c]) : bk[c][k] = x
      BY DEF Holds
    <3>2. PICK k \in 1 .. Len(bk[c]) : bk[c][k] = x
      BY <3>1
    <3>3. \E i \in 1 .. Len(bk2[c]) : bk2[c][i] = x
      BY <1>6, <2>2, <3>2
    <3>4. x \in Entry
      BY DEF Holds
    <3> QED
      BY <1>1, <3>3, <3>4 DEF Holds
  <2> QED
    BY <2>1, <2>2
<1>10. OneName(node2, bk2)
  <2>1. SUFFICES ASSUME NEW c \in R, NEW d \in R,
                        NEW i \in 1 .. Len(bk2[c]), NEW k \in 1 .. Len(bk2[d]),
                        bk2[c][i].name = bk2[d][k].name
                 PROVE  c = d /\ i = k
    BY <1>1 DEF OneName
  <2>2. /\ Old(c, i) \in 1 .. Len(bk[c]) /\ bk2[c][i] = bk[c][Old(c, i)]
        /\ Old(d, k) \in 1 .. Len(bk[d]) /\ bk2[d][k] = bk[d][Old(d, k)]
    BY <1>5
  <2>3. c = d /\ Old(c, i) = Old(d, k)
    <3>1. bk[c][Old(c, i)].name = bk[d][Old(d, k)].name
      BY <2>1, <2>2
    <3> QED
      BY <1>8, <2>2, <3>1 DEF OneName
  <2>4. i \in Int /\ k \in Int /\ j \in Int
    <3>1. bk2[c] \in Seq(Entry) /\ bk2[d] \in Seq(Entry) /\ bk[b] \in Seq(Entry)
      BY <1>2, <1>4
    <3> QED
      BY <3>1
  <2> QED
    BY <2>3, <2>4 DEF Old
<1>11. /\ IsFiniteSet(Holds(node2, bk2)) /\ node2.filesCount = Cardinality(Holds(node2, bk2))
  <2> DEFINE H == Holds(node, bk)
             x == bk[b][j]
  <2>1. IsFiniteSet(H) /\ node.filesCount = Cardinality(H)
    BY DEF Counts
  <2>2. x \in H
    BY <1>8
  <2>3. Holds(node2, bk2) = H \ {x}
    BY <1>9
  <2>4. node2.filesCount = node.filesCount - 1
    BY <1>1
  <2> HIDE DEF H, x
  <2>5. IsFiniteSet(H \ {x}) /\ Cardinality(H \ {x}) = Cardinality(H) - 1
    BY <2>1, <2>2, FS_RemoveElement
  <2> QED
    BY <2>1, <2>3, <2>4, <2>5
<1>12. Counts(node2, bk2)
  BY <1>1, <1>10, <1>11 DEF Counts
<1> QED
  BY <1>1, <1>4, <1>9, <1>12 DEF Consists, node2, bk2

\* No block and no entry.
LEMMA NoEntries ==
  ASSUME NEW node, NoBlocks(node), NEW bk
  PROVE  Range(node.blocks) = {} /\ Owns(node) = {} /\ Holds(node, bk) = {} /\ (node.filesCount = 0 => Counts(node, bk))
<1>1. Range(node.blocks) = {} /\ Owns(node) = {}
  BY DEF Range, Owns, NoBlocks
<1>2. Holds(node, bk) = {} /\ OneName(node, bk)
  BY <1>1 DEF Holds, OneName
<1>3. Distinct(node.blocks)
  BY DEF Distinct, NoBlocks
<1> QED
  BY <1>1, <1>2, <1>3, FS_EmptySet DEF Counts

\* What a directory holds depends on its blocks only.
LEMMA SameHolds ==
  ASSUME NEW node, NEW node2, node2.blocks = node.blocks,
         NEW bk, NEW bk2, \A b \in Range(node.blocks) : bk2[b] = bk[b]
  PROVE  Holds(node2, bk2) = Holds(node, bk)
  BY DEF Holds

-----------------------------------------------------------------------------
(* All directories *)

\* One inode and its blocks change, and no block of another directory.
LEMMA Replaced ==
  ASSUME NEW tab, NEW bk, NEW u, Fits(tab, bk, u), NEW d \in Inum,
         NEW node \in Node, NEW bk2 \in [Block -> Seq(Entry)],
         (node.is_allocated /\ node.dir) \/ NoBlocks(node),
         Counts(node, bk2),
         \A m \in Inum \ {d} : /\ Owns(node) \intersect Owns(tab[m]) = {}
                               /\ \A b \in Range(tab[m].blocks) : bk2[b] = bk[b]
  PROVE  LET tab2 == [tab EXCEPT ![d] = node]
         IN  /\ Fits(tab2, bk2, (u \ Owns(tab[d])) \union Owns(node))
             /\ OthersKept(d, tab, bk, tab2, bk2)
<1> DEFINE tab2 == [tab EXCEPT ![d] = node]
           u2   == (u \ Owns(tab[d])) \union Owns(node)
<1>1. tab2 \in [Inum -> Node] /\ tab2[d] = node /\ \A m \in Inum \ {d} : tab2[m] = tab[m]
  BY DEF Fits
<1> HIDE DEF tab2
<1>2. ASSUME NEW m \in Inum \ {d} PROVE Holds(tab2[m], bk2) = Holds(tab[m], bk)
  <2>1. tab2[m].blocks = tab[m].blocks /\ \A b \in Range(tab[m].blocks) : bk2[b] = bk[b]
    BY <1>1
  <2> QED
    BY <2>1 DEF Holds
<1>3. \A n \in Inum : (tab2[n].is_allocated /\ tab2[n].dir) \/ NoBlocks(tab2[n])
  BY <1>1 DEF Fits
<1>4. ASSUME NEW n \in Inum \ {d} PROVE Counts(tab2[n], bk2)
  <2>1. Counts(tab[n], bk) /\ tab2[n] = tab[n] /\ Holds(tab2[n], bk2) = Holds(tab[n], bk)
    BY <1>1, <1>2 DEF Fits
  <2>2. \A b \in Range(tab[n].blocks) : bk2[b] = bk[b]
    OBVIOUS
  <2>3. OneName(tab2[n], bk2)
    BY <2>1, <2>2 DEF OneName, Counts
  <2> QED
    BY <2>1, <2>3 DEF Counts
<1>5. \A n, m \in Inum : n # m => Owns(tab2[n]) \intersect Owns(tab2[m]) = {}
  <2> TAKE n, m \in Inum
  <2>1. CASE n # d /\ m # d
    BY <1>1, <2>1 DEF Fits
  <2>2. CASE n = d \/ m = d
    BY <1>1, <2>2
  <2> QED
    BY <2>1, <2>2
<1>6. u2 = UNION {Owns(tab2[n]) : n \in Inum}
  <2>1. u = UNION {Owns(tab[n]) : n \in Inum}
    BY DEF Fits
  <2>2. \A m \in Inum \ {d} : Owns(tab[m]) \intersect Owns(tab[d]) = {}
    BY DEF Fits
  <2>3. ASSUME NEW b \in u2 PROVE \E n \in Inum : b \in Owns(tab2[n])
    BY <1>1, <2>1, <2>3
  <2>4. ASSUME NEW n \in Inum, NEW b \in Owns(tab2[n]) PROVE b \in u2
    BY <1>1, <2>1, <2>2
  <2> HIDE DEF u2
  <2> QED
    BY <2>3, <2>4
<1>7. Fits(tab2, bk2, u2)
  <2>1. \A n \in Inum : Counts(tab2[n], bk2)
    BY <1>1, <1>4
  <2> HIDE DEF u2
  <2> QED
    BY <1>1, <1>3, <1>5, <1>6, <2>1 DEF Fits
<1> QED
  BY <1>1, <1>2, <1>7 DEF OthersKept, tab2

-----------------------------------------------------------------------------
(* add_directory_entry and remove_from_directory *)

\* The directory d becomes node when the blocks become bk and the allocated ones u, and then
\* holds H; the others hold what they held.
Changed(d, node, bk, u, H) ==
  /\ Fits([inode EXCEPT ![d] = node], bk, u) /\ node \in Node
  /\ node.is_allocated = inode[d].is_allocated /\ node.dir = inode[d].dir
  /\ node.linkCount = inode[d].linkCount
  /\ Holds(node, bk) = H
  /\ \A m \in Inum \ {d} : Holds(inode[m], bk) = Holds(inode[m], blk)

\* CHOOSE takes the least of a set of numbers.
LEMMA LeastOf ==
  ASSUME NEW S \in SUBSET Nat, S # {}, NEW n, n = CHOOSE k \in S : \A j \in S : k <= j
  PROVE  n \in S /\ \A j \in S : n <= j
<1>1. \E k \in S : \A j \in S : k <= j
  BY LeastNumber
<1> QED
  BY <1>1

\* PlaceOf finds the name when it is there.
LEMMA PlaceOfName ==
  ASSUME NEW s \in Seq(Entry), NEW name
  PROVE  /\ PlaceOf(s, name) \in 0 .. Len(s)
         /\ PlaceOf(s, name) # 0 => s[PlaceOf(s, name)].name = name
         /\ PlaceOf(s, name) = 0 => \A k \in 1 .. Len(s) : s[k].name # name
<1> DEFINE I == {k \in 1 .. Len(s) : s[k].name = name}
<1>1. I \in SUBSET Nat
  OBVIOUS
<1>2. PlaceOf(s, name) = IF I # {} THEN Min(I) ELSE 0
  BY DEF PlaceOf, SelectInSeq
<1>3. I # {} => Min(I) \in I
  <2>1. SUFFICES ASSUME I # {} PROVE Min(I) \in I
    OBVIOUS
  <2>2. \E k \in I : \A j \in I : k <= j
    BY <1>1, <2>1, LeastNumber
  <2> QED
    BY <2>2 DEF Min
<1> QED
  BY <1>2, <1>3

\* The blocks of directories after an addition.
HeldAfter(added) == added.used \ Lost(added)

\* Neither adding an entry nor failing to makes a block free that is lost.
AccountsAfter(added) == Lost(added) \subseteq added.used /\ added.used \subseteq Block

\* A further block of a directory is free, and so are its blocks of addresses.
LEMMA TakingsAre ==
  ASSUME NEW node, NEW T \in Takings(node)
  PROVE  T \subseteq Block \ used /\ T # {}
<1>1. T \in SUBSET (Block \ used) /\ Cardinality(T) = 1 + AddressBlocks(Len(node.blocks))
  BY DEF Takings, kSubset
<1>2. AddressBlocks(Len(node.blocks)) \in Nat
  BY DEF AddressBlocks
<1>3. Cardinality(T) # 0
  BY <1>1, <1>2
<1> QED
  BY <1>1, <1>3, FS_EmptySet

\* The directory with one more entry, or nothing when there are too few blocks left.
LEMMA Added ==
  ASSUME Fits(inode, blk, Held), Accounts, NEW d \in Inum, inode[d].is_allocated, inode[d].dir,
         NEW n \in Inum, NEW name \in Name \union {Dot, DotDot},
         \A f \in Holds(inode[d], blk) : f.name # name
  PROVE  LET added == add_directory_entry(inode[d], n, name)
             entry == [name |-> name, inum |-> n]
         IN  /\ added.ok \in BOOLEAN /\ AccountsAfter(added)
             /\ ~added.ok => added.node = inode[d] /\ added.blk = blk /\ HeldAfter(added) = Held
             /\ added.ok =>
                  /\ Changed(d, added.node, added.blk, HeldAfter(added), Holds(inode[d], blk) \union {entry})
                  /\ Range(inode[d].blocks) \subseteq Range(added.node.blocks)
                  /\ Owns(inode[d]) \subseteq Owns(added.node)
                  /\ \A b \in Range(added.node.blocks) \ Range(inode[d].blocks) : added.blk[b] = <<entry>>
<1> DEFINE node  == inode[d]
           entry == [name |-> name, inum |-> n]
           room  == Room(node)
           first == CHOOSE k \in room : \A j \in room : k <= j
           taken == CHOOSE T \in Takings(node) : TRUE
           new   == CHOOSE b \in taken : TRUE
           added == add_directory_entry(node, n, name)
<1>1. node \in Node /\ Counts(node, blk) /\ blk \in [Block -> Seq(Entry)] /\ entry \in Entry
  <2>1. node \in Node /\ Counts(node, blk) /\ blk \in [Block -> Seq(Entry)]
    BY DEF Fits
  <2>2. entry \in Entry
    BY DEF Entry
  <2> QED
    BY <2>1, <2>2
<1>2. node.blocks \in Seq(Block) /\ DOMAIN node.blocks = 1 .. Len(node.blocks)
  <2>1. node.blocks \in Seq(Block)
    BY <1>1 DEF Node
  <2> HIDE DEF node
  <2> QED
    BY <2>1
<1>3. \A f \in Holds(node, blk) : f.name # entry.name
  OBVIOUS
<1>4. CASE room # {}
  <2> DEFINE b     == node.blocks[first]
             node2 == [node EXCEPT !.filesCount = @ + 1]
             bk2   == [blk EXCEPT ![b] = Append(@, entry)]
  <2>1. added = [ok |-> TRUE, used |-> used, node |-> node2, blk |-> bk2]
    BY <1>4 DEF add_directory_entry, AddedTo
  <2>2. room \in SUBSET Nat
    BY <1>2 DEF Room
  <2>3. first \in room
    BY <1>4, <2>2, LeastOf
  <2>4. b \in Range(node.blocks)
    BY <2>3 DEF Range, Room
  <2> HIDE DEF first, room, b, node, entry
  <2>5. Consists(node2, bk2, Holds(node, blk) \union {entry})
    BY <1>1, <1>3, <2>4, EntryAppended
  <2>6. /\ node2 \in Node /\ bk2 \in [Block -> Seq(Entry)]
        /\ Counts(node2, bk2) /\ Holds(node2, bk2) = Holds(node, blk) \union {entry}
    BY <2>5 DEF Consists
  <2>7. /\ node2.blocks = node.blocks /\ node2.is_allocated = node.is_allocated /\ node2.dir = node.dir
        /\ node2.linkCount = node.linkCount /\ Owns(node2) = Owns(node)
    BY <1>1 DEF Node, Owns
  <2>8. ASSUME NEW m \in Inum \ {d}
        PROVE  /\ Owns(node2) \intersect Owns(inode[m]) = {}
               /\ \A c \in Range(inode[m].blocks) : bk2[c] = blk[c]
    <3>1. Owns(node) \intersect Owns(inode[m]) = {}
      BY DEF Fits, node
    <3>2. \A c : c # b => bk2[c] = blk[c]
      BY <1>1
    <3>3. Range(node.blocks) \subseteq Owns(node) /\ Range(inode[m].blocks) \subseteq Owns(inode[m])
      BY DEF Owns
    <3> QED
      BY <2>4, <2>7, <3>1, <3>2, <3>3
  <2> HIDE DEF node2, bk2
  <2>9. (node2.is_allocated /\ node2.dir) \/ NoBlocks(node2)
    BY <2>7 DEF node
  <2> DEFINE tab2 == [inode EXCEPT ![d] = node2]
  <2>10. /\ Fits(tab2, bk2, (Held \ Owns(inode[d])) \union Owns(node2))
         /\ OthersKept(d, inode, blk, tab2, bk2)
    <3>1. node2 \in Node /\ bk2 \in [Block -> Seq(Entry)] /\ Counts(node2, bk2)
      BY <2>6
    <3> QED
      BY <2>8, <2>9, <3>1, Replaced
  <2> HIDE DEF tab2
  <2>11. (Held \ Owns(node)) \union Owns(node2) = Held
    <3>1. Owns(node) \subseteq Held
      BY DEF Fits, node
    <3> QED
      BY <2>7, <3>1
  <2>12. /\ Fits([inode EXCEPT ![d] = node2], bk2, Held)
         /\ \A m \in Inum \ {d} : Holds(inode[m], bk2) = Holds(inode[m], blk)
    BY <2>10, <2>11 DEF OthersKept, tab2, node
  <2>13. /\ added.ok = TRUE /\ added.node = node2 /\ added.blk = bk2 /\ added.used = used
    BY <2>1
  <2>14. HeldAfter(added) = Held /\ AccountsAfter(added)
    BY <2>13 DEF HeldAfter, AccountsAfter, Held, Lost, Accounts
  <2>15. Changed(d, node2, bk2, Held, Holds(node, blk) \union {entry})
    BY <2>6, <2>7, <2>12 DEF Changed, node
  <2> HIDE DEF added
  <2> QED
    BY <2>7, <2>13, <2>15, <2>14 DEF node, entry, added
<1>5. CASE room = {} /\ Takings(node) = {}
  <2>1. added = [ok |-> FALSE, node |-> node, blk |-> blk, used |-> Block]
    BY <1>5 DEF add_directory_entry
  <2>2. added.ok = FALSE /\ added.node = node /\ added.blk = blk /\ added.used = Block
    BY <2>1
  <2> HIDE DEF added, node
  <2>3. HeldAfter(added) = Held /\ AccountsAfter(added)
    BY <2>2 DEF HeldAfter, AccountsAfter, Held, Lost, Accounts
  <2> QED
    BY <2>2, <2>3 DEF added, node
<1>6. CASE room = {} /\ Takings(node) # {}
  <2> DEFINE b     == new
             A     == node.addresses \union (taken \ {new})
             node2 == [node EXCEPT !.filesCount = @ + 1, !.blocks = Append(@, b), !.addresses = A]
             bk2   == [blk EXCEPT ![b] = <<entry>>]
             u2    == Held \union taken
  <2>1. added = [ok |-> TRUE, used |-> used \union taken, blk |-> bk2, node |-> node2]
    BY <1>6 DEF add_directory_entry
  <2>2. taken \in Takings(node)
    BY <1>6
  <2> HIDE DEF taken
  <2>3. taken \subseteq Block \ used /\ taken # {}
    BY <2>2, TakingsAre
  <2>4. b \in taken
    BY <2>3
  <2> HIDE DEF new
  <2>5. Owns(node) \subseteq Held /\ \A m \in Inum : Owns(inode[m]) \subseteq Held
    BY DEF Fits
  <2>6. Range(node.blocks) \subseteq Owns(node) /\ \A m \in Inum : Range(inode[m].blocks) \subseteq Owns(inode[m])
    BY DEF Owns
  <2>7. Held \intersect taken = {}
    BY <2>3 DEF Held
  <2>8. A \in SUBSET Block
    BY <1>1, <2>3 DEF Node
  <2> HIDE DEF b, node, entry
  <2>9. /\ node2 \in Node /\ bk2 \in [Block -> Seq(Entry)]
        /\ Range(node2.blocks) = Range(node.blocks) \union {b} /\ Owns(node2) = Owns(node) \union taken
        /\ Counts(node2, bk2) /\ Holds(node2, bk2) = Holds(node, blk) \union {entry}
    <3>1. b \in Block \ Range(node.blocks)
      BY <2>3, <2>5, <2>4, <2>6, <2>7 DEF node
    <3>2. Consists(node2, bk2, Holds(node, blk) \union {entry})
      <4>1. node2 = Opened(node, b, A) /\ bk2 = OpenedBlocks(blk, b, entry)
        BY DEF Opened, OpenedBlocks
      <4> HIDE DEF A, node2, bk2
      <4> QED
        <5>1. A \subseteq Block
          BY <2>8
        <5>2. Consists(Opened(node, b, A), OpenedBlocks(blk, b, entry), Holds(node, blk) \union {entry})
          BY <1>1, <1>3, <3>1, <5>1, BlockAppended
        <5> QED
          BY <4>1, <5>2
    <3>3. Range(node2.blocks) = Range(node.blocks) \union {b}
      <4>1. node2.blocks = Append(node.blocks, b) /\ b \in Block
        BY <1>1, <3>1 DEF Node
      <4> QED
        BY <1>2, <4>1, RangeOf
    <3>4. node2.addresses = node.addresses \union (taken \ {b})
      BY <1>1 DEF Node, b
    <3>5. Owns(node2) = Owns(node) \union taken
      BY <2>4, <3>4, <3>3 DEF Owns
    <3> QED
      BY <3>2, <3>5, <3>3 DEF Consists
  <2>10. /\ node2.is_allocated = node.is_allocated /\ node2.dir = node.dir
         /\ node2.linkCount = node.linkCount /\ bk2[b] = <<entry>>
    BY <1>1, <2>3, <2>4 DEF Node
  <2>11. ASSUME NEW m \in Inum \ {d}
        PROVE  /\ Owns(node2) \intersect Owns(inode[m]) = {}
               /\ \A c \in Range(inode[m].blocks) : bk2[c] = blk[c]
    <3>1. Owns(node) \intersect Owns(inode[m]) = {} /\ taken \intersect Owns(inode[m]) = {}
      BY <2>5, <2>7 DEF Fits, node
    <3>2. \A c \in Range(inode[m].blocks) : c # b => bk2[c] = blk[c]
      <4>1. Range(inode[m].blocks) \subseteq Block
        BY RangeOf DEF Fits, Node
      <4> QED
        BY <1>1, <4>1
    <3> HIDE DEF node2, bk2
    <3> QED
      BY <2>9, <2>4, <2>6, <3>1, <3>2
  <2> HIDE DEF node2, bk2
  <2>12. (node2.is_allocated /\ node2.dir) \/ NoBlocks(node2)
    BY <2>10 DEF node
  <2> DEFINE tab2 == [inode EXCEPT ![d] = node2]
  <2>13. /\ Fits(tab2, bk2, (Held \ Owns(inode[d])) \union Owns(node2))
         /\ OthersKept(d, inode, blk, tab2, bk2)
    <3>1. node2 \in Node /\ bk2 \in [Block -> Seq(Entry)] /\ Counts(node2, bk2)
      BY <2>9
    <3> QED
      BY <2>11, <2>12, <3>1, Replaced
  <2> HIDE DEF tab2
  <2>14. (Held \ Owns(node)) \union Owns(node2) = u2
    BY <2>5, <2>9
  <2> HIDE DEF u2
  <2>15. /\ Fits([inode EXCEPT ![d] = node2], bk2, u2)
         /\ \A m \in Inum \ {d} : Holds(inode[m], bk2) = Holds(inode[m], blk)
    BY <2>13, <2>14 DEF OthersKept, tab2, node
  <2>16. added.ok = TRUE /\ added.node = node2 /\ added.blk = bk2 /\ added.used = used \union taken
    BY <2>1
  <2>17. \A c \in Range(node2.blocks) \ Range(node.blocks) : bk2[c] = <<entry>>
    BY <2>9, <2>10
  <2>18. Changed(d, node2, bk2, u2, Holds(node, blk) \union {entry})
    BY <2>9, <2>10, <2>15 DEF Changed, node
  <2> HIDE DEF added
  <2>19. HeldAfter(added) = u2 /\ AccountsAfter(added)
    BY <2>3, <2>16 DEF HeldAfter, AccountsAfter, Held, Lost, Accounts, u2
  <2> QED
    BY <2>9, <2>16, <2>17, <2>18, <2>19 DEF node, entry, added
<1> QED
  BY <1>4, <1>5, <1>6

\* The directory with one entry less.
LEMMA Dropped ==
  ASSUME Fits(inode, blk, Held), NEW d \in Inum, NEW name, NEW n,
         [name |-> name, inum |-> n] \in Holds(inode[d], blk)
  PROVE  LET removed == remove_from_directory(inode[d], name)
             entry   == [name |-> name, inum |-> n]
         IN  /\ Changed(d, removed.node, removed.blk, Held, Holds(inode[d], blk) \ {entry})
             /\ removed.node.blocks = inode[d].blocks /\ removed.node.addresses = inode[d].addresses
<1> DEFINE node    == inode[d]
           entry   == [name |-> name, inum |-> n]
           removed == remove_from_directory(node, name)
           place(j) == PlaceOf(blk[node.blocks[j]], name)
           with(j) == place(j) # 0 /\ \A i \in 1 .. (j - 1) : place(i) = 0
           k       == CHOOSE j \in DOMAIN node.blocks : with(j)
           b       == node.blocks[k]
           node2   == [node EXCEPT !.filesCount = @ - 1]
           bk2     == [blk EXCEPT ![b] = RemoveAt(@, place(k))]
<1>1. node \in Node /\ Counts(node, blk) /\ blk \in [Block -> Seq(Entry)]
  BY DEF Fits
<1>2. node.blocks \in Seq(Block)
  BY <1>1 DEF Node
<1>3. removed = [node |-> node2, blk |-> bk2]
  BY DEF remove_from_directory
<1> HIDE DEF node, removed
<1>4. DOMAIN node.blocks = 1 .. Len(node.blocks) /\ Range(node.blocks) \subseteq Block
  BY <1>2, RangeOf
<1>5. ASSUME NEW j \in 1 .. Len(node.blocks)
      PROVE  /\ node.blocks[j] \in Range(node.blocks) /\ blk[node.blocks[j]] \in Seq(Entry)
             /\ place(j) \in 0 .. Len(blk[node.blocks[j]])
             /\ place(j) # 0 => blk[node.blocks[j]][place(j)].name = name
             /\ place(j) = 0 => \A i \in 1 .. Len(blk[node.blocks[j]]) : blk[node.blocks[j]][i].name # name
  <2>1. node.blocks[j] \in Range(node.blocks)
    BY <1>4 DEF Range
  <2>2. blk[node.blocks[j]] \in Seq(Entry)
    BY <1>1, <1>4, <2>1
  <2> QED
    BY <2>1, <2>2, PlaceOfName
<1>6. \E j \in 1 .. Len(node.blocks) : place(j) # 0
  <2>1. PICK c \in Range(node.blocks) : \E i \in 1 .. Len(blk[c]) : blk[c][i] = entry
    BY DEF Holds, node
  <2>2. PICK j \in 1 .. Len(node.blocks) : node.blocks[j] = c
    BY <1>4 DEF Range
  <2>3. \E i \in 1 .. Len(blk[node.blocks[j]]) : blk[node.blocks[j]][i].name = name
    BY <2>1, <2>2
  <2> QED
    BY <1>5, <2>3
<1>7. k \in 1 .. Len(node.blocks) /\ place(k) # 0
  <2> DEFINE S == {j \in 1 .. Len(node.blocks) : place(j) # 0}
  <2>1. S \in SUBSET Nat /\ S # {}
    BY <1>6
  <2>2. PICK j \in S : \A i \in S : j <= i
    BY <2>1, LeastNumber
  <2>3. with(j)
    <3>1. \A i \in 1 .. (j - 1) : i \in 1 .. Len(node.blocks) /\ ~(j <= i)
      BY <1>2
    <3> QED
      BY <2>2, <3>1
  <2>4. j \in DOMAIN node.blocks
    BY <1>4
  <2> HIDE DEF with
  <2>5. k \in DOMAIN node.blocks /\ with(k)
    BY <2>3, <2>4
  <2> QED
    BY <1>4, <2>5 DEF with
<1> HIDE DEF k, place, entry
<1>8. b \in Range(node.blocks) /\ place(k) \in 1 .. Len(blk[b]) /\ blk[b][place(k)].name = name
  BY <1>5, <1>7
<1> HIDE DEF b, bk2, node2
<1>9. blk[b][place(k)] = entry
  <2>1. PICK c \in Range(node.blocks) : \E i \in 1 .. Len(blk[c]) : blk[c][i] = entry
    BY DEF Holds, node, entry
  <2>2. PICK i \in 1 .. Len(blk[c]) : blk[c][i] = entry
    BY <2>1
  <2>3. entry.name = name
    BY DEF entry
  <2>4. c = b /\ i = place(k)
    BY <1>1, <1>8, <2>2, <2>3 DEF Counts, OneName
  <2> QED
    BY <2>2, <2>4
<1>10. Consists(node2, bk2, Holds(node, blk) \ {entry})
  <2>1. Consists(node2, bk2, Holds(node, blk) \ {blk[b][place(k)]})
    BY <1>1, <1>8, EntryRemoved DEF node2, bk2
  <2> QED
    BY <1>9, <2>1
<1>11. /\ node2.blocks = node.blocks /\ node2.is_allocated = node.is_allocated /\ node2.dir = node.dir
       /\ node2.linkCount = node.linkCount /\ node2.addresses = node.addresses /\ Owns(node2) = Owns(node)
  BY <1>1 DEF Node, node2, Owns
<1>12. ASSUME NEW m \in Inum \ {d}
       PROVE  /\ Owns(node2) \intersect Owns(inode[m]) = {}
              /\ \A c \in Range(inode[m].blocks) : bk2[c] = blk[c]
  <2>1. Owns(node) \intersect Owns(inode[m]) = {}
    BY DEF Fits, node
  <2>2. Range(node.blocks) \subseteq Owns(node) /\ Range(inode[m].blocks) \subseteq Owns(inode[m])
    BY DEF Owns
  <2>3. \A c \in Block : c # b => bk2[c] = blk[c]
    BY <1>1 DEF bk2
  <2>4. Range(inode[m].blocks) \subseteq Block
    BY RangeOf DEF Fits, Node
  <2> QED
    BY <1>8, <1>11, <2>1, <2>3, <2>4, <2>2
<1>13. (node2.is_allocated /\ node2.dir) \/ NoBlocks(node2)
  BY <1>11 DEF Fits, node, NoBlocks
<1> DEFINE tab2 == [inode EXCEPT ![d] = node2]
<1>14. /\ Fits(tab2, bk2, (Held \ Owns(inode[d])) \union Owns(node2))
       /\ OthersKept(d, inode, blk, tab2, bk2)
  <2>1. node2 \in Node /\ bk2 \in [Block -> Seq(Entry)] /\ Counts(node2, bk2)
    BY <1>10 DEF Consists
  <2> QED
    BY <1>12, <1>13, <2>1, Replaced
<1> HIDE DEF tab2
<1>15. (Held \ Owns(node)) \union Owns(node2) = Held
  <2>1. Owns(node) \subseteq Held
    BY DEF Fits, node
  <2> QED
    BY <1>11, <2>1
<1>16. /\ Fits([inode EXCEPT ![d] = node2], bk2, Held)
       /\ \A m \in Inum \ {d} : Holds(inode[m], bk2) = Holds(inode[m], blk)
  BY <1>14, <1>15 DEF OthersKept, tab2, node
<1>17. Changed(d, node2, bk2, Held, Holds(node, blk) \ {entry})
  BY <1>10, <1>11, <1>16 DEF Changed, Consists, node
<1> QED
  BY <1>3, <1>11, <1>17 DEF node, entry, removed

-----------------------------------------------------------------------------
(* The names in all directories *)

\* A name is an edge when its directory holds the entry.
LEMMA EdgeIn ==
  ASSUME NEW tab, NEW bk, NEW d \in Inum, NEW a \in Name, NEW n \in Inum \union {-1}
  PROVE  <<d, a, n>> \in Edges(tab, bk) <=> [name |-> a, inum |-> n] \in Holds(tab[d], bk)
  BY DEF Edges

\* The same, for an edge as a whole.
LEMMA EdgeIs ==
  ASSUME NEW tab, NEW bk, NEW e \in Inum \X Name \X (Inum \union {-1})
  PROVE  e \in Edges(tab, bk) <=> [name |-> e[2], inum |-> e[3]] \in Holds(tab[e[1]], bk)
  BY DEF Edges

\* The parts of an edge.
LEMMA EdgeParts ==
  ASSUME NEW tab, NEW bk, NEW e \in Edges(tab, bk)
  PROVE  /\ e[1] \in Inum /\ e[2] \in Name /\ e[3] \in Inum \union {-1} /\ e = <<e[1], e[2], e[3]>>
         /\ [name |-> e[2], inum |-> e[3]] \in Holds(tab[e[1]], bk)
  BY DEF Edges

\* A directory has a name once.
LEMMA OneInode ==
  ASSUME NEW tab, NEW bk, NEW u, Fits(tab, bk, u)
  PROVE  \A e, f \in Edges(tab, bk) : e[1] = f[1] /\ e[2] = f[2] => e = f
<1> SUFFICES ASSUME NEW e \in Edges(tab, bk), NEW f \in Edges(tab, bk), e[1] = f[1], e[2] = f[2]
             PROVE  e = f
  OBVIOUS
<1> DEFINE x == [name |-> e[2], inum |-> e[3]]
           y == [name |-> f[2], inum |-> f[3]]
           node == tab[e[1]]
<1>1. e[1] \in Inum /\ e = <<e[1], e[2], e[3]>> /\ x \in Holds(node, bk)
  BY EdgeParts
<1>2. f = <<f[1], f[2], f[3]>> /\ y \in Holds(node, bk)
  BY EdgeParts
<1>3. OneName(node, bk)
  BY <1>1 DEF Fits, Counts
<1>4. x.name = y.name /\ x.inum = e[3] /\ y.inum = f[3]
  OBVIOUS
<1> HIDE DEF x, y, node
<1>5. PICK b \in Range(node.blocks) : \E k \in 1 .. Len(bk[b]) : bk[b][k] = x
  BY <1>1 DEF Holds
<1>6. PICK c \in Range(node.blocks) : \E k \in 1 .. Len(bk[c]) : bk[c][k] = y
  BY <1>2 DEF Holds
<1>7. x = y
  BY <1>3, <1>4, <1>5, <1>6 DEF OneName
<1> QED
  BY <1>1, <1>2, <1>4, <1>7

\* One more name in directory d.
LEMMA EdgeAdded ==
  ASSUME NEW tab, NEW bk, NEW tab2, NEW bk2, NEW d \in Inum, NEW a \in Name, NEW n \in Inum,
         Holds(tab2[d], bk2) = Holds(tab[d], bk) \union {[name |-> a, inum |-> n]},
         \A m \in Inum \ {d} : Holds(tab2[m], bk2) = Holds(tab[m], bk)
  PROVE  Edges(tab2, bk2) = Edges(tab, bk) \union {<<d, a, n>>}
<1>1. ASSUME NEW e \in Inum \X Name \X (Inum \union {-1})
      PROVE  e \in Edges(tab2, bk2) <=> e \in Edges(tab, bk) \/ e = <<d, a, n>>
  <2>1. e[1] \in Inum /\ e[2] \in Name /\ e[3] \in Inum \union {-1} /\ e = <<e[1], e[2], e[3]>>
    OBVIOUS
  <2>2. /\ e \in Edges(tab2, bk2) <=> [name |-> e[2], inum |-> e[3]] \in Holds(tab2[e[1]], bk2)
        /\ e \in Edges(tab, bk) <=> [name |-> e[2], inum |-> e[3]] \in Holds(tab[e[1]], bk)
    BY EdgeIs
  <2>3. CASE e[1] = d
    <3>1. [name |-> e[2], inum |-> e[3]] = [name |-> a, inum |-> n] <=> e = <<d, a, n>>
      BY <2>1, <2>3
    <3> QED
      BY <2>2, <2>3, <3>1
  <2>4. CASE e[1] # d
    <3>1. e # <<d, a, n>>
      BY <2>4
    <3> QED
      BY <2>1, <2>2, <2>4, <3>1
  <2> QED
    BY <2>3, <2>4
<1>2. /\ Edges(tab2, bk2) \subseteq Inum \X Name \X (Inum \union {-1})
      /\ Edges(tab, bk) \subseteq Inum \X Name \X (Inum \union {-1})
      /\ <<d, a, n>> \in Inum \X Name \X (Inum \union {-1})
  BY DEF Edges
<1> QED
  BY <1>1, <1>2

\* One name less in directory d.
LEMMA EdgeDropped ==
  ASSUME NEW tab, NEW bk, NEW tab2, NEW bk2, NEW d \in Inum, NEW a \in Name, NEW n \in Inum,
         Holds(tab2[d], bk2) = Holds(tab[d], bk) \ {[name |-> a, inum |-> n]},
         \A m \in Inum \ {d} : Holds(tab2[m], bk2) = Holds(tab[m], bk)
  PROVE  Edges(tab2, bk2) = Edges(tab, bk) \ {<<d, a, n>>}
<1>1. ASSUME NEW e \in Inum \X Name \X (Inum \union {-1})
      PROVE  e \in Edges(tab2, bk2) <=> e \in Edges(tab, bk) /\ e # <<d, a, n>>
  <2>1. e[1] \in Inum /\ e[2] \in Name /\ e[3] \in Inum \union {-1} /\ e = <<e[1], e[2], e[3]>>
    OBVIOUS
  <2>2. /\ e \in Edges(tab2, bk2) <=> [name |-> e[2], inum |-> e[3]] \in Holds(tab2[e[1]], bk2)
        /\ e \in Edges(tab, bk) <=> [name |-> e[2], inum |-> e[3]] \in Holds(tab[e[1]], bk)
    BY EdgeIs
  <2>3. CASE e[1] = d
    <3>1. [name |-> e[2], inum |-> e[3]] = [name |-> a, inum |-> n] <=> e = <<d, a, n>>
      BY <2>1, <2>3
    <3> QED
      BY <2>2, <2>3, <3>1
  <2>4. CASE e[1] # d
    <3>1. e # <<d, a, n>>
      BY <2>4
    <3> QED
      BY <2>1, <2>2, <2>4, <3>1
  <2> QED
    BY <2>3, <2>4
<1>2. /\ Edges(tab2, bk2) \subseteq Inum \X Name \X (Inum \union {-1})
      /\ Edges(tab, bk) \subseteq Inum \X Name \X (Inum \union {-1})
  BY DEF Edges
<1> QED
  BY <1>1, <1>2

NoNames(node, bk) == \A e \in Holds(node, bk) : e.name \notin Name

\* The names in d.
OutOf(d, E) == {e \in E : e[1] = d}

\* No directory but d changes, and d has then no name but "." and "..".
LEMMA EdgesOut ==
  ASSUME NEW tab, NEW bk, NEW tab2, NEW bk2, NEW d \in Inum, NoNames(tab2[d], bk2),
         OthersKept(d, tab, bk, tab2, bk2)
  PROVE  Edges(tab2, bk2) = Edges(tab, bk) \ OutOf(d, Edges(tab, bk))
<1>1. ASSUME NEW e \in Inum \X Name \X (Inum \union {-1})
      PROVE  e \in Edges(tab2, bk2) <=> e \in Edges(tab, bk) /\ e[1] # d
  <2>1. e[1] \in Inum /\ e[2] \in Name /\ e[3] \in Inum \union {-1} /\ e = <<e[1], e[2], e[3]>>
    OBVIOUS
  <2>2. /\ e \in Edges(tab2, bk2) <=> [name |-> e[2], inum |-> e[3]] \in Holds(tab2[e[1]], bk2)
        /\ e \in Edges(tab, bk) <=> [name |-> e[2], inum |-> e[3]] \in Holds(tab[e[1]], bk)
    BY EdgeIs
  <2>3. CASE e[1] = d
    <3>1. [name |-> e[2], inum |-> e[3]].name \in Name
      BY <2>1
    <3> QED
      BY <2>2, <2>3, <3>1 DEF NoNames
  <2>4. CASE e[1] # d
    BY <2>1, <2>2, <2>4 DEF OthersKept
  <2> QED
    BY <2>3, <2>4
<1>2. /\ Edges(tab2, bk2) \subseteq Inum \X Name \X (Inum \union {-1})
      /\ Edges(tab, bk) \subseteq Inum \X Name \X (Inum \union {-1})
  BY DEF Edges
<1> QED
  BY <1>1, <1>2 DEF OutOf

\* No directory but d changes, and d has no name but "." and "..".
LEMMA EdgesKept ==
  ASSUME NEW tab, NEW bk, NEW tab2, NEW bk2, NEW d \in Inum,
         NoNames(tab[d], bk), NoNames(tab2[d], bk2),
         \A m \in Inum \ {d} : Holds(tab2[m], bk2) = Holds(tab[m], bk)
  PROVE  Edges(tab2, bk2) = Edges(tab, bk)
<1>1. ASSUME NEW e \in Inum \X Name \X (Inum \union {-1})
      PROVE  e \in Edges(tab2, bk2) <=> e \in Edges(tab, bk)
  <2>1. e[1] \in Inum /\ e[2] \in Name /\ e[3] \in Inum \union {-1} /\ e = <<e[1], e[2], e[3]>>
    OBVIOUS
  <2>2. /\ e \in Edges(tab2, bk2) <=> [name |-> e[2], inum |-> e[3]] \in Holds(tab2[e[1]], bk2)
        /\ e \in Edges(tab, bk) <=> [name |-> e[2], inum |-> e[3]] \in Holds(tab[e[1]], bk)
    BY EdgeIs
  <2>3. CASE e[1] = d
    <3>1. [name |-> e[2], inum |-> e[3]].name \in Name
      BY <2>1
    <3> QED
      BY <2>2, <2>3, <3>1 DEF NoNames
  <2>4. CASE e[1] # d
    BY <2>1, <2>2, <2>4
  <2> QED
    BY <2>3, <2>4
<1>2. /\ Edges(tab2, bk2) \subseteq Inum \X Name \X (Inum \union {-1})
      /\ Edges(tab, bk) \subseteq Inum \X Name \X (Inum \union {-1})
  BY DEF Edges
<1> QED
  BY <1>1, <1>2

\* No name leads out of an inode that holds none.
LEMMA NoEdges ==
  ASSUME NEW tab, NEW bk, NEW d, NoNames(tab[d], bk)
  PROVE  \A e \in Edges(tab, bk) : e[1] # d
<1>1. ASSUME NEW e \in Edges(tab, bk), e[1] = d PROVE FALSE
  <2>1. e[2] \in Name /\ [name |-> e[2], inum |-> e[3]] \in Holds(tab[d], bk)
    BY <1>1, EdgeParts
  <2>2. [name |-> e[2], inum |-> e[3]].name = e[2]
    OBVIOUS
  <2> QED
    BY <2>1, <2>2 DEF NoNames
<1> QED
  BY <1>1

-----------------------------------------------------------------------------
(* The entries of a directory, in order *)

\* FlattenSeq puts one sequence behind the other.
LEMMA Flattened ==
  ASSUME NEW S, NEW seqs \in Seq(Seq(S)), Len(seqs) > 0
  PROVE  \E g \in [1 .. Len(seqs) -> Seq(S)] :
           /\ g[1] = seqs[1] /\ \A n \in 2 .. Len(seqs) : g[n] = g[n - 1] \o seqs[n]
           /\ FlattenSeq(seqs) = g[Len(seqs)]
<1> DEFINE N    == Len(seqs)
           T    == Seq(S)
           step == [n \in 1 .. N |-> [t \in T |-> t \o seqs[n]]]
           is(g) == g = [n \in 1 .. N |-> IF n = 1 THEN seqs[n] ELSE g[n - 1] \o seqs[n]]
           flatten == CHOOSE g : is(g)
<1>1. N \in Nat /\ N > 0 /\ \A n \in 1 .. N : seqs[n] \in Seq(S)
  OBVIOUS
<1>2. FlattenSeq(seqs) = flatten[N]
  BY <1>1 DEF FlattenSeq
<1> HIDE DEF N, flatten
<1>3. step \in [1 .. N -> [T -> T]] /\ << >> \in T
  <2>1. ASSUME NEW n \in 1 .. N PROVE [t \in T |-> t \o seqs[n]] \in [T -> T]
    <3>1. \A t \in T : t \o seqs[n] \in T
      BY <1>1, ConcatProperties
    <3> QED
      BY <3>1
  <2> QED
    BY <2>1
<1>4. \A n \in 1 .. N : \A t \in T : step[n][t] = t \o seqs[n]
  OBVIOUS
<1> HIDE DEF step, T
<1> DEFINE base == << >>
<1> HIDE DEF base
<1>5. PICK h \in [0 .. N -> T] : h[0] = base /\ \A n \in 1 .. N : h[n] = step[n][h[n - 1]]
  <2>1. base \in T
    BY <1>3 DEF base
  <2>2. N \in Nat
    BY <1>1
  <2>3. step \in [1 .. N -> [T -> T]]
    BY <1>3
  <2> HIDE DEF is
  <2>4. \E h \in [0 .. N -> T] : Recurs(N, base, step, h)
    BY <2>1, <2>2, <2>3, Recursion
  <2> QED
    BY <2>4 DEF Recurs
<1> DEFINE g == [n \in 1 .. N |-> h[n]]
<1>6. g \in [1 .. N -> T] /\ g[1] = seqs[1] /\ \A n \in 2 .. N : g[n] = g[n - 1] \o seqs[n]
  <2>1. \A n \in 1 .. N : h[n] = h[n - 1] \o seqs[n]
    <3>1. \A n \in 1 .. N : n - 1 \in 0 .. N /\ h[n - 1] \in T
      BY <1>1, <1>5
    <3> QED
      BY <1>4, <1>5, <3>1
  <2>2. << >> \o seqs[1] = seqs[1] /\ 1 \in 1 .. N /\ 1 - 1 = 0
    BY <1>1
  <2>3. h[1] = seqs[1]
    <3>1. h[1] = h[1 - 1] \o seqs[1]
      BY <2>1, <2>2
    <3> QED
      BY <1>5, <2>2, <3>1 DEF base
  <2>4. ASSUME NEW n \in 2 .. N PROVE g[n] = g[n - 1] \o seqs[n]
    <3>1. n \in 1 .. N /\ n - 1 \in 1 .. N
      BY <1>1
    <3> QED
      BY <2>1, <3>1
  <2>5. g \in [1 .. N -> T]
    BY <1>1, <1>5
  <2>6. g[1] = seqs[1]
    BY <2>2, <2>3
  <2> HIDE DEF g
  <2> QED
    BY <2>4, <2>5, <2>6
<1>7. is(g)
  <2>1. ASSUME NEW n \in 1 .. N PROVE g[n] = IF n = 1 THEN seqs[n] ELSE g[n - 1] \o seqs[n]
    <3>1. n # 1 => n \in 2 .. N
      BY <1>1
    <3> HIDE DEF g
    <3> QED
      BY <1>6, <3>1
  <2>2. g = [n \in 1 .. N |-> g[n]]
    OBVIOUS
  <2>3. [n \in 1 .. N |-> g[n]] = [n \in 1 .. N |-> IF n = 1 THEN seqs[n] ELSE g[n - 1] \o seqs[n]]
    BY <2>1
  <2> QED
    BY <2>2, <2>3
<1> DEFINE f == flatten
<1>8. is(f)
  <2> HIDE DEF is, g
  <2> QED
    BY <1>7 DEF flatten
<1> HIDE DEF f
<1>9. \A n \in 1 .. N : f[n] = IF n = 1 THEN seqs[n] ELSE f[n - 1] \o seqs[n]
  BY <1>8
<1>10. f \in [1 .. N -> T] /\ f = g
  <2> HIDE DEF is
  <2> DEFINE K == {n \in 0 .. N : \A m \in 1 .. n : f[m] = g[m]}
  <2>1. 0 \in K
    BY <1>1
  <2>2. ASSUME NEW n \in 0 .. (N - 1), n \in K PROVE n + 1 \in K
    <3>1. n + 1 \in 1 .. N /\ (n + 1) - 1 = n /\ (n # 0 => n \in 1 .. N /\ n + 1 \in 2 .. N /\ n + 1 # 1)
      BY <1>1
    <3> HIDE DEF g
    <3>2. n # 0 => f[n] = g[n]
      BY <2>2, <3>1
    <3>3. f[n + 1] = g[n + 1]
      <4>1. f[n + 1] = IF n + 1 = 1 THEN seqs[n + 1] ELSE f[n] \o seqs[n + 1]
        BY <1>9, <3>1
      <4>2. CASE n = 0
        BY <1>6, <4>1, <4>2
      <4>3. CASE n # 0
        <5>1. g[n + 1] = g[n] \o seqs[n + 1]
          BY <1>6, <3>1, <4>3
        <5> QED
          BY <3>1, <3>2, <4>1, <4>3, <5>1
      <4> QED
        BY <4>2, <4>3
    <3> QED
      BY <2>2, <3>1, <3>3
  <2> HIDE DEF K
  <2>3. \A n \in 0 .. N : n \in K
    BY <1>1, <2>1, <2>2, Induction
  <2>4. \A n \in 1 .. N : f[n] = g[n]
    <3> HIDE DEF g
    <3>1. N \in K
      BY <1>1, <2>3
    <3> QED
      BY <3>1 DEF K
  <2>5. f = [n \in 1 .. N |-> f[n]]
    BY <1>8 DEF is
  <2> QED
    BY <1>6, <2>4, <2>5
<1> HIDE DEF g
<1>11. FlattenSeq(seqs) = g[N]
  BY <1>2, <1>10 DEF f
<1> QED
  BY <1>6, <1>11 DEF N, T

\* The elements of two sequences put together.
LEMMA Joined ==
  ASSUME NEW S, NEW s \in Seq(S), NEW t \in Seq(S)
  PROVE  /\ s \o t \in Seq(S) /\ Len(s \o t) = Len(s) + Len(t)
         /\ \A k \in 1 .. Len(s \o t) : \/ k \in 1 .. Len(s) /\ (s \o t)[k] = s[k]
                                        \/ k - Len(s) \in 1 .. Len(t) /\ (s \o t)[k] = t[k - Len(s)]
         /\ \A k \in 1 .. Len(s) : k \in 1 .. Len(s \o t) /\ (s \o t)[k] = s[k]
         /\ \A k \in 1 .. Len(t) : k + Len(s) \in 1 .. Len(s \o t) /\ (s \o t)[k + Len(s)] = t[k]
<1> DEFINE u == s \o t
<1>1. /\ u \in Seq(S) /\ Len(u) = Len(s) + Len(t)
      /\ \A k \in 1 .. (Len(s) + Len(t)) : u[k] = IF k <= Len(s) THEN s[k] ELSE t[k - Len(s)]
  BY ConcatProperties
<1>2. Len(s) \in Nat /\ Len(t) \in Nat
  OBVIOUS
<1> HIDE DEF u
<1>3. \A k \in 1 .. Len(u) : \/ k \in 1 .. Len(s) /\ u[k] = s[k]
                             \/ k - Len(s) \in 1 .. Len(t) /\ u[k] = t[k - Len(s)]
  BY <1>1, <1>2
<1>4. \A k \in 1 .. Len(s) : k \in 1 .. Len(u) /\ u[k] = s[k]
  BY <1>1, <1>2
<1>5. ASSUME NEW k \in 1 .. Len(t) PROVE k + Len(s) \in 1 .. Len(u) /\ u[k + Len(s)] = t[k]
  <2>1. k + Len(s) \in 1 .. (Len(s) + Len(t)) /\ ~(k + Len(s) <= Len(s)) /\ (k + Len(s)) - Len(s) = k
    BY <1>2
  <2> QED
    BY <1>1, <2>1
<1> QED
  BY <1>1, <1>3, <1>4, <1>5 DEF u

\* s has what the first n of seqs have.
Gathers(s, seqs, n) ==
  \A e : (\E k \in 1 .. Len(s) : s[k] = e) <=> \E j \in 1 .. n : \E p \in 1 .. Len(seqs[j]) : seqs[j][p] = e

\* No name is there twice.
Different(s) == \A j, k \in 1 .. Len(s) : s[j].name = s[k].name => j = k

AllDifferent(seqs) ==
  \A i, j \in 1 .. Len(seqs) : \A p \in 1 .. Len(seqs[i]), q \in 1 .. Len(seqs[j]) :
    seqs[i][p].name = seqs[j][q].name => i = j /\ p = q

\* FlattenSeq keeps every entry, and no two names become the same.
LEMMA Gathered ==
  ASSUME NEW seqs \in Seq(Seq(Entry)), Len(seqs) > 0
  PROVE  /\ FlattenSeq(seqs) \in Seq(Entry) /\ Gathers(FlattenSeq(seqs), seqs, Len(seqs))
         /\ AllDifferent(seqs) => Different(FlattenSeq(seqs))
<1> DEFINE N == Len(seqs)
<1>1. PICK g \in [1 .. N -> Seq(Entry)] :
           /\ g[1] = seqs[1] /\ \A n \in 2 .. N : g[n] = g[n - 1] \o seqs[n]
           /\ FlattenSeq(seqs) = g[N]
  BY Flattened
<1>2. N \in Nat /\ N > 0 /\ \A n \in 1 .. N : seqs[n] \in Seq(Entry)
  OBVIOUS
<1> DEFINE Good(n) == Gathers(g[n], seqs, n) /\ (AllDifferent(seqs) => Different(g[n]))
<1>3. Good(1)
  <2>1. Gathers(g[1], seqs, 1)
    <3>1. \A j : j \in 1 .. 1 <=> j = 1
      OBVIOUS
    <3> QED
      BY <1>1, <3>1 DEF Gathers
  <2>2. AllDifferent(seqs) => Different(seqs[1])
    <3>1. 1 \in 1 .. N
      BY <1>2
    <3> QED
      BY <3>1 DEF AllDifferent, Different
  <2> QED
    BY <1>1, <2>1, <2>2
<1>4. ASSUME NEW n \in 2 .. N, Good(n - 1) PROVE Good(n)
  <2> DEFINE s == g[n - 1]
             t == seqs[n]
             u == s \o t
  <2>1. /\ n \in 1 .. N /\ n - 1 \in 1 .. N /\ n \in Nat
        /\ \A j : j \in 1 .. n <=> j \in 1 .. (n - 1) \/ j = n
        /\ \A j \in 1 .. (n - 1) : j \in 1 .. N /\ j # n
    BY <1>2
  <2>2. s \in Seq(Entry) /\ t \in Seq(Entry) /\ g[n] = u
    BY <1>1, <1>2, <2>1
  <2>3. Gathers(s, seqs, n - 1) /\ (AllDifferent(seqs) => Different(s))
    BY <1>4
  <2> HIDE DEF s, t, u
  <2>4. /\ Len(s) \in Nat
        /\ \A k \in 1 .. Len(u) : \/ k \in 1 .. Len(s) /\ u[k] = s[k]
                                  \/ k - Len(s) \in 1 .. Len(t) /\ u[k] = t[k - Len(s)]
        /\ \A k \in 1 .. Len(s) : k \in 1 .. Len(u) /\ u[k] = s[k]
        /\ \A k \in 1 .. Len(t) : k + Len(s) \in 1 .. Len(u) /\ u[k + Len(s)] = t[k]
    BY <2>2, Joined DEF u
  <2>5. ASSUME NEW e PROVE (\E k \in 1 .. Len(u) : u[k] = e) <=>
                           (\E k \in 1 .. Len(s) : s[k] = e) \/ \E k \in 1 .. Len(t) : t[k] = e
    BY <2>4
  <2>6. Gathers(u, seqs, n)
    <3>1. ASSUME NEW e
          PROVE  (\E k \in 1 .. Len(s) : s[k] = e) <=>
                 \E j \in 1 .. (n - 1) : \E p \in 1 .. Len(seqs[j]) : seqs[j][p] = e
      BY <2>3 DEF Gathers
    <3>2. ASSUME NEW e
          PROVE  (\E j \in 1 .. n : \E p \in 1 .. Len(seqs[j]) : seqs[j][p] = e) <=>
                 \/ \E j \in 1 .. (n - 1) : \E p \in 1 .. Len(seqs[j]) : seqs[j][p] = e
                 \/ \E p \in 1 .. Len(t) : t[p] = e
      BY <2>1 DEF t
    <3> QED
      BY <2>5, <3>1, <3>2 DEF Gathers
  <2>7. ASSUME AllDifferent(seqs) PROVE Different(u)
    <3>1. SUFFICES ASSUME NEW j \in 1 .. Len(u), NEW k \in 1 .. Len(u), u[j].name = u[k].name
                   PROVE  j = k
      BY DEF Different
    <3>2. Different(s)
      BY <2>3, <2>7
    <3>3. ASSUME NEW x \in 1 .. Len(s), NEW y \in 1 .. Len(t) PROVE s[x].name # t[y].name
      <4>1. PICK i \in 1 .. (n - 1) : \E p \in 1 .. Len(seqs[i]) : seqs[i][p] = s[x]
        BY <2>3 DEF Gathers
      <4>2. PICK p \in 1 .. Len(seqs[i]) : seqs[i][p] = s[x]
        BY <4>1
      <4>3. i \in 1 .. N /\ i # n
        BY <2>1
      <4> QED
        BY <2>1, <2>7, <4>2, <4>3 DEF AllDifferent, t
    <3>4. ASSUME NEW x \in 1 .. Len(t), NEW y \in 1 .. Len(t), t[x].name = t[y].name PROVE x = y
      BY <2>1, <2>7, <3>4 DEF AllDifferent, t
    <3>5. CASE j \in 1 .. Len(s) /\ u[j] = s[j]
      <4>1. CASE k \in 1 .. Len(s) /\ u[k] = s[k]
        BY <3>1, <3>2, <3>5, <4>1 DEF Different
      <4>2. CASE k - Len(s) \in 1 .. Len(t) /\ u[k] = t[k - Len(s)]
        BY <3>1, <3>3, <3>5, <4>2
      <4> QED
        BY <2>4, <4>1, <4>2
    <3>6. CASE j - Len(s) \in 1 .. Len(t) /\ u[j] = t[j - Len(s)]
      <4>1. CASE k \in 1 .. Len(s) /\ u[k] = s[k]
        BY <3>1, <3>3, <3>6, <4>1
      <4>2. CASE k - Len(s) \in 1 .. Len(t) /\ u[k] = t[k - Len(s)]
        <5>1. j - Len(s) = k - Len(s)
          BY <3>1, <3>4, <3>6, <4>2
        <5>2. j \in Int /\ k \in Int
          OBVIOUS
        <5> QED
          BY <2>4, <5>1, <5>2
      <4> QED
        BY <2>4, <4>1, <4>2
    <3> QED
      BY <2>4, <3>5, <3>6
  <2> QED
    BY <2>2, <2>6, <2>7
<1> DEFINE K == {n \in 0 .. N : n = 0 \/ Good(n)}
<1>5. 0 \in K
  BY <1>2
<1> HIDE DEF Good
<1>6. ASSUME NEW n \in 0 .. (N - 1), n \in K PROVE n + 1 \in K
  <2>1. n + 1 \in 0 .. N /\ (n # 0 => n + 1 \in 2 .. N) /\ (n + 1) - 1 = n
    BY <1>2
  <2>2. CASE n = 0
    BY <1>3, <2>1, <2>2
  <2>3. CASE n # 0
    <3>1. Good((n + 1) - 1)
      BY <1>6, <2>1, <2>3
    <3>2. Good(n + 1)
      BY <1>4, <2>1, <2>3, <3>1
    <3> QED
      BY <2>1, <3>2
  <2> QED
    BY <2>2, <2>3
<1> HIDE DEF K
<1>7. \A n \in 0 .. N : n \in K
  BY <1>2, <1>5, <1>6, Induction
<1>8. Good(N)
  BY <1>2, <1>7 DEF K
<1>9. g[N] \in Seq(Entry)
  <2> HIDE DEF N
  <2> QED
    BY <1>1, <1>2
<1> QED
  BY <1>1, <1>8, <1>9 DEF Good
\* The entries in order are those the directory holds.
LEMMA EntriesOf ==
  ASSUME NEW node \in Node, blk \in [Block -> Seq(Entry)]
  PROVE  /\ Entries(node) \in Seq(Entry)
         /\ \A e : e \in Holds(node, blk) <=> \E k \in 1 .. Len(Entries(node)) : Entries(node)[k] = e
         /\ Distinct(node.blocks) /\ OneName(node, blk) => Different(Entries(node))
<1> DEFINE bs   == node.blocks
           seqs == [k \in DOMAIN bs |-> blk[bs[k]]]
           es   == Entries(node)
<1>1. bs \in Seq(Block) /\ DOMAIN bs = 1 .. Len(bs) /\ Len(bs) \in Nat /\ \A k \in 1 .. Len(bs) : bs[k] \in Block
  <2>1. bs \in Seq(Block)
    BY DEF Node
  <2> HIDE DEF bs
  <2> QED
    BY <2>1
<1>2. es = FlattenSeq(seqs)
  BY DEF Entries
<1>3. seqs \in Seq(Seq(Entry)) /\ Len(seqs) = Len(bs) /\ \A k \in 1 .. Len(bs) : seqs[k] = blk[bs[k]]
  <2> HIDE DEF bs
  <2>1. \A k \in 1 .. Len(bs) : blk[bs[k]] \in Seq(Entry)
    BY <1>1
  <2>2. seqs \in [1 .. Len(bs) -> Seq(Entry)]
    BY <1>1, <2>1
  <2> QED
    BY <1>1, <2>2
<1>4. \A e : e \in Holds(node, blk) <=> \E k \in 1 .. Len(bs) : \E p \in 1 .. Len(seqs[k]) : seqs[k][p] = e
  <2>1. ASSUME NEW e PROVE (\E k \in 1 .. Len(bs) : \E p \in 1 .. Len(seqs[k]) : seqs[k][p] = e) <=>
                           \E b \in Range(bs) : \E p \in 1 .. Len(blk[b]) : blk[b][p] = e
    <3> HIDE DEF seqs, bs
    <3>1. \A b : b \in Range(bs) <=> \E k \in 1 .. Len(bs) : bs[k] = b
      BY <1>1, RangeOf
    <3>2. ASSUME NEW k \in 1 .. Len(bs), NEW p \in 1 .. Len(seqs[k]), seqs[k][p] = e
          PROVE  \E b \in Range(bs) : \E i \in 1 .. Len(blk[b]) : blk[b][i] = e
      <4>1. bs[k] \in Range(bs) /\ seqs[k] = blk[bs[k]]
        BY <1>3, <3>1
      <4> QED
        BY <3>2, <4>1
    <3>3. ASSUME NEW b \in Range(bs), NEW p \in 1 .. Len(blk[b]), blk[b][p] = e
          PROVE  \E k \in 1 .. Len(bs) : \E i \in 1 .. Len(seqs[k]) : seqs[k][i] = e
      <4>1. PICK k \in 1 .. Len(bs) : bs[k] = b
        BY <3>1
      <4>2. seqs[k] = blk[b]
        BY <1>3, <4>1
      <4> QED
        BY <3>3, <4>2
    <3> QED
      BY <3>2, <3>3
  <2>2. ASSUME NEW b \in Range(bs), NEW p \in 1 .. Len(blk[b]) PROVE blk[b][p] \in Entry
    <3>1. b \in Block
      BY <1>1, RangeOf
    <3>2. blk[b] \in Seq(Entry)
      BY <3>1
    <3> QED
      BY <3>2
  <2>3. ASSUME NEW e
        PROVE  e \in Holds(node, blk) <=> \E b \in Range(bs) : \E p \in 1 .. Len(blk[b]) : blk[b][p] = e
    BY <2>2 DEF Holds
  <2> HIDE DEF seqs, bs
  <2> QED
    BY <2>1, <2>3
<1> HIDE DEF seqs, bs, es
<1>5. CASE Len(bs) = 0
  <2>1. es = << >>
    <3>1. es = seqs
      BY <1>2, <1>3, <1>5 DEF FlattenSeq
    <3> QED
      BY <1>3, <1>5, <3>1
  <2>2. es \in Seq(Entry) /\ Len(es) = 0
    BY <2>1
  <2>3. \A e : e \notin Holds(node, blk)
    BY <1>4, <1>5
  <2>4. Different(es)
    BY <2>2 DEF Different
  <2> QED
    BY <2>2, <2>3, <2>4 DEF es
<1>6. CASE Len(bs) # 0
  <2>1. /\ es \in Seq(Entry) /\ Gathers(es, seqs, Len(bs)) /\ (AllDifferent(seqs) => Different(es))
    <3>1. Len(seqs) > 0
      BY <1>1, <1>3, <1>6
    <3> QED
      BY <1>2, <1>3, <3>1, Gathered
  <2>2. \A e : e \in Holds(node, blk) <=> \E k \in 1 .. Len(es) : es[k] = e
    BY <1>4, <2>1 DEF Gathers
  <2>3. ASSUME Distinct(bs), OneName(node, blk) PROVE AllDifferent(seqs)
    <3>1. SUFFICES ASSUME NEW i \in 1 .. Len(seqs), NEW j \in 1 .. Len(seqs),
                          NEW p \in 1 .. Len(seqs[i]), NEW q \in 1 .. Len(seqs[j]),
                          seqs[i][p].name = seqs[j][q].name
                   PROVE  i = j /\ p = q
      BY DEF AllDifferent
    <3>2. /\ i \in 1 .. Len(bs) /\ seqs[i] = blk[bs[i]] /\ bs[i] \in Range(bs)
          /\ j \in 1 .. Len(bs) /\ seqs[j] = blk[bs[j]] /\ bs[j] \in Range(bs)
      BY <1>1, <1>3, RangeOf
    <3>3. bs[i] = bs[j] /\ p = q
      BY <2>3, <3>1, <3>2 DEF OneName, bs
    <3> QED
      BY <2>3, <3>2, <3>3 DEF Distinct
  <2> QED
    BY <2>1, <2>2, <2>3 DEF es, bs
<1> QED
  BY <1>1, <1>5, <1>6

\* A directory that counts its entries has as many in order, and no name twice.
LEMMA EntriesCounted ==
  ASSUME NEW node \in Node, blk \in [Block -> Seq(Entry)], Counts(node, blk)
  PROVE  Different(Entries(node)) /\ node.filesCount = Len(Entries(node))
<1> DEFINE es == Entries(node)
           H  == Holds(node, blk)
<1>1. es \in Seq(Entry) /\ Different(es) /\ \A e : e \in H <=> \E k \in 1 .. Len(es) : es[k] = e
  BY EntriesOf DEF Counts
<1>2. IsFiniteSet(H) /\ node.filesCount = Cardinality(H)
  BY DEF Counts
<1> HIDE DEF es, H
<1>3. Elements(es) = H
  BY <1>1 DEF Elements
<1>4. es \in Seq(H)
  <2>1. \A k \in 1 .. Len(es) : es[k] \in H
    BY <1>1
  <2> QED
    BY <1>1, <2>1
<1>5. Distinct(es)
  BY <1>1 DEF Different, Distinct
<1>6. Len(es) = Cardinality(H)
  BY <1>2, <1>3, <1>4, <1>5, DistinctCount
<1> QED
  BY <1>1, <1>2, <1>6 DEF es

-----------------------------------------------------------------------------
(* Lookups *)

\* A lookup in a directory finds what it holds.
LEMMA Found ==
  ASSUME Fits(inode, blk, Held), NEW d \in Inum \union {-1}, NEW name
  PROVE  /\ FindIn(d, name) \in Inum \union {-1}
         /\ \A n \in Inum : FindIn(d, name) = n <=>
              d # -1 /\ [name |-> name, inum |-> n] \in Holds(inode[d], blk)
         /\ \A n \in Inum : [name |-> name, inum |-> n] \in Holds(inode[d], blk) /\ d # -1 =>
              IsDir(d) /\ Has(d, name)
<1>1. -1 \notin Inum
  BY NamespaceAssumption DEF Inum
<1>2. CASE ~IsDir(d)
  <2>1. FindIn(d, name) = -1
    BY <1>2 DEF FindIn
  <2>2. d # -1 => Holds(inode[d], blk) = {}
    <3>1. d # -1 => d \in Inum /\ NoBlocks(inode[d])
      BY <1>2 DEF Fits, IsDir
    <3> QED
      BY <3>1, NoEntries
  <2> QED
    BY <1>1, <2>1, <2>2
<1>3. CASE IsDir(d)
  <2> DEFINE es == Entries(inode[d])
             k  == PlaceOf(es, name)
  <2>1. d \in Inum /\ d # -1 /\ inode[d] \in Node /\ Counts(inode[d], blk) /\ blk \in [Block -> Seq(Entry)]
    BY <1>3 DEF IsDir, Fits
  <2>2. /\ es \in Seq(Entry)
        /\ \A e : e \in Holds(inode[d], blk) <=> \E i \in 1 .. Len(es) : es[i] = e
    BY <2>1, EntriesOf
  <2>3. Different(es)
    BY <2>1, EntriesCounted
  <2>4. FindIn(d, name) = IF k = 0 THEN -1 ELSE es[k].inum
    BY <1>3 DEF FindIn
  <2>5. Has(d, name) <=> \E i \in 1 .. Len(es) : es[i].name = name
    BY <1>3, <2>2 DEF Has
  <2> HIDE DEF es
  <2>6. /\ k \in 0 .. Len(es)
        /\ k # 0 => es[k].name = name
        /\ k = 0 => \A i \in 1 .. Len(es) : es[i].name # name
    BY <2>2, PlaceOfName
  <2> HIDE DEF k
  <2>7. \A i \in 1 .. Len(es) : es[i] \in Entry
    BY <2>2
  <2>8. FindIn(d, name) \in Inum \union {-1}
    <3>1. k # 0 => k \in 1 .. Len(es)
      BY <2>6
    <3> QED
      BY <2>4, <2>7, <3>1 DEF Entry
  <2>9. ASSUME NEW n \in Inum, [name |-> name, inum |-> n] \in Holds(inode[d], blk)
        PROVE  FindIn(d, name) = n /\ Has(d, name)
    <3>1. PICK i \in 1 .. Len(es) : es[i] = [name |-> name, inum |-> n]
      BY <2>2, <2>9
    <3>2. es[i].name = name /\ es[i].inum = n
      BY <3>1
    <3>3. k # 0 /\ k \in 1 .. Len(es)
      BY <2>6, <3>2
    <3>4. i = k
      BY <2>3, <2>6, <3>2, <3>3 DEF Different
    <3> QED
      BY <2>4, <2>5, <3>2, <3>3, <3>4
  <2>10. ASSUME NEW n \in Inum, FindIn(d, name) = n
         PROVE  [name |-> name, inum |-> n] \in Holds(inode[d], blk)
    <3>1. k # 0 /\ k \in 1 .. Len(es) /\ es[k].name = name /\ es[k].inum = n
      BY <1>1, <2>4, <2>6, <2>10
    <3>2. es[k] = [name |-> name, inum |-> n]
      BY <2>7, <3>1 DEF Entry
    <3> QED
      BY <2>2, <3>1, <3>2
  <2> QED
    BY <1>3, <2>1, <2>8, <2>9, <2>10
<1> QED
  BY <1>2, <1>3

\* get_inode_of_File finds what the path leads to.
LEMMA Lookup ==
  ASSUME Fits(inode, blk, Held), NEW path \in Seq(Name)
  PROVE  /\ get_inode_of_File(path) \in Inum \union {-1}
         /\ \A n \in Inum : get_inode_of_File(path) = n <=> LeadsTo(Edges(inode, blk), path, n)
<1> DEFINE N    == Len(path)
           T    == Inum \union {-1}
           E    == Edges(inode, blk)
           root == ROOT_DIR_INODE_NUM
           step == [k \in 1 .. N |-> [d \in T |-> FindIn(d, path[k])]]
           is(g) == g = [k \in 0 .. N |-> IF k = 0 THEN root ELSE FindIn(g[k - 1], path[k])]
           at   == CHOOSE g : is(g)
<1>1. get_inode_of_File(path) = at[N]
  BY DEF get_inode_of_File
<1>2. N \in Nat /\ root \in Inum /\ -1 \notin Inum /\ \A k \in 1 .. N : path[k] \in Name
  BY NamespaceAssumption DEF Inum, ROOT_DIR_INODE_NUM
<1> HIDE DEF N, at, root
<1>3. step \in [1 .. N -> [T -> T]]
  <2>1. \A d \in T, k \in 1 .. N : FindIn(d, path[k]) \in T
    BY Found
  <2> HIDE DEF T
  <2> QED
    BY <2>1
<1>4. \A k \in 1 .. N : \A d \in T : step[k][d] = FindIn(d, path[k])
  OBVIOUS
<1> HIDE DEF step
<1>5. PICK g \in [0 .. N -> T] : g[0] = root /\ \A k \in 1 .. N : g[k] = step[k][g[k - 1]]
  <2>1. root \in T /\ N \in Nat
    BY <1>2
  <2> HIDE DEF T, is
  <2>2. \E g \in [0 .. N -> T] : Recurs(N, root, step, g)
    BY <1>3, <2>1, Recursion
  <2> QED
    BY <2>2 DEF Recurs
<1>6. is(g)
  <2>1. ASSUME NEW k \in 0 .. N PROVE g[k] = IF k = 0 THEN root ELSE FindIn(g[k - 1], path[k])
    <3>1. k # 0 => k \in 1 .. N /\ k - 1 \in 0 .. N /\ g[k - 1] \in T
      BY <1>2, <1>5
    <3> QED
      BY <1>4, <1>5, <3>1
  <2>2. g = [k \in 0 .. N |-> g[k]]
    BY <1>5
  <2> QED
    BY <2>1, <2>2
<1>7. is(at)
  <2> HIDE DEF is
  <2> QED
    BY <1>6 DEF at
<1>8. at[0] = root /\ \A k \in 1 .. N : at[k] = FindIn(at[k - 1], path[k])
  <2>1. \A k \in 0 .. N : at[k] = IF k = 0 THEN root ELSE FindIn(at[k - 1], path[k])
    BY <1>7
  <2>2. 0 \in 0 .. N /\ \A k \in 1 .. N : k \in 0 .. N /\ k # 0
    BY <1>2
  <2> QED
    BY <2>1, <2>2
<1> HIDE DEF is
<1>9. \A k \in 0 .. N : at[k] \in T
  <2> DEFINE K == {k \in 0 .. N : at[k] \in T}
  <2>1. 0 \in K
    BY <1>2, <1>8
  <2>2. ASSUME NEW k \in 0 .. (N - 1), k \in K PROVE k + 1 \in K
    <3>1. k + 1 \in 1 .. N /\ (k + 1) - 1 = k
      BY <1>2
    <3>2. at[k + 1] = FindIn(at[k], path[k + 1])
      BY <1>8, <3>1
    <3>3. at[k] \in Inum \union {-1}
      BY <2>2
    <3>4. FindIn(at[k], path[k + 1]) \in Inum \union {-1}
      BY <3>3, Found
    <3> QED
      BY <3>1, <3>2, <3>4
  <2> HIDE DEF K
  <2>3. \A k \in 0 .. N : k \in K
    BY <1>2, <2>1, <2>2, Induction
  <2> QED
    BY <2>3 DEF K
<1> HIDE DEF E
<1>10. ASSUME NEW k \in 1 .. N, NEW n \in Inum
       PROVE  at[k] = n <=> at[k - 1] \in Inum /\ <<at[k - 1], path[k], n>> \in E
  <2>1. k - 1 \in 0 .. N /\ at[k - 1] \in T
    BY <1>2, <1>9
  <2>2. at[k] = n <=> at[k - 1] # -1 /\ [name |-> path[k], inum |-> n] \in Holds(inode[at[k - 1]], blk)
    BY <1>8, <2>1, Found
  <2>3. at[k - 1] # -1 <=> at[k - 1] \in Inum
    BY <1>2, <2>1
  <2> QED
    BY <1>2, <2>2, <2>3, EdgeIn DEF E
<1>11. ASSUME NEW n \in Inum, at[N] = n PROVE LeadsTo(E, path, n)
  <2> DEFINE K == {j \in 0 .. N : at[N - j] \in Inum}
  <2>1. 0 \in K
    BY <1>2, <1>11
  <2>2. ASSUME NEW j \in 0 .. (N - 1), j \in K PROVE j + 1 \in K
    <3>1. N - j \in 1 .. N /\ (N - j) - 1 = N - (j + 1) /\ j + 1 \in 0 .. N
      BY <1>2
    <3>2. at[(N - j) - 1] \in Inum
      BY <1>10, <2>2, <3>1
    <3> QED
      BY <3>1, <3>2
  <2> HIDE DEF K
  <2>3. \A j \in 0 .. N : j \in K
    BY <1>2, <2>1, <2>2, Induction
  <2>4. ASSUME NEW k \in 0 .. N PROVE at[k] \in Inum
    <3>1. N - k \in 0 .. N /\ N - (N - k) = k
      BY <1>2
    <3>2. N - k \in K
      BY <2>3, <3>1
    <3> QED
      BY <3>1, <3>2 DEF K
  <2> DEFINE f == [k \in 0 .. N |-> at[k]]
  <2>5. f \in [0 .. N -> Inum] /\ f[0] = root /\ f[N] = n
    BY <1>2, <1>8, <1>11, <2>4
  <2>6. ASSUME NEW k \in 1 .. N PROVE <<f[k - 1], path[k], f[k]>> \in E
    <3>1. f[k - 1] = at[k - 1] /\ f[k] = at[k] /\ at[k] \in Inum
      BY <1>2, <2>4
    <3> QED
      BY <1>10, <3>1
  <2> HIDE DEF f
  <2>7. Along(E, path, f)
    BY <2>5, <2>6 DEF Along, N, root
  <2> QED
    BY <2>5, <2>7 DEF LeadsTo, N
<1>12. ASSUME NEW n \in Inum, LeadsTo(E, path, n) PROVE at[N] = n
  <2>1. PICK f \in [0 .. N -> Inum] : Along(E, path, f) /\ f[N] = n
    BY <1>12 DEF LeadsTo, N
  <2> DEFINE K == {k \in 0 .. N : at[k] = f[k]}
  <2>2. 0 \in K
    BY <1>2, <1>8, <2>1 DEF Along, root
  <2>3. ASSUME NEW k \in 0 .. (N - 1), k \in K PROVE k + 1 \in K
    <3>1. k + 1 \in 1 .. N /\ (k + 1) - 1 = k /\ k \in 0 .. N /\ f[k] \in Inum /\ f[k + 1] \in Inum
      BY <1>2
    <3>2. <<f[k], path[k + 1], f[k + 1]>> \in E
      BY <2>1, <3>1 DEF Along, N
    <3>3. at[k] = f[k]
      BY <2>3
    <3>4. at[k + 1] = f[k + 1]
      BY <1>10, <3>1, <3>2, <3>3
    <3> QED
      BY <3>1, <3>4
  <2> HIDE DEF K
  <2>4. \A k \in 0 .. N : k \in K
    BY <1>2, <2>2, <2>3, Induction
  <2>5. N \in K
    BY <1>2, <2>4
  <2> QED
    BY <2>1, <2>5 DEF K
<1>13. at[N] \in T
  BY <1>2, <1>9
<1> QED
  BY <1>1, <1>11, <1>12, <1>13 DEF E

-----------------------------------------------------------------------------
(* What an addition, a removal and an emptied inode leave as it was *)

\* With the inodes tab2, the blocks bk2 and the allocated ones u2 the names are E2, and all the
\* rest is as before.
Becomes(tab2, bk2, u2, E2) ==
  /\ Fits(tab2, bk2, u2) /\ Edges(tab2, bk2) = E2 /\ Alloc(tab2) = Alloc(inode)
  /\ \A half, B : Finished(inode, blk, half, B) => Finished(tab2, bk2, half, B)

\* The same, when directory d becomes another that holds H.
Kept(d, tab2, bk2, u2, H) ==
  /\ Alloc(tab2) = Alloc(inode) /\ \A half, B : Finished(inode, blk, half, B) => Finished(tab2, bk2, half, B)
  /\ Fits(tab2, bk2, u2) /\ Holds(tab2[d], bk2) = H
  /\ \A m \in Inum \ {d} : Holds(tab2[m], bk2) = Holds(inode[m], blk)

\* A change of the names of one directory keeps the rest.
LEMMA RestKept ==
  ASSUME inode \in [Inum -> Node], NEW d \in Inum, NEW node, NEW bk, NEW u, NEW H, Changed(d, node, bk, u, H),
         \A e \in Holds(inode[d], blk) : e.name \notin Name => e \in H
  PROVE  Kept(d, [inode EXCEPT ![d] = node], bk, u, H)
<1> DEFINE tab2 == [inode EXCEPT ![d] = node]
<1>1. tab2[d] = node /\ \A m \in Inum \ {d} : tab2[m] = inode[m]
  OBVIOUS
<1>2. Fits(tab2, bk, u)
  BY DEF Changed
<1> HIDE DEF tab2
<1>3. \A m \in Inum : /\ tab2[m].is_allocated = inode[m].is_allocated /\ tab2[m].dir = inode[m].dir
                      /\ tab2[m].linkCount = inode[m].linkCount
  BY <1>1 DEF Changed
<1>4. Alloc(tab2) = Alloc(inode)
  BY <1>3 DEF Alloc
<1>5. Holds(tab2[d], bk) = H /\ \A m \in Inum \ {d} : Holds(tab2[m], bk) = Holds(inode[m], blk)
  BY <1>1 DEF Changed
<1>6. \A m \in Inum : \A e \in Holds(inode[m], blk) : e.name \notin Name => e \in Holds(tab2[m], bk)
  BY <1>5
<1>7. ASSUME NEW half, NEW B, Finished(inode, blk, half, B) PROVE Finished(tab2, bk, half, B)
  <2>1. tab2[ROOT_DIR_INODE_NUM].is_allocated /\ tab2[ROOT_DIR_INODE_NUM].dir
    BY <1>3, <1>7, NamespaceAssumption DEF Finished, Inum, ROOT_DIR_INODE_NUM
  <2>2. ASSUME NEW m \in Inum \ half, tab2[m].is_allocated
        PROVE  /\ m # ROOT_DIR_INODE_NUM => tab2[m].linkCount = 1
               /\ tab2[m].dir /\ m \notin B => /\ [name |-> Dot, inum |-> m] \in Holds(tab2[m], bk)
                                              /\ \E p \in Inum : [name |-> DotDot, inum |-> p] \in Holds(tab2[m], bk)
    <3>1. m # ROOT_DIR_INODE_NUM => tab2[m].linkCount = 1
      BY <1>3, <1>7, <2>2 DEF Finished
    <3>2. ASSUME tab2[m].dir, m \notin B
          PROVE  /\ [name |-> Dot, inum |-> m] \in Holds(tab2[m], bk)
                 /\ \E p \in Inum : [name |-> DotDot, inum |-> p] \in Holds(tab2[m], bk)
      <4>1. /\ [name |-> Dot, inum |-> m] \in Holds(inode[m], blk)
            /\ \E p \in Inum : [name |-> DotDot, inum |-> p] \in Holds(inode[m], blk)
        BY <1>3, <1>7, <2>2, <3>2 DEF Finished
      <4>2. [name |-> Dot, inum |-> m].name \notin Name /\ \A p : [name |-> DotDot, inum |-> p].name \notin Name
        BY NamespaceAssumption
      <4> QED
        BY <1>6, <4>1, <4>2
    <3> QED
      BY <3>1, <3>2
  <2> QED
    BY <2>1, <2>2 DEF Finished
<1> QED
  BY <1>2, <1>4, <1>5, <1>7 DEF Kept, tab2

\* The directory has the blocks it had and perhaps one for the entry.
Extended(d, node, bk, entry) ==
  /\ node \in Node /\ node.is_allocated /\ node.dir
  /\ Range(inode[d].blocks) \subseteq Range(node.blocks) /\ Owns(inode[d]) \subseteq Owns(node)
  /\ \A b \in Range(node.blocks) \ Range(inode[d].blocks) : bk[b] = <<entry>>

\* The directory has the blocks it had.
Lessened(d, node) ==
  /\ node \in Node /\ node.is_allocated = inode[d].is_allocated /\ node.dir = inode[d].dir
  /\ node.blocks = inode[d].blocks /\ node.addresses = inode[d].addresses

\* add_directory_entry adds one edge.
LEMMA NameAdded ==
  ASSUME Fits(inode, blk, Held), Accounts, NEW d \in Inum, inode[d].is_allocated, inode[d].dir,
         NEW n \in Inum, NEW name \in Name,
         \A m \in Inum \union {-1} : <<d, name, m>> \notin Edges(inode, blk)
  PROVE  LET added == add_directory_entry(inode[d], n, name)
         IN  /\ AccountsAfter(added)
             /\ ~added.ok => added.node = inode[d] /\ added.blk = blk /\ HeldAfter(added) = Held
             /\ added.ok =>
                  /\ Becomes([inode EXCEPT ![d] = added.node], added.blk, HeldAfter(added),
                             Edges(inode, blk) \union {<<d, name, n>>})
                  /\ Extended(d, added.node, added.blk, [name |-> name, inum |-> n])
<1> DEFINE added == add_directory_entry(inode[d], n, name)
           entry == [name |-> name, inum |-> n]
           H     == Holds(inode[d], blk) \union {entry}
           tab2  == [inode EXCEPT ![d] = added.node]
<1>1. ASSUME NEW f \in Holds(inode[d], blk) PROVE f.name # name
  <2>1. f \in Entry
    BY DEF Holds
  <2>2. f.name = name => f = [name |-> name, inum |-> f.inum] /\ f.inum \in Inum \union {-1}
    BY <2>1 DEF Entry
  <2> QED
    BY <2>2, EdgeIn
<1>2. /\ AccountsAfter(added) /\ (~added.ok => added.node = inode[d] /\ added.blk = blk /\ HeldAfter(added) = Held)
      /\ added.ok => Changed(d, added.node, added.blk, HeldAfter(added), H) /\ Extended(d, added.node, added.blk, entry)
  <2>1. name \in Name \union {Dot, DotDot} /\ \A f \in Holds(inode[d], blk) : f.name # name
    BY <1>1
  <2>2. /\ AccountsAfter(added) /\ (~added.ok => added.node = inode[d] /\ added.blk = blk /\ HeldAfter(added) = Held)
        /\ added.ok => /\ Changed(d, added.node, added.blk, HeldAfter(added), H)
                       /\ Range(inode[d].blocks) \subseteq Range(added.node.blocks)
                       /\ Owns(inode[d]) \subseteq Owns(added.node)
                       /\ \A b \in Range(added.node.blocks) \ Range(inode[d].blocks) : added.blk[b] = <<entry>>
    BY <2>1, Added
  <2> HIDE DEF added, H, entry
  <2> QED
    BY <2>2 DEF Changed, Extended
<1> SUFFICES ASSUME added.ok
             PROVE  Becomes(tab2, added.blk, HeldAfter(added), Edges(inode, blk) \union {<<d, name, n>>})
  BY <1>2
<1>3. \A e \in Holds(inode[d], blk) : e.name \notin Name => e \in H
  OBVIOUS
<1>4. inode \in [Inum -> Node]
  BY DEF Fits
<1> HIDE DEF added, H
<1>5. Kept(d, tab2, added.blk, HeldAfter(added), H)
  BY <1>2, <1>3, <1>4, RestKept
<1> HIDE DEF tab2
<1>6. /\ Holds(tab2[d], added.blk) = Holds(inode[d], blk) \union {[name |-> name, inum |-> n]}
      /\ \A m \in Inum \ {d} : Holds(tab2[m], added.blk) = Holds(inode[m], blk)
  BY <1>5 DEF Kept, H
<1> HIDE DEF entry
<1> DEFINE bk2 == added.blk
<1>7. Edges(tab2, bk2) = Edges(inode, blk) \union {<<d, name, n>>}
  <2> HIDE DEF bk2
  <2>1. /\ Holds(tab2[d], bk2) = Holds(inode[d], blk) \union {[name |-> name, inum |-> n]}
        /\ \A m \in Inum \ {d} : Holds(tab2[m], bk2) = Holds(inode[m], blk)
    BY <1>6 DEF bk2
  <2> QED
    BY <2>1, EdgeAdded
<1> QED
  BY <1>5, <1>7 DEF Becomes, Kept, tab2, added

\* remove_from_directory takes one edge away.
LEMMA NameDropped ==
  ASSUME Fits(inode, blk, Held), NEW d \in Inum, NEW n \in Inum, NEW name \in Name,
         <<d, name, n>> \in Edges(inode, blk)
  PROVE  LET removed == remove_from_directory(inode[d], name)
         IN  /\ Becomes([inode EXCEPT ![d] = removed.node], removed.blk, Held, Edges(inode, blk) \ {<<d, name, n>>})
             /\ Lessened(d, removed.node)
<1> DEFINE removed == remove_from_directory(inode[d], name)
           entry   == [name |-> name, inum |-> n]
           H       == Holds(inode[d], blk) \ {entry}
           tab2    == [inode EXCEPT ![d] = removed.node]
<1>1. entry \in Holds(inode[d], blk)
  BY EdgeIn
<1>2. Changed(d, removed.node, removed.blk, Held, H) /\ Lessened(d, removed.node)
  BY <1>1, Dropped DEF Changed, Lessened
<1>3. \A e \in Holds(inode[d], blk) : e.name \notin Name => e \in H
  OBVIOUS
<1>4. inode \in [Inum -> Node]
  BY DEF Fits
<1> HIDE DEF removed, H
<1>5. Kept(d, tab2, removed.blk, Held, H)
  BY <1>2, <1>3, <1>4, RestKept
<1> HIDE DEF tab2
<1>6. /\ Holds(tab2[d], removed.blk) = Holds(inode[d], blk) \ {[name |-> name, inum |-> n]}
      /\ \A m \in Inum \ {d} : Holds(tab2[m], removed.blk) = Holds(inode[m], blk)
  BY <1>5 DEF Kept, H
<1> HIDE DEF entry
<1>7. Edges(tab2, removed.blk) = Edges(inode, blk) \ {<<d, name, n>>}
  BY <1>6, EdgeDropped, SMTT(60)
<1> QED
  BY <1>2, <1>5, <1>7 DEF Becomes, Kept, tab2, removed

\* The inode d loses its blocks, and the names in it.
Loses(d, tab, bk, u, tab2) ==
  /\ Fits(tab2, bk, u \ Owns(tab[d])) /\ Edges(tab2, bk) = Edges(tab, bk) \ OutOf(d, Edges(tab, bk))
  /\ NoNames(tab[d], bk) => Edges(tab2, bk) = Edges(tab, bk)
  /\ \A m \in Inum \ {d} : tab2[m] = tab[m] /\ Holds(tab2[m], bk) = Holds(tab[m], bk)

\* An inode may lose its blocks.
LEMMA Emptied ==
  ASSUME NEW tab, NEW bk, NEW u, Fits(tab, bk, u), NEW d \in Inum,
         NEW node \in Node, NoBlocks(node), node.filesCount = 0
  PROVE  Loses(d, tab, bk, u, [tab EXCEPT ![d] = node])
<1> DEFINE tab2 == [tab EXCEPT ![d] = node]
<1>1. Range(node.blocks) = {} /\ Owns(node) = {} /\ Holds(node, bk) = {} /\ Counts(node, bk)
  BY NoEntries
<1>2. /\ Fits(tab2, bk, (u \ Owns(tab[d])) \union Owns(node))
      /\ OthersKept(d, tab, bk, tab2, bk)
  <2>1. bk \in [Block -> Seq(Entry)]
    BY DEF Fits
  <2>2. \A m \in Inum \ {d} : /\ Owns(node) \intersect Owns(tab[m]) = {}
                              /\ \A b \in Range(tab[m].blocks) : bk[b] = bk[b]
    BY <1>1
  <2> QED
    BY <1>1, <2>1, <2>2, Replaced
<1>3. (u \ Owns(tab[d])) \union Owns(node) = u \ Owns(tab[d])
  BY <1>1
<1>4. tab2[d] = node
  BY DEF Fits
<1> HIDE DEF tab2
<1>5. \A m \in Inum \ {d} : tab2[m] = tab[m] /\ Holds(tab2[m], bk) = Holds(tab[m], bk)
  BY <1>2 DEF OthersKept
<1>6. NoNames(tab2[d], bk)
  BY <1>1, <1>4 DEF NoNames
<1>7. Edges(tab2, bk) = Edges(tab, bk) \ OutOf(d, Edges(tab, bk))
  BY <1>2, <1>6, EdgesOut
<1>8. NoNames(tab[d], bk) => Edges(tab2, bk) = Edges(tab, bk)
  BY <1>5, <1>6, EdgesKept
<1>9. Fits(tab2, bk, u \ Owns(tab[d]))
  BY <1>2, <1>3
<1> QED
  BY <1>5, <1>7, <1>8, <1>9 DEF tab2, Loses

-----------------------------------------------------------------------------
(* Names and directories at the steps of the handlers *)

Pc == op.pc

-----------------------------------------------------------------------------
(* The inductive invariant *)

\* The inodes as they are when the write of the parent, of a removal, or of a directory
\* with its "." and ".." is done.
Parented == [inode EXCEPT ![op.parent] = op.node]
Removed  == [inode EXCEPT ![op.parent] = op.node, ![op.child] = Deleted(op.child)]
Dotted   == [inode EXCEPT ![op.child] = op.node]

ParentIsDir ==
  /\ op.parent \in Inum /\ inode[op.parent].is_allocated /\ inode[op.parent].dir
  /\ op.node.is_allocated /\ op.node.dir

ChildIsOther == op.child \in Inum \ {ROOT_DIR_INODE_NUM, op.parent} /\ inode[op.child].is_allocated

\* createInode has just taken the child.
Newborn == ChildIsOther /\ inode[op.child].linkCount = 0 /\ NoBlocks(inode[op.child])

Unnamed(tab, d, name) == \A e \in Edges(tab, blk) : ~(e[1] = d /\ e[2] = name)

NewEntry == [name |-> Last(op.path), inum |-> op.child]

NewEdge == <<op.parent, Last(op.path), op.child>>

\* The copy of the parent has the blocks of the parent, and perhaps a new one for the entry.
Grown ==
  /\ Range(inode[op.parent].blocks) \subseteq Range(op.node.blocks) /\ Owns(inode[op.parent]) \subseteq Owns(op.node)
  /\ \A b \in Range(op.node.blocks) \ Range(inode[op.parent].blocks) : blk[b] = <<NewEntry>>

\* The source of a rename is there, and neither path is above the other.
Renaming(tab) ==
  op.call = "rename" =>
    /\ op.from \in Path /\ ~IsPrefix(op.from, op.path) /\ ~IsPrefix(op.path, op.from)
    /\ \E n \in Inum : LeadsTo(Edges(tab, blk), op.from, n)

Vacant(tab) == \A n \in Inum : ~LeadsTo(Edges(tab, blk), op.path, n)

\* The child has its new name and still the old one, without which the names are a tree.
TwoNames(tab) ==
  /\ Fits(tab, blk, Held) /\ Finished(tab, blk, {}, bare)
  /\ op.from \in Path
  /\ \E d \in Inum :
       LET old == <<d, Last(op.from), op.child>>
       IN  /\ old \in Edges(tab, blk) /\ LeadsTo(Edges(tab, blk), Front(op.from), d)
           /\ Treelike(Edges(tab, blk) \ {old}, Alloc(tab), Roots)
           /\ NewEdge \in Edges(tab, blk) \ {old}

Handlers == {"idle", "create", "add", "undo", "parent", "child", "dots", "self",
             "remove", "free", "node", "upper", "link", "linked", "drop", "dropped"}

Handling ==
  [pc : Handlers, call : {"none", "mknod", "mkdir", "unlink", "rename"},
   path : Seq(Name), from : Seq(Name),
   parent : Inum \union {-1}, child : Inum \union {-1}, node : Node]

Typed ==
  /\ inode \in [Inum -> Node] /\ blk \in [Block -> Seq(Entry)]
  /\ op \in Handling
  /\ Pc # "idle" => op.path \in Path

\* Nothing is half done on the disk.
AtRest == Sound(inode, blk, Held, {}, bare, Roots)

\* The parent is loaded and has not the name.
Loaded == ParentIsDir /\ op.node = inode[op.parent] /\ Unnamed(inode, op.parent, Last(op.path))

\* The child is taken and has no name.
HalfMade ==
  /\ Newborn /\ Fits(inode, blk, Held) /\ Finished(inode, blk, {op.child}, bare)
  /\ Treelike(Edges(inode, blk), Alloc(inode) \ {op.child}, Roots)

InParent == Newborn /\ ParentIsDir /\ Grown /\ Sound(Parented, blk, Held, {op.child}, bare, Roots)

InChild == op.parent \in Inum /\ Newborn /\ Sound(inode, blk, Held, {op.child}, bare, Roots)

InDots ==
  /\ op.parent \in Inum /\ ChildIsOther
  /\ inode[op.child].dir /\ inode[op.child].linkCount = 1
  /\ NoBlocks(inode[op.child]) /\ Sound(inode, blk, Held, {op.child}, bare, Roots)

InSelf ==
  /\ ChildIsOther /\ NoBlocks(inode[op.child]) /\ op.node.is_allocated
  /\ NoNames(op.node, blk) /\ Sound(Dotted, blk, Held, {}, bare, Roots)

\* The child has its last link and, unless it is bare, no name in it; it has at most two entries.
Doomed ==
  /\ ChildIsOther /\ inode[op.child].linkCount = 1
  /\ inode[op.child].dir \/ NoBlocks(inode[op.child])
  /\ Counts(inode[op.child], blk) /\ inode[op.child].filesCount <= 2
  /\ op.child \in bare \/ NoNames(inode[op.child], blk)

\* What the names in the child lead to.
Targets == {e[3] : e \in OutOf(op.child, Edges(inode, blk))}

InRemove ==
  /\ AtRest /\ Doomed /\ ParentIsDir /\ op.node = inode[op.parent]
  /\ LeadsTo(Edges(inode, blk), op.path, op.child) /\ NewEdge \in Edges(inode, blk)
  /\ Renaming(inode)

\* The copy of the parent counts one entry less.
Shrunk ==
  /\ ParentIsDir
  /\ op.node.blocks = inode[op.parent].blocks /\ op.node.addresses = inode[op.parent].addresses

InFree ==
  /\ Doomed /\ Shrunk /\ Renaming(Removed) /\ Vacant(Removed)
  /\ Owns(inode[op.child]) \subseteq Held
  /\ Sound(Removed, blk, Held \ Owns(inode[op.child]), {}, bare, Roots \union Targets)

InNode ==
  /\ Doomed /\ Shrunk /\ Renaming(Removed) /\ Vacant(Removed)
  /\ Owns(inode[op.child]) \intersect Held = {}
  /\ Sound(Removed, blk, Held, {}, bare, Roots \union Targets)

InUpper == Shrunk /\ Sound(Parented, blk, Held, {}, bare, Roots) /\ Renaming(Parented) /\ Vacant(Parented)

InLink == AtRest /\ op.call = "rename" /\ Renaming(inode) /\ Vacant(inode)

InLinked == ParentIsDir /\ Grown /\ op.child \in Inum /\ TwoNames(Parented)

InDrop == op.child \in Inum /\ op.parent \in Inum /\ TwoNames(inode)

InDropped == Shrunk /\ Sound(Parented, blk, Held, {}, bare, Roots)

Clean ==
  /\ Typed
  /\ Pc = "idle" => AtRest
  /\ Pc = "create" => AtRest /\ Loaded
  /\ Pc = "add" => HalfMade /\ Loaded
  /\ Pc = "undo" => HalfMade
  /\ Pc = "parent" => InParent
  /\ Pc = "child" => InChild
  /\ Pc = "dots" => InDots
  /\ Pc = "self" => InSelf
  /\ Pc = "remove" => InRemove
  /\ Pc = "free" => InFree
  /\ Pc = "node" => InNode
  /\ Pc = "upper" => InUpper
  /\ Pc = "link" => InLink
  /\ Pc = "linked" => InLinked
  /\ Pc = "drop" => InDrop
  /\ Pc = "dropped" => InDropped

Recorded == Accounts /\ bare \subseteq Inum

\* While no handler was cut short.
Inv == torn = {} => Clean /\ Recorded

-----------------------------------------------------------------------------
(* What holds when no handler runs *)

\* The paths of requests have a name.
LEMMA PathIs ==
  ASSUME NEW p \in Path
  PROVE  /\ p \in Seq(Name) /\ p # << >> /\ Len(p) \in Nat /\ Len(p) > 0
         /\ Front(p) \in Seq(Name) /\ Len(Front(p)) = Len(p) - 1 /\ Last(p) \in Name
<1>1. p \in Seq(Name) /\ p # << >>
  BY NamespaceAssumption DEF Path, BoundedSeq, SeqOf
<1> QED
  BY <1>1, FrontOf

\* The root is an inode, and -1 is none.
LEMMA RootIs == ROOT_DIR_INODE_NUM \in Inum /\ -1 \notin Inum
  BY NamespaceAssumption DEF Inum, ROOT_DIR_INODE_NUM

\* A step of a handler keeps the history, but for what it says.
LEMMA SameHistory ==
  ASSUME Same
  PROVE  UNCHANGED <<bare, stranded, lost, torn>>
  BY DEF Same, history

\* What follows from the history stays with it.
LEMMA HistoryKept ==
  ASSUME UNCHANGED <<bare, stranded, lost>>
  PROVE  bare' = bare /\ Roots' = Roots /\ (used' = used => Held' = Held /\ (Recorded => Recorded'))
  BY DEF Roots, Held, Recorded, Accounts

\* The inodes between two requests.
LEMMA RestIs ==
  ASSUME AtRest
  PROVE  /\ Fits(inode, blk, Held) /\ Finished(inode, blk, {}, bare) /\ Treelike(Edges(inode, blk), Alloc(inode), Roots)
         /\ inode \in [Inum -> Node] /\ blk \in [Block -> Seq(Entry)]
  BY DEF AtRest, Sound, Fits

\* bootUpFileSytem leaves a root directory that is at rest.
LEMMA InitIsClean ==
  ASSUME Init
  PROVE  Clean
<1> DEFINE dot    == [name |-> Dot, inum |-> 0]
           dotdot == [name |-> DotDot, inum |-> 0]
           root   == [EmptyDir EXCEPT !.filesCount = 2, !.blocks = <<1>>]
<1>1. /\ 0 \in Inum /\ 1 \in Block /\ dot \in Entry /\ dotdot \in Entry /\ dot # dotdot
      /\ dot.name \notin Name /\ dotdot.name \notin Name /\ Dot # DotDot
  <2>1. 0 \in Inum /\ 1 \in Block
    BY NamespaceAssumption DEF Inum, Block
  <2> QED
    BY <2>1, NamespaceAssumption DEF Entry
<1>2. /\ root \in Node /\ Free \in Node /\ root.is_allocated /\ root.dir /\ root.filesCount = 2
      /\ root.blocks = <<1>> /\ root.addresses = {} /\ NoBlocks(Free) /\ Free.filesCount = 0 /\ ~Free.is_allocated
  <2>1. <<1>> \in Seq(Block) /\ << >> \in Seq(Block)
    BY <1>1
  <2>2. root \in Node
    <3> DEFINE counted == [EmptyDir EXCEPT !.filesCount = 2]
    <3>1. counted \in Node
      <4>1. ASSUME NEW node \in Node PROVE [node EXCEPT !.filesCount = 2] \in Node
        BY DEF Node
      <4> QED
        BY <4>1, EmptyNodes
    <3> HIDE DEF counted
    <3>2. [counted EXCEPT !.blocks = <<1>>] \in Node
      BY <2>1, <3>1 DEF Node
    <3> QED
      BY <3>2 DEF counted
  <2>3. root.is_allocated /\ root.dir /\ root.filesCount = 2 /\ root.blocks = <<1>> /\ root.addresses = {}
    BY DEF EmptyDir, Free
  <2>4. NoBlocks(Free) /\ Free.filesCount = 0 /\ ~Free.is_allocated
    BY DEF Free, NoBlocks
  <2> HIDE DEF root
  <2> QED
    BY <2>2, <2>3, <2>4, EmptyNodes
<1>3. /\ Range(root.blocks) = {1} /\ Owns(root) = {1} /\ Owns(Free) = {} /\ Distinct(root.blocks)
  <2>1. Range(root.blocks) = {1} /\ Distinct(root.blocks)
    BY <1>2 DEF Range, Distinct
  <2>2. Owns(Free) = {}
    BY <1>2, NoEntries
  <2> HIDE DEF root
  <2> QED
    BY <1>2, <2>1, <2>2 DEF Owns
<1> HIDE DEF root
<1>4. /\ inode \in [Inum -> Node] /\ inode[0] = root /\ \A n \in Inum \ {0} : inode[n] = Free
  BY <1>1, <1>2 DEF Init, ROOT_DIR_INODE_NUM, root
<1>5. blk \in [Block -> Seq(Entry)] /\ blk[1] = <<dot, dotdot>>
  <2>1. <<dot, dotdot>> \in Seq(Entry) /\ << >> \in Seq(Entry)
    BY <1>1
  <2> QED
    BY <1>1, <2>1 DEF Init
<1>6. Holds(root, blk) = {dot, dotdot}
  <2>1. \A e : (\E k \in 1 .. Len(blk[1]) : blk[1][k] = e) <=> e = dot \/ e = dotdot
    <3>1. Len(blk[1]) = 2 /\ blk[1][1] = dot /\ blk[1][2] = dotdot
      BY <1>5
    <3>2. \A k : k \in 1 .. 2 <=> k = 1 \/ k = 2
      OBVIOUS
    <3> HIDE DEF dot, dotdot
    <3> QED
      BY <3>1, <3>2
  <2> HIDE DEF dot, dotdot
  <2> QED
    BY <1>1, <1>3, <2>1 DEF Holds
<1>7. OneName(root, blk)
  <2>1. Len(blk[1]) = 2 /\ blk[1][1].name = Dot /\ blk[1][2].name = DotDot
    BY <1>5
  <2>2. \A k : k \in 1 .. 2 <=> k = 1 \/ k = 2
    OBVIOUS
  <2> QED
    BY <1>1, <1>3, <2>1, <2>2 DEF OneName
<1>8. Counts(root, blk) /\ Counts(Free, blk)
  <2>1. IsFiniteSet({dot, dotdot}) /\ Cardinality({dot, dotdot}) = 2
    <3>1. IsFiniteSet({dot}) /\ Cardinality({dot}) = 1 /\ dotdot \notin {dot}
      BY <1>1, FS_Singleton
    <3>2. {dot, dotdot} = {dot} \union {dotdot}
      OBVIOUS
    <3> HIDE DEF dot, dotdot
    <3> QED
      BY <3>1, <3>2, FS_AddElement
  <2>2. Counts(Free, blk)
    BY <1>2, NoEntries
  <2> QED
    BY <1>2, <1>3, <1>6, <1>7, <2>1, <2>2 DEF Counts
<1>9. Fits(inode, blk, Held)
  <2>1. \A n \in Inum : Counts(inode[n], blk)
    BY <1>4, <1>8
  <2>2. \A n, m \in Inum : n # m => Owns(inode[n]) \intersect Owns(inode[m]) = {}
    BY <1>3, <1>4
  <2>3. Held = UNION {Owns(inode[n]) : n \in Inum}
    <3>1. \A b : b \in Held <=> b = 1
      BY DEF Init, Held
    <3>2. \A b : (\E n \in Inum : b \in Owns(inode[n])) <=> b = 1
      BY <1>1, <1>3, <1>4
    <3> QED
      BY <3>1, <3>2
  <2>4. \A n \in Inum : (inode[n].is_allocated /\ inode[n].dir) \/ NoBlocks(inode[n])
    BY <1>2, <1>4
  <2> QED
    BY <1>4, <1>5, <2>1, <2>2, <2>3, <2>4 DEF Fits
<1>10. Finished(inode, blk, {}, bare)
  <2> HIDE DEF dot, dotdot
  <2>1. \A n \in Inum : inode[n].is_allocated => n = 0
    BY <1>2, <1>4
  <2>2. dot \in Holds(inode[0], blk) /\ dotdot \in Holds(inode[0], blk)
    BY <1>4, <1>6
  <2> QED
    BY <1>1, <1>2, <1>4, <2>1, <2>2 DEF Finished, ROOT_DIR_INODE_NUM, dot, dotdot
<1>11. Edges(inode, blk) = {} /\ Alloc(inode) = {0}
  <2>1. \A n \in Inum : NoNames(inode[n], blk)
    <3>1. NoNames(root, blk)
      BY <1>1, <1>6 DEF NoNames
    <3>2. NoNames(Free, blk)
      BY <1>2, NoEntries DEF NoNames
    <3> QED
      BY <1>4, <3>1, <3>2
  <2>2. \A e \in Edges(inode, blk) : FALSE
    BY <2>1, NoEdges, EdgeParts
  <2> QED
    BY <1>1, <1>2, <1>4, <2>2 DEF Alloc
<1>12. Treelike({}, {0}, Roots)
  <2>1. Roots = {0}
    BY DEF Init, Roots, ROOT_DIR_INODE_NUM
  <2> QED
    BY <1>1, <2>1 DEF Treelike, ROOT_DIR_INODE_NUM
<1>13. AtRest
  BY <1>9, <1>10, <1>11, <1>12 DEF AtRest, Sound
<1>14. Typed /\ Pc = "idle"
  BY <1>2, <1>4, <1>5 DEF Init, Idle, Typed, Handling, Handlers, Pc
<1> QED
  BY <1>13, <1>14 DEF Clean

\* The state between two requests has the type.
LEMMA IdleIs == Idle \in Handling /\ Idle.pc = "idle"
<1>1. << >> \in Seq(Name)
  OBVIOUS
<1> QED
  BY <1>1, EmptyNodes DEF Idle, Handling, Handlers

\* Only the next write changes.
Goes(pc) ==
  /\ op' \in Handling /\ op'.pc = pc /\ op'.call = op.call /\ op'.path = op.path /\ op'.from = op.from
  /\ op'.parent = op.parent /\ op'.child = op.child /\ op'.node = op.node

\* Go changes nothing else.
LEMMA GoGoes ==
  ASSUME op \in Handling, NEW pc \in Handlers, Go(pc)
  PROVE  Goes(pc)
  BY DEF Go, Goes, Handling

-----------------------------------------------------------------------------
(* create_new_file *)

\* create_new_file finds its parent and that the name is not there.
LEMMA CreateClean ==
  ASSUME Clean, At("idle"), NEW path \in Path, NEW call \in {"mknod", "mkdir"}, Create(call, path)
  PROVE  Clean'
<1> DEFINE d == get_inode_of_File(Front(path))
<1>1. /\ get_inode_of_File(path) = -1 /\ IsDir(d)
      /\ op' = [Idle EXCEPT !.pc = "create", !.call = call, !.path = path, !.parent = d, !.node = inode[d]]
      /\ UNCHANGED <<inode, blk, used, bare, stranded, lost>>
  BY DEF Create, Request, history
<1>2. AtRest /\ Typed
  BY DEF Clean, At, Pc
<1>3. /\ path \in Seq(Name) /\ path # << >> /\ Front(path) \in Seq(Name) /\ Last(path) \in Name
  BY PathIs
<1>4. d \in Inum /\ inode[d].is_allocated /\ inode[d].dir /\ LeadsTo(Edges(inode, blk), Front(path), d)
  <2>1. d \in Inum \union {-1} /\ d # -1
    BY <1>1, <1>2, <1>3, Lookup, RestIs DEF IsDir
  <2> QED
    BY <1>1, <1>2, <1>3, <2>1, Lookup, RestIs DEF IsDir
<1> HIDE DEF d
<1>5. Unnamed(inode, d, Last(path))
  <2>1. SUFFICES ASSUME NEW e \in Edges(inode, blk), e[1] = d, e[2] = Last(path) PROVE FALSE
    BY DEF Unnamed
  <2>2. e[3] \in Inum /\ e = <<d, Last(path), e[3]>>
    <3>1. e \in Alloc(inode) \X Name \X Alloc(inode) /\ Alloc(inode) \subseteq Inum
      BY <1>2, RestIs DEF Treelike, Alloc
    <3> QED
      BY <2>1, <3>1
  <2>3. LeadsTo(Edges(inode, blk), path, e[3])
    BY <1>3, <1>4, <2>1, <2>2, PathDown
  <2>4. get_inode_of_File(path) = e[3]
    BY <1>2, <1>3, <2>2, <2>3, Lookup, RestIs
  <2> QED
    BY <1>1, <2>2, <2>4, RootIs
<1>6. /\ op'.pc = "create" /\ op'.path = path /\ op'.parent = d /\ op'.node = inode[d]
  BY <1>1 DEF Idle
<1>7. Typed'
  <2>1. op' \in Handling
    <3>1. inode[d] \in Node /\ << >> \in Seq(Name) /\ Free \in Node /\ "create" \in Handlers
      BY <1>2, <1>4, EmptyNodes DEF Typed, Handlers
    <3> QED
      BY <1>1, <1>3, <1>4, <3>1 DEF Idle, Handling
  <2> QED
    BY <1>1, <1>2, <1>6, <2>1 DEF Typed, Pc
<1>8. AtRest' /\ Loaded'
  BY <1>1, <1>2, <1>4, <1>5, <1>6, HistoryKept DEF AtRest, Loaded, ParentIsDir, Unnamed
<1> QED
  BY <1>6, <1>7, <1>8 DEF Clean, Pc

\* createInode takes an inode that is free.
LEMMA createInodeClean ==
  ASSUME Clean, createInode
  PROVE  Clean'
<1> DEFINE free == {n \in Inum : ~inode[n].is_allocated}
           n    == CHOOSE n \in free : \A m \in free : n <= m
           node == [inode[n] EXCEPT !.is_allocated = TRUE, !.linkCount = 0]
<1>1. AtRest /\ Loaded /\ Typed /\ op.pc = "create" /\ UNCHANGED <<bare, stranded, lost>>
  BY SameHistory DEF Clean, createInode, At, Pc
<1>2. CASE free = {}
  <2>1. op' = Idle /\ UNCHANGED <<inode, blk, used>>
    BY <1>2 DEF createInode
  <2>2. Typed' /\ op'.pc = "idle"
    BY <1>1, <2>1, IdleIs DEF Typed, Pc
  <2>3. AtRest'
    BY <1>1, <2>1, HistoryKept DEF AtRest
  <2> QED
    BY <2>2, <2>3 DEF Clean, Pc
<1>3. CASE free # {}
  <2>1. inode' = [inode EXCEPT ![n] = node] /\ blk' = blk /\ used' = used /\ op' = [op EXCEPT !.pc = "add", !.child = n]
    BY <1>3 DEF createInode, WriteInode
  <2>2. n \in free
    <3>1. free \in SUBSET Nat
      BY DEF Inum
    <3> HIDE DEF free
    <3> QED
      BY <1>3, <3>1, LeastOf
  <2> HIDE DEF n
  <2>3. n \in Inum /\ ~inode[n].is_allocated
    BY <2>2
  <2>4. /\ inode[n] \in Node /\ NoBlocks(inode[n])
    BY <1>1, <2>3, RestIs DEF Fits
  <2>5. inode[n].filesCount = 0
    BY <1>1, <2>3, <2>4, RestIs, NoEntries, FS_EmptySet DEF Fits, Counts
  <2>6. /\ node.is_allocated /\ node.linkCount = 0 /\ NoBlocks(node) /\ node.filesCount = 0
    BY <2>4, <2>5 DEF Node, NoBlocks
  <2>7. node \in Node
    <3> DEFINE taken == [inode[n] EXCEPT !.is_allocated = TRUE]
    <3>1. taken \in Node
      BY <2>4 DEF Node
    <3>2. node = [taken EXCEPT !.linkCount = 0]
      OBVIOUS
    <3> HIDE DEF taken, node
    <3>3. [taken EXCEPT !.linkCount = 0] \in Node
      BY <3>1 DEF Node
    <3> QED
      BY <3>2, <3>3
  <2> HIDE DEF node
  <2> DEFINE tab2 == [inode EXCEPT ![n] = node]
  <2>8. NoNames(inode[n], blk) /\ Owns(inode[n]) = {}
    BY <2>4, NoEntries DEF NoNames
  <2>9. /\ Fits(tab2, blk, Held \ Owns(inode[n])) /\ Edges(tab2, blk) = Edges(inode, blk)
        /\ \A m \in Inum \ {n} : tab2[m] = inode[m] /\ Holds(tab2[m], blk) = Holds(inode[m], blk)
    <3>1. Fits(inode, blk, Held)
      BY <1>1, RestIs
    <3>2. Loses(n, inode, blk, Held, tab2)
      BY <2>3, <2>6, <2>7, <3>1, Emptied
    <3> QED
      BY <2>8, <3>2 DEF Loses
  <2>10. tab2[n] = node /\ tab2 = inode' /\ Held \ Owns(inode[n]) = Held' /\ Roots' = Roots /\ bare' = bare
    BY <1>1, <2>1, <2>3, <2>8, HistoryKept DEF Typed
  <2> HIDE DEF tab2
  <2>11. n # ROOT_DIR_INODE_NUM /\ n # op.parent
    BY <1>1, <2>3, RestIs DEF Loaded, ParentIsDir, Finished
  <2>12. op'.pc = "add" /\ op'.child = n /\ op'.parent = op.parent /\ op'.path = op.path /\ op'.node = op.node
    BY <1>1, <2>1 DEF Typed, Handling
  <2>13. Newborn'
    BY <2>3, <2>6, <2>10, <2>11, <2>12 DEF Newborn, ChildIsOther
  <2>14. Fits(inode', blk', Held')
    BY <2>1, <2>9, <2>10
  <2>15. Finished(inode', blk', {n}, bare')
    <3>1. Finished(inode, blk, {}, bare)
      BY <1>1, RestIs
    <3> QED
      BY <2>1, <2>9, <2>10, <2>11, <3>1, RootIs DEF Finished
  <2>16. Alloc(inode') \ {n} = Alloc(inode)
    BY <2>3, <2>9, <2>10 DEF Alloc
  <2>17. Edges(inode', blk') = Edges(inode, blk)
    BY <2>1, <2>9, <2>10
  <2>18. HalfMade'
    <3>1. Treelike(Edges(inode', blk'), Alloc(inode') \ {n}, Roots')
      BY <1>1, <2>10, <2>16, <2>17, RestIs
    <3> QED
      BY <2>12, <2>13, <2>14, <2>15, <3>1 DEF HalfMade
  <2>19. Loaded'
    <3>1. inode'[op.parent] = inode[op.parent] /\ op.parent \in Inum
      BY <1>1, <2>9, <2>10, <2>11 DEF Loaded, ParentIsDir
    <3>2. Unnamed(inode, op.parent, Last(op.path))'
      BY <1>1, <2>12, <2>17 DEF Loaded, Unnamed
    <3> QED
      BY <1>1, <2>12, <3>1, <3>2 DEF Loaded, ParentIsDir
  <2>20. Typed'
    <3>1. op' \in Handling
      BY <1>1, <2>1, <2>3 DEF Typed, Handling, Handlers
    <3> QED
      BY <1>1, <2>1, <2>7, <2>12, <3>1 DEF Typed, Pc
  <2> QED
    BY <2>12, <2>18, <2>19, <2>20 DEF Clean, Pc
<1> QED
  BY <1>2, <1>3

\* The entry of the child goes into a block; or there is no room.
LEMMA AddChildClean ==
  ASSUME Clean, Recorded, AddChild
  PROVE  Clean' /\ Recorded'
<1> DEFINE d == op.parent
           c == op.child
           a == Last(op.path)
           E == Edges(inode, blk)
           added == add_directory_entry(inode[d], c, a)
<1>1. HalfMade /\ Loaded /\ Typed /\ op.pc = "add"
  BY DEF Clean, AddChild, At, Pc
<1>2. /\ blk' = added.blk /\ used' = added.used /\ UNCHANGED <<inode, bare, stranded>>
      /\ op' = [op EXCEPT !.pc = IF added.ok THEN "parent" ELSE "undo", !.node = added.node]
      /\ lost' = Lost(added)
  BY <1>1 DEF AddChild, Loaded
<1>3. /\ Fits(inode, blk, Held) /\ d \in Inum /\ inode[d].is_allocated /\ inode[d].dir /\ inode[d] \in Node
      /\ c \in Inum /\ a \in Name /\ \A m \in Inum \union {-1} : <<d, a, m>> \notin E
  <2>1. op.path \in Path
    BY <1>1 DEF Typed, Pc
  <2>2. ASSUME NEW m, <<d, a, m>> \in E PROVE FALSE
    <3>1. <<d, a, m>>[1] = d /\ <<d, a, m>>[2] = a
      OBVIOUS
    <3> QED
      BY <1>1, <2>2, <3>1 DEF Loaded, Unnamed
  <2> QED
    BY <1>1, <2>1, <2>2, PathIs DEF HalfMade, Newborn, ChildIsOther, Loaded, ParentIsDir, Fits
<1>4. /\ AccountsAfter(added)
      /\ ~added.ok => added.node = inode[d] /\ added.blk = blk /\ HeldAfter(added) = Held
      /\ added.ok => /\ Becomes([inode EXCEPT ![d] = added.node], added.blk, HeldAfter(added), E \union {<<d, a, c>>})
                     /\ Extended(d, added.node, added.blk, [name |-> a, inum |-> c])
  BY <1>3, NameAdded DEF Recorded
<1> HIDE DEF added
<1>5. Held' = HeldAfter(added) /\ Recorded' /\ Roots' = Roots /\ bare' = bare
  BY <1>2, <1>4 DEF Held, HeldAfter, Accounts, AccountsAfter, Roots, Recorded
<1>6. CASE ~added.ok
  <2>1. op' = [op EXCEPT !.pc = "undo", !.node = inode[d]] /\ UNCHANGED <<inode, blk>> /\ Held' = Held
    BY <1>2, <1>4, <1>6, <1>5
  <2>2. op' \in Handling /\ op'.pc = "undo" /\ op'.child = c /\ op'.parent = d /\ op'.path = op.path
    BY <1>1, <1>3, <2>1 DEF Typed, Handling, Handlers
  <2>3. Typed'
    BY <1>1, <2>1, <2>2 DEF Typed, Pc
  <2>4. HalfMade'
    BY <1>1, <1>5, <2>1, <2>2 DEF HalfMade, Newborn, ChildIsOther
  <2> QED
    BY <1>5, <2>2, <2>3, <2>4 DEF Clean, Pc
<1>7. CASE added.ok
  <2> DEFINE tab2 == [inode EXCEPT ![d] = added.node]
  <2>1. /\ Becomes(tab2, blk', Held', E \union {<<d, a, c>>})
        /\ Extended(d, added.node, blk', [name |-> a, inum |-> c])
        /\ op' = [op EXCEPT !.pc = "parent", !.node = added.node] /\ inode' = inode
    BY <1>2, <1>4, <1>7, <1>5
  <2>2. /\ op' \in Handling /\ op'.pc = "parent" /\ op'.child = c /\ op'.parent = d /\ op'.path = op.path
        /\ op'.node = added.node
    BY <1>1, <2>1 DEF Typed, Handling, Handlers, Extended
  <2>3. Fits(tab2, blk', Held') /\ Edges(tab2, blk') = E \union {<<d, a, c>>} /\ Alloc(tab2) = Alloc(inode)
    BY <2>1 DEF Becomes
  <2>4. Finished(tab2, blk', {c}, bare')
    BY <1>1, <1>5, <2>1 DEF Becomes, HalfMade
  <2> HIDE DEF tab2
  <2>5. Typed'
    BY <1>1, <2>1, <2>2, <2>3 DEF Typed, Fits, Pc
  <2>6. Treelike(E \union {<<d, a, c>>}, Alloc(inode), Roots)
    <3>1. Treelike(E, Alloc(inode) \ {c}, Roots) /\ c \notin Alloc(inode) \ {c} /\ d \in Alloc(inode) \ {c}
      BY <1>1, <1>3 DEF HalfMade, Newborn, ChildIsOther, Alloc
    <3>2. \A e \in E : ~(e[1] = d /\ e[2] = a)
      BY <1>1 DEF Loaded, Unnamed
    <3>3. Treelike(E \union {<<d, a, c>>}, (Alloc(inode) \ {c}) \union {c}, Roots)
      BY <1>3, <3>1, <3>2, LeafAdded
    <3>4. (Alloc(inode) \ {c}) \union {c} = Alloc(inode)
      BY <1>1 DEF HalfMade, Newborn, ChildIsOther, Alloc
    <3> QED
      BY <3>3, <3>4
  <2>7. Sound(tab2, blk', Held', {c}, bare', Roots')
    BY <1>5, <2>3, <2>4, <2>6 DEF Sound
  <2>8. Parented' = tab2
    BY <2>1, <2>2 DEF Parented, tab2
  <2>9. Newborn'
    BY <1>1, <2>1, <2>2 DEF HalfMade, Newborn, ChildIsOther
  <2>10. ParentIsDir'
    BY <1>3, <2>1, <2>2 DEF ParentIsDir, Extended
  <2>11. Grown'
    BY <2>1, <2>2 DEF Grown, Extended, NewEntry
  <2>12. InParent'
    BY <2>2, <2>7, <2>8, <2>9, <2>10, <2>11 DEF InParent
  <2> QED
    BY <1>5, <2>2, <2>5, <2>12 DEF Clean, Pc
<1> QED
  BY <1>6, <1>7

\* What delete_inode leaves.
LEMMA DeletedIs ==
  ASSUME Typed, NEW n \in Inum
  PROVE  /\ Deleted(n) \in Node /\ ~Deleted(n).is_allocated
         /\ NoBlocks(Deleted(n)) /\ Deleted(n).filesCount = 0
<1>1. inode[n].dir \in BOOLEAN
  BY DEF Typed, Node
<1>2. Deleted(n) \in Node
  BY <1>1, EmptyNodes DEF Deleted, Node
<1> QED
  BY <1>2 DEF Deleted, Free, NoBlocks

\* A creation that found no room gives the inode back.
LEMMA UndoCreateClean ==
  ASSUME Clean, UndoCreate
  PROVE  Clean'
<1> DEFINE c == op.child
<1>1. HalfMade /\ Typed /\ op.pc = "undo"
  BY DEF Clean, UndoCreate, At, Pc
<1>2. /\ inode' = [inode EXCEPT ![c] = Deleted(c)] /\ blk' = blk /\ op' = Idle
      /\ Held' = Held /\ Roots' = Roots /\ bare' = bare
  BY SameHistory, HistoryKept DEF UndoCreate, Finish, WriteInode
<1>3. /\ Fits(inode, blk, Held) /\ c \in Inum \ {ROOT_DIR_INODE_NUM} /\ NoBlocks(inode[c])
  BY <1>1 DEF HalfMade, Newborn, ChildIsOther
<1>4. NoNames(inode[c], blk) /\ Owns(inode[c]) = {}
  BY <1>3, NoEntries DEF NoNames
<1>5. Loses(c, inode, blk, Held, inode')
  <2>1. /\ Deleted(c) \in Node /\ NoBlocks(Deleted(c)) /\ Deleted(c).filesCount = 0
    BY <1>1, <1>3, DeletedIs
  <2>2. c \in Inum
    BY <1>3
  <2> HIDE DEF c
  <2> QED
    BY <1>2, <1>3, <1>4, <2>1, <2>2, Emptied
<1>6. /\ Fits(inode', blk', Held') /\ Edges(inode', blk') = Edges(inode, blk)
      /\ \A m \in Inum \ {c} : inode'[m] = inode[m] /\ Holds(inode'[m], blk) = Holds(inode[m], blk)
  BY <1>2, <1>4, <1>5 DEF Loses
<1>7. ~inode'[c].is_allocated
  BY <1>1, <1>2, <1>3, DeletedIs DEF Typed
<1>8. Finished(inode', blk', {}, bare')
  <2>1. Finished(inode, blk, {c}, bare)
    BY <1>1 DEF HalfMade
  <2> QED
    BY <1>2, <1>3, <1>6, <1>7, <2>1, RootIs DEF Finished
<1>9. Treelike(Edges(inode', blk'), Alloc(inode'), Roots')
  <2>1. Alloc(inode') = Alloc(inode) \ {c}
    BY <1>3, <1>6, <1>7 DEF Alloc
  <2> QED
    BY <1>1, <1>2, <1>6, <2>1 DEF HalfMade
<1>10. AtRest'
  BY <1>6, <1>8, <1>9 DEF AtRest, Sound
<1>11. Typed' /\ op'.pc = "idle"
  BY <1>2, <1>6, IdleIs DEF Typed, Fits, Pc
<1> QED
  BY <1>10, <1>11 DEF Clean, Pc

\* The parent with the new entry is written.
LEMMA WriteParentClean ==
  ASSUME Clean, WriteParent
  PROVE  Clean'
<1>1. InParent /\ Typed /\ op.pc = "parent"
  BY DEF Clean, WriteParent, At, Pc
<1>2. /\ inode' = Parented /\ blk' = blk /\ Goes("child") /\ Held' = Held /\ Roots' = Roots /\ bare' = bare
  BY <1>1, GoGoes, SameHistory, HistoryKept DEF WriteParent, WriteInode, Parented, Typed, Handlers
<1>3. Sound(inode', blk', Held', {op.child}, bare', Roots')
  BY <1>1, <1>2 DEF InParent
<1>4. inode'[op.child] = inode[op.child] /\ op.parent \in Inum
  BY <1>1, <1>2 DEF InParent, Newborn, ChildIsOther, ParentIsDir, Parented
<1>5. InChild'
  BY <1>1, <1>2, <1>3, <1>4 DEF InParent, InChild, Newborn, ChildIsOther, Goes
<1>6. Typed'
  BY <1>1, <1>2, <1>3 DEF Typed, Sound, Fits, Goes, Pc
<1> QED
  BY <1>2, <1>5, <1>6 DEF Clean, Goes, Pc

\* The child is written.
LEMMA WriteChildClean ==
  ASSUME Clean, WriteChild
  PROVE  Clean'
<1> DEFINE c    == op.child
           node == [EmptyDir EXCEPT !.dir = (op.call = "mkdir")]
<1>1. InChild /\ Typed /\ op.pc = "child"
  BY DEF Clean, WriteChild, At, Pc
<1>2. /\ inode' = [inode EXCEPT ![c] = node] /\ blk' = blk
      /\ Held' = Held /\ Roots' = Roots /\ bare' = bare
      /\ IF op.call = "mkdir" THEN Go("dots") ELSE op' = Idle
  BY SameHistory, HistoryKept DEF WriteChild, WriteInode
<1>3. /\ Fits(inode, blk, Held) /\ Finished(inode, blk, {c}, bare) /\ Treelike(Edges(inode, blk), Alloc(inode), Roots)
      /\ c \in Inum /\ c # ROOT_DIR_INODE_NUM /\ c # op.parent /\ op.parent \in Inum
      /\ inode[c].is_allocated /\ NoBlocks(inode[c])
  BY <1>1 DEF InChild, Newborn, ChildIsOther, Sound
<1>4. NoNames(inode[c], blk) /\ Owns(inode[c]) = {}
  BY <1>3, NoEntries DEF NoNames
<1>5. /\ node \in Node /\ node.is_allocated /\ node.linkCount = 1 /\ NoBlocks(node) /\ node.filesCount = 0
      /\ node.dir <=> op.call = "mkdir"
  <2>1. node \in Node
    BY EmptyNodes DEF Node
  <2> QED
    BY <2>1 DEF EmptyDir, Free, NoBlocks
<1> HIDE DEF node
<1>6. Loses(c, inode, blk, Held, inode')
  <2> HIDE DEF c
  <2> QED
    BY <1>2, <1>3, <1>4, <1>5, Emptied
<1>7. /\ Fits(inode', blk', Held') /\ Edges(inode', blk') = Edges(inode, blk)
      /\ \A m \in Inum \ {c} : inode'[m] = inode[m] /\ Holds(inode'[m], blk) = Holds(inode[m], blk)
  BY <1>2, <1>4, <1>6 DEF Loses
<1>8. inode'[c] = node
  BY <1>1, <1>2, <1>3 DEF Typed
<1>9. Finished(inode', blk', {c}, bare')
  BY <1>2, <1>3, <1>7, RootIs DEF Finished
<1>10. Treelike(Edges(inode', blk'), Alloc(inode'), Roots')
  <2>1. Alloc(inode') = Alloc(inode)
    BY <1>3, <1>5, <1>7, <1>8 DEF Alloc
  <2> QED
    BY <1>2, <1>3, <1>7, <2>1
<1>11. inode' \in [Inum -> Node] /\ blk' \in [Block -> Seq(Entry)]
  BY <1>7 DEF Fits
<1>12. CASE op.call = "mkdir"
  <2>1. Goes("dots")
    BY <1>1, <1>2, <1>12, GoGoes DEF Typed, Handlers
  <2>2. Sound(inode', blk', Held', {c}, bare', Roots')
    BY <1>7, <1>9, <1>10 DEF Sound
  <2>3. InDots'
    BY <1>3, <1>5, <1>8, <1>12, <2>1, <2>2 DEF InDots, ChildIsOther, Goes
  <2>4. Typed'
    BY <1>1, <1>11, <2>1 DEF Typed, Goes, Pc
  <2> QED
    BY <2>1, <2>3, <2>4 DEF Clean, Goes, Pc
<1>13. CASE op.call # "mkdir"
  <2>1. op' = Idle
    BY <1>2, <1>13
  <2>2. Finished(inode', blk', {}, bare')
    BY <1>5, <1>8, <1>9, <1>13 DEF Finished
  <2>3. AtRest'
    BY <1>7, <1>10, <2>2 DEF AtRest, Sound
  <2>4. Typed' /\ op'.pc = "idle"
    BY <1>11, <2>1, IdleIs DEF Typed, Pc
  <2> QED
    BY <2>3, <2>4 DEF Clean, Pc
<1> QED
  BY <1>12, <1>13

\* fs_mkdir: "." and "..".
LEMMA AddDotsClean ==
  ASSUME Clean, Recorded, AddDots
  PROVE  Clean' /\ Recorded'
<1> DEFINE c      == op.child
           dot    == [name |-> Dot, inum |-> c]
           dotdot == [name |-> DotDot, inum |-> op.parent]
           dots   == add_directory_entry(inode[c], c, Dot)
           b      == dots.node.blocks[1]
           node   == [dots.node EXCEPT !.filesCount = @ + 1]
           bk     == [dots.blk EXCEPT ![b] = Append(@, dotdot)]
<1>1. InDots /\ Typed /\ op.pc = "dots"
  BY DEF Clean, AddDots, At, Pc
<1>2. /\ used' = dots.used /\ lost' = Lost(dots) /\ UNCHANGED <<inode, stranded>>
      /\ IF dots.ok
         THEN blk' = bk /\ op' = [op EXCEPT !.pc = "self", !.node = node] /\ bare' = bare
         ELSE blk' = blk /\ op' = Idle /\ bare' = bare \union {c}
  BY DEF AddDots
<1>3. /\ Fits(inode, blk, Held) /\ Finished(inode, blk, {c}, bare) /\ Treelike(Edges(inode, blk), Alloc(inode), Roots)
      /\ c \in Inum /\ inode[c].is_allocated /\ inode[c].dir /\ inode[c].linkCount = 1
      /\ NoBlocks(inode[c]) /\ c # ROOT_DIR_INODE_NUM
      /\ op.parent \in Inum /\ inode \in [Inum -> Node]
  BY <1>1 DEF InDots, ChildIsOther, Sound, Fits
<1>4. Holds(inode[c], blk) = {}
  BY <1>3, NoEntries
<1>5. dot \in Entry /\ dotdot \in Entry /\ dotdot.name # dot.name /\ dot.name \notin Name /\ dotdot.name \notin Name
  BY <1>3, NamespaceAssumption DEF Entry
<1>6. /\ AccountsAfter(dots) /\ (~dots.ok => HeldAfter(dots) = Held)
      /\ dots.ok => Changed(c, dots.node, dots.blk, HeldAfter(dots), Holds(inode[c], blk) \union {dot})
  <2>1. \A f \in Holds(inode[c], blk) : f.name # Dot
    BY <1>4
  <2>2. Accounts
    BY DEF Recorded
  <2> HIDE DEF c
  <2>3. c \in Inum /\ inode[c].is_allocated /\ inode[c].dir /\ Fits(inode, blk, Held)
    BY <1>3
  <2>4. /\ dots.ok \in BOOLEAN /\ AccountsAfter(dots)
        /\ ~dots.ok => dots.node = inode[c] /\ dots.blk = blk /\ HeldAfter(dots) = Held
        /\ dots.ok =>
             /\ Changed(c, dots.node, dots.blk, HeldAfter(dots), Holds(inode[c], blk) \union {dot})
             /\ Range(inode[c].blocks) \subseteq Range(dots.node.blocks)
             /\ Owns(inode[c]) \subseteq Owns(dots.node)
             /\ \A x \in Range(dots.node.blocks) \ Range(inode[c].blocks) : dots.blk[x] = <<dot>>
    BY <2>1, <2>2, <2>3, Added
  <2> HIDE DEF dots
  <2> QED
    BY <2>4
<1> HIDE DEF dots
<1> HIDE DEF c, b, node, bk
<1>7. Held' = HeldAfter(dots) /\ Recorded' /\ Roots' = Roots
  <2>1. used' = dots.used /\ lost' = Lost(dots) /\ stranded' = stranded /\ (bare' = bare \/ bare' = bare \union {c})
    BY <1>2
  <2>2. Held' = HeldAfter(dots)
    BY <2>1 DEF Held, HeldAfter
  <2>3. Accounts'
    BY <1>6, <2>1 DEF Accounts, AccountsAfter
  <2>4. bare' \subseteq Inum
    BY <1>3, <2>1 DEF Recorded
  <2> QED
    BY <2>1, <2>2, <2>3, <2>4 DEF Roots, Recorded
<1>8. CASE ~dots.ok
  <2>1. inode' = inode /\ blk' = blk /\ op' = Idle /\ bare' = bare \union {c} /\ Held' = Held
    <3>1. inode' = inode /\ blk' = blk /\ op' = Idle /\ bare' = bare \union {c}
      BY <1>2, <1>8
    <3>2. HeldAfter(dots) = Held
      BY <1>6, <1>8
    <3> QED
      BY <1>7, <3>1, <3>2
  <2>2. Finished(inode, blk, {}, bare')
    BY <1>3, <2>1 DEF Finished
  <2>3. AtRest'
    BY <1>3, <1>7, <2>1, <2>2 DEF AtRest, Sound
  <2>4. Typed' /\ op'.pc = "idle"
    BY <1>1, <2>1, IdleIs DEF Typed, Pc
  <2> QED
    BY <1>7, <2>3, <2>4 DEF Clean, Pc
<1>9. SUFFICES ASSUME dots.ok PROVE Clean' /\ Recorded'
  BY <1>8
<1> USE DEF c, b, node, bk
<1>10. blk' = bk /\ op' = [op EXCEPT !.pc = "self", !.node = node] /\ bare' = bare /\ inode' = inode
  <2> HIDE DEF c, b, node, bk
  <2> QED
    BY <1>9, <1>2
<1>11. Changed(c, dots.node, dots.blk, Held', Holds(inode[c], blk) \union {dot})
  BY <1>9, <1>6, <1>7
<1> DEFINE tab == [inode EXCEPT ![c] = dots.node]
<1>12. /\ Fits(tab, dots.blk, Held') /\ dots.node \in Node /\ dots.node.is_allocated /\ dots.node.dir
       /\ dots.node.linkCount = 1 /\ Holds(dots.node, dots.blk) = {dot}
       /\ \A m \in Inum \ {c} : Holds(inode[m], dots.blk) = Holds(inode[m], blk)
  BY <1>3, <1>4, <1>11 DEF Changed
<1>13. /\ tab[c] = dots.node /\ \A m \in Inum \ {c} : tab[m] = inode[m]
  BY <1>3
<1>14. Counts(dots.node, dots.blk) /\ dots.blk \in [Block -> Seq(Entry)]
  BY <1>3, <1>12, <1>13 DEF Fits
<1> HIDE DEF tab, dot, dotdot
<1>15. b \in Range(dots.node.blocks)
  <2> DEFINE bs == dots.node.blocks
  <2>1. bs \in Seq(Block)
    BY <1>12 DEF Node
  <2>2. Range(bs) # {}
    BY <1>12 DEF Holds
  <2> HIDE DEF bs
  <2>3. 1 \in 1 .. Len(bs)
    BY <2>1, <2>2, RangeOf
  <2>4. bs[1] \in Range(bs)
    BY <2>1, <2>3, RangeOf
  <2> QED
    BY <2>4 DEF bs
<1>16. Consists(node, bk, {dot} \union {dotdot})
  <2>1. \A f \in Holds(dots.node, dots.blk) : f.name # dotdot.name
    BY <1>5, <1>12
  <2>2. Consists(node, bk, Holds(dots.node, dots.blk) \union {dotdot})
    <3> HIDE DEF b
    <3> QED
      BY <1>5, <1>12, <1>14, <1>15, <2>1, EntryAppended
  <2> QED
    BY <1>12, <2>2
<1>17. /\ node \in Node /\ node.is_allocated /\ node.dir /\ node.linkCount = 1 /\ Owns(node) = Owns(dots.node)
       /\ node.blocks = dots.node.blocks /\ bk \in [Block -> Seq(Entry)] /\ Counts(node, bk) /\ Holds(node, bk) = {dot, dotdot}
  <2>1. /\ node.is_allocated /\ node.dir /\ node.linkCount = 1 /\ node.blocks = dots.node.blocks
        /\ Owns(node) = Owns(dots.node)
    BY <1>12 DEF Node, Owns
  <2> HIDE DEF node, bk
  <2> QED
    BY <1>16, <2>1 DEF Consists
<1>18. ASSUME NEW m \in Inum \ {c}
       PROVE  /\ Owns(node) \intersect Owns(tab[m]) = {}
              /\ \A x \in Range(tab[m].blocks) : bk[x] = dots.blk[x]
  <2>1. Owns(dots.node) \intersect Owns(tab[m]) = {}
    BY <1>3, <1>12, <1>13 DEF Fits
  <2>2. Range(dots.node.blocks) \intersect Range(tab[m].blocks) = {}
    BY <2>1 DEF Owns
  <2>3. \A x : x # b => bk[x] = dots.blk[x]
    BY <1>14
  <2> HIDE DEF node, bk
  <2> QED
    BY <1>15, <1>17, <2>1, <2>3, <2>2
<1> HIDE DEF node, bk, b
<1> DEFINE tab2 == [tab EXCEPT ![c] = node]
           R    == Owns(node)
<1>19. /\ Fits(tab2, bk, (Held' \ Owns(tab[c])) \union R)
       /\ OthersKept(c, tab, dots.blk, tab2, bk)
  <2> DEFINE u == Held'
  <2>1. Fits(tab, dots.blk, u)
    BY <1>12
  <2> HIDE DEF c, u
  <2>2. (node.is_allocated /\ node.dir) \/ NoBlocks(node)
    BY <1>17
  <2>3. Fits(tab2, bk, (u \ Owns(tab[c])) \union R) /\ OthersKept(c, tab, dots.blk, tab2, bk)
    BY <1>3, <1>17, <1>18, <2>2, <2>1, Replaced
  <2> QED
    BY <2>3 DEF u
<1>20. (Held' \ Owns(tab[c])) \union R = Held'
  <2>1. Owns(tab[c]) \subseteq Held'
    BY <1>3, <1>12 DEF Fits
  <2> QED
    BY <1>13, <1>17, <2>1
<1>21. tab2 = [inode EXCEPT ![c] = node]
  <2>1. tab \in [Inum -> Node]
    BY <1>12 DEF Fits
  <2> QED
    BY <1>3, <1>13, <2>1 DEF tab
<1> HIDE DEF tab2
<1>22. /\ tab2[c] = node /\ \A m \in Inum \ {c} : tab2[m] = inode[m]
       /\ \A m \in Inum \ {c} : Holds(tab2[m], bk) = Holds(inode[m], blk)
  BY <1>3, <1>12, <1>13, <1>19, <1>21 DEF OthersKept
<1>23. Fits(tab2, bk, Held')
  BY <1>19, <1>20
<1>24. NoNames(node, bk)
  BY <1>5, <1>17 DEF NoNames
<1>25. Edges(tab2, bk) = Edges(inode, blk)
  <2>1. NoNames(inode[c], blk) /\ NoNames(tab2[c], bk)
    BY <1>4, <1>22, <1>24 DEF NoNames
  <2>2. \A m \in Inum \ {c} : Holds(tab2[m], bk) = Holds(inode[m], blk)
    BY <1>22
  <2> HIDE DEF c
  <2> QED
    BY <1>3, <2>1, <2>2, EdgesKept
<1>26. Alloc(tab2) = Alloc(inode)
  BY <1>3, <1>17, <1>22 DEF Alloc
<1>27. Finished(tab2, bk, {}, bare)
  <2>1. dot \in Holds(tab2[c], bk) /\ dotdot \in Holds(tab2[c], bk)
    BY <1>17, <1>22
  <2> QED
    BY <1>3, <1>17, <1>22, <2>1, RootIs DEF Finished, dot, dotdot
<1>28. op' \in Handling /\ op'.pc = "self" /\ op'.child = c /\ op'.parent = op.parent /\ op'.path = op.path /\ op'.node = node
  BY <1>1, <1>10, <1>17 DEF Typed, Handling, Handlers
<1>29. Dotted' = tab2
  BY <1>10, <1>21, <1>28 DEF Dotted
<1>30. Sound(Dotted', blk', Held', {}, bare', Roots')
  BY <1>10, <1>7, <1>3, <1>23, <1>25, <1>26, <1>27, <1>29 DEF Sound
<1>31. InSelf'
  <2>1. ChildIsOther'
    BY <1>1, <1>10, <1>28 DEF InDots, ChildIsOther
  <2> QED
    BY <1>10, <1>3, <1>17, <1>24, <1>28, <1>30, <2>1 DEF InSelf
<1>32. Typed'
  BY <1>1, <1>10, <1>17, <1>28 DEF Typed, Pc
<1> QED
  BY <1>7, <1>28, <1>31, <1>32 DEF Clean, Pc

\* fs_mkdir: the directory is written with its entries.
LEMMA WriteSelfClean ==
  ASSUME Clean, WriteSelf
  PROVE  Clean'
<1>1. InSelf /\ Typed
  BY DEF Clean, WriteSelf, At, Pc
<1>2. /\ inode' = Dotted /\ blk' = blk /\ op' = Idle
      /\ Held' = Held /\ Roots' = Roots /\ bare' = bare
  BY SameHistory, HistoryKept DEF WriteSelf, Finish, WriteInode, Dotted
<1>3. AtRest'
  BY <1>1, <1>2 DEF InSelf, AtRest
<1>4. Typed' /\ op'.pc = "idle"
  BY <1>1, <1>2, IdleIs DEF InSelf, Sound, Fits, Typed, Pc
<1> QED
  BY <1>3, <1>4 DEF Clean, Pc

-----------------------------------------------------------------------------
(* fs_unlink *)

\* A directory whose count is two has no name but "." and "..".
LEMMA EmptyByCount ==
  ASSUME Fits(inode, blk, Held), Finished(inode, blk, {}, bare), NEW n \in Inum \ bare, inode[n].is_allocated,
         ~(inode[n].dir /\ inode[n].filesCount > 2)
  PROVE  NoNames(inode[n], blk)
<1> DEFINE H == Holds(inode[n], blk)
<1>1. CASE ~inode[n].dir
  BY <1>1, NoEntries DEF Fits, NoNames
<1>2. CASE inode[n].dir
  <2>1. SUFFICES ASSUME NEW e \in H, e.name \in Name PROVE FALSE
    BY DEF NoNames
  <2>2. PICK p \in Inum : [name |-> DotDot, inum |-> p] \in H
    BY <1>2 DEF Finished
  <2> DEFINE dot    == [name |-> Dot, inum |-> n]
             dotdot == [name |-> DotDot, inum |-> p]
  <2>3. dot \in H /\ dotdot \in H
    BY <1>2, <2>2 DEF Finished
  <2>4. dot # dotdot /\ e # dot /\ e # dotdot
    <3>1. dot.name = Dot /\ dotdot.name = DotDot
      OBVIOUS
    <3> QED
      BY <2>1, <3>1, NamespaceAssumption
  <2> HIDE DEF dot, dotdot
  <2>5. Cardinality({dot} \union {dotdot} \union {e}) = 3
    <3>1. IsFiniteSet({dot}) /\ Cardinality({dot}) = 1
      BY FS_Singleton
    <3>2. dotdot \notin {dot} /\ e \notin {dot} \union {dotdot}
      BY <2>4
    <3> DEFINE two == {dot} \union {dotdot}
    <3>3. IsFiniteSet(two) /\ Cardinality(two) = 1 + 1
      <4> HIDE DEF two
      <4>1. ASSUME NEW S, IsFiniteSet(S), NEW x, x \notin S
            PROVE  IsFiniteSet(S \union {x}) /\ Cardinality(S \union {x}) = Cardinality(S) + 1
        BY <4>1, FS_AddElement
      <4> QED
        BY <3>1, <3>2, <4>1 DEF two
    <3>4. e \notin two
      BY <3>2
    <3> HIDE DEF two
    <3>5. Cardinality(two \union {e}) = Cardinality(two) + 1
      BY <3>3, <3>4, FS_AddElement, Zenon
    <3>6. Cardinality(two \union {e}) = 3
      BY <3>3, <3>5
    <3> QED
      BY <3>6 DEF two
  <2>6. IsFiniteSet(H) /\ inode[n].filesCount = Cardinality(H) /\ ~(inode[n].filesCount > 2)
    BY <1>2 DEF Fits, Counts
  <2>7. {dot} \union {dotdot} \union {e} \subseteq H
    BY <2>1, <2>3
  <2> HIDE DEF H
  <2>8. Cardinality({dot} \union {dotdot} \union {e}) <= Cardinality(H)
    BY <2>6, <2>7, FS_Subset
  <2>9. Cardinality(H) \in Nat
    BY <2>6, FS_CardinalityType
  <2> QED
    BY <2>5, <2>6, <2>8, <2>9
<1> QED
  BY <1>1, <1>2

\* What fs_unlink, and fs_rename for its target, finds.
LEMMA UnlinkingClean ==
  ASSUME AtRest, Typed, NEW path \in Path, NEW from \in Seq(Name), NEW call \in {"unlink", "rename"},
         Removable(get_inode_of_File(path)), op' = Unlinking(call, path, from),
         UNCHANGED <<inode, blk, used, bare, stranded, lost>>,
         call = "rename" =>
           /\ from \in Path /\ ~IsPrefix(from, path) /\ ~IsPrefix(path, from)
           /\ \E n \in Inum : LeadsTo(Edges(inode, blk), from, n)
  PROVE  Clean'
<1> DEFINE E == Edges(inode, blk)
           n == get_inode_of_File(path)
           d == get_inode_of_File(Front(path))
<1>1. /\ Fits(inode, blk, Held) /\ Finished(inode, blk, {}, bare) /\ Treelike(E, Alloc(inode), Roots)
      /\ path \in Seq(Name) /\ path # << >> /\ Front(path) \in Seq(Name) /\ Last(path) \in Name
      /\ Len(path) \in Nat /\ Len(Front(path)) = Len(path) - 1
  BY RestIs, PathIs
<1>2. /\ n \in Inum \ {ROOT_DIR_INODE_NUM} /\ inode[n].is_allocated
      /\ ~(inode[n].dir /\ inode[n].filesCount > 2) /\ LeadsTo(E, path, n)
  <2>1. n \in Inum \union {-1} /\ n # -1
    BY <1>1, Lookup DEF Removable
  <2> QED
    BY <1>1, <2>1, Lookup DEF Removable
<1>3. /\ d \in Inum /\ <<d, Last(path), n>> \in E /\ LeadsTo(E, Front(path), d)
  <2>1. PICK c \in Inum : LeadsTo(E, Front(path), c) /\ <<c, Last(path), n>> \in E
    BY <1>1, <1>2, PathUp
  <2>2. d = c
    BY <1>1, <2>1, Lookup
  <2> QED
    BY <2>1, <2>2
<1>4. op'.pc = "remove" /\ op'.call = call /\ op'.path = path /\ op'.from = from
      /\ op'.parent = d /\ op'.child = n /\ op'.node = inode[d]
  BY DEF Unlinking, Idle
<1>5. op' \in Handling
  <2>1. inode[d] \in Node /\ "remove" \in Handlers
    BY <1>1, <1>3 DEF Fits, Handlers
  <2>2. op' = [pc |-> "remove", call |-> call, path |-> path, from |-> from,
               parent |-> d, child |-> n, node |-> inode[d]]
    BY DEF Unlinking, Idle
  <2> HIDE DEF n, d
  <2> QED
    BY <1>1, <1>2, <1>3, <2>1, <2>2 DEF Handling
<1> HIDE DEF n, d
<1>6. inode[d].is_allocated /\ inode[d].dir
  <2>1. d \in Alloc(inode)
    BY <1>1, <1>3 DEF Treelike
  <2>2. ~NoBlocks(inode[d])
    <3>1. [name |-> Last(path), inum |-> n] \in Holds(inode[d], blk)
      BY <1>1, <1>2, <1>3, EdgeIn
    <3> QED
      BY <3>1, NoEntries
  <2> QED
    BY <1>1, <1>3, <2>1, <2>2 DEF Fits, Alloc
<1>7. n # d
  BY <1>1, <1>2, <1>3, OnePath
<1>8. n \in bare \/ NoNames(inode[n], blk)
  BY <1>1, <1>2, EmptyByCount
<1>9. inode[n].linkCount = 1
  BY <1>1, <1>2 DEF Finished
<1>10. /\ inode[n].dir \/ NoBlocks(inode[n])
       /\ Counts(inode[n], blk) /\ inode[n].filesCount <= 2
  <2>1. (inode[n].dir \/ NoBlocks(inode[n])) /\ Counts(inode[n], blk) /\ inode[n] \in Node
    BY <1>1, <1>2 DEF Fits
  <2>2. CASE inode[n].dir
    BY <1>2, <2>1, <2>2 DEF Node
  <2>3. CASE ~inode[n].dir
    <3>1. Holds(inode[n], blk) = {}
      BY <2>1, <2>3, NoEntries
    <3>2. inode[n].filesCount = 0
      BY <2>1, <3>1, FS_EmptySet DEF Counts
    <3> QED
      BY <2>1, <3>2
  <2> QED
    BY <2>2, <2>3
<1>11. InRemove'
  <2>1. AtRest' /\ inode' = inode /\ blk' = blk /\ bare' = bare
    BY HistoryKept DEF AtRest
  <2>2. Doomed'
    BY <1>2, <1>4, <1>7, <1>8, <1>9, <1>10, <2>1 DEF Doomed, ChildIsOther
  <2>3. ParentIsDir' /\ op'.node = inode'[op'.parent]
    BY <1>3, <1>4, <1>6, <2>1 DEF ParentIsDir
  <2>4. Renaming(inode)'
    BY <1>4, <2>1 DEF Renaming
  <2> QED
    BY <1>2, <1>3, <1>4, <2>1, <2>2, <2>3, <2>4 DEF InRemove, NewEdge
<1>12. Typed'
  BY <1>4, <1>5 DEF Typed, Pc
<1> QED
  BY <1>4, <1>11, <1>12 DEF Clean, Pc

\* fs_unlink.
LEMMA UnlinkClean ==
  ASSUME Clean, At("idle"), NEW path \in Path, fs_unlink(path)
  PROVE  Clean'
<1>1. AtRest /\ Typed
  BY DEF Clean, At, Pc
<1>2. << >> \in Seq(Name)
  OBVIOUS
<1>3. /\ Removable(get_inode_of_File(path)) /\ op' = Unlinking("unlink", path, << >>)
      /\ UNCHANGED <<inode, blk, used, bare, stranded, lost>>
  BY DEF fs_unlink, Request, history
<1> QED
  BY <1>1, <1>2, <1>3, UnlinkingClean

\* fs_rename finds its source, and a target that it removes first.
LEMMA RenameClean ==
  ASSUME Clean, At("idle"), NEW from \in Path, NEW path \in Path, fs_rename(from, path)
  PROVE  Clean'
<1> DEFINE n == get_inode_of_File(from)
           m == get_inode_of_File(path)
           E == Edges(inode, blk)
<1>1. AtRest /\ Typed
  BY DEF Clean, At, Pc
<1>2. /\ n # -1 /\ ~IsPrefix(from, path) /\ ~IsPrefix(path, from)
      /\ UNCHANGED <<inode, blk, used, bare, stranded, lost>>
      /\ m # -1 => Removable(m) /\ op' = Unlinking("rename", path, from)
      /\ m = -1 => op' = [Idle EXCEPT !.pc = "link", !.call = "rename", !.path = path, !.from = from]
  BY DEF fs_rename, Request, history
<1>3. from \in Seq(Name) /\ path \in Seq(Name)
  BY PathIs
<1>4. n \in Inum /\ LeadsTo(E, from, n)
  <2>1. n \in Inum
    BY <1>1, <1>2, <1>3, Lookup, RestIs
  <2> QED
    BY <1>1, <1>3, <2>1, Lookup, RestIs
<1>5. CASE m # -1
  BY <1>1, <1>2, <1>3, <1>4, <1>5, UnlinkingClean
<1>6. CASE m = -1
  <2>1. \A k \in Inum : ~LeadsTo(E, path, k)
    BY <1>1, <1>3, <1>6, Lookup, RestIs, RootIs
  <2> HIDE DEF n, m
  <2>2. op'.pc = "link" /\ op'.call = "rename" /\ op'.path = path /\ op'.from = from
    BY <1>2, <1>6 DEF Idle
  <2>3. op' \in Handling
    <3>1. op' = [pc |-> "link", call |-> "rename", path |-> path, from |-> from,
                 parent |-> -1, child |-> -1, node |-> Free]
      BY <1>2, <1>6 DEF Idle
    <3> QED
      BY <1>3, <3>1, EmptyNodes DEF Handling, Handlers
  <2>4. Typed'
    BY <1>1, <1>2, <2>2, <2>3 DEF Typed, Pc
  <2>5. AtRest' /\ Renaming(inode)' /\ Vacant(inode)'
    BY <1>1, <1>2, <1>4, <2>1, <2>2, HistoryKept DEF AtRest, Renaming, Vacant
  <2> QED
    BY <2>2, <2>4, <2>5 DEF Clean, InLink, Pc
<1> QED
  BY <1>5, <1>6

\* A path stays a path when names are added.
LEMMA PathStays ==
  ASSUME NEW E, NEW F, E \subseteq F, NEW p \in Seq(Name), NEW n, LeadsTo(E, p, n)
  PROVE  LeadsTo(F, p, n)
<1>1. PICK f \in [0 .. Len(p) -> Inum] : Along(E, p, f) /\ f[Len(p)] = n
  BY DEF LeadsTo
<1> QED
  BY <1>1 DEF LeadsTo, Along

\* Directory d becomes node, without the name of c; and then c is deleted.
Drops(d, a, c, node, bk) ==
  Becomes([inode EXCEPT ![d] = node], bk, Held, Edges(inode, blk) \ {<<d, a, c>>})

Deletes(d, c, node, tab2) == tab2 = [inode EXCEPT ![d] = node, ![c] = Deleted(c)]

\* Of c is left what its names lead to.
Uprooted(d, a, c, bk, tab2) ==
  LET E == Edges(inode, blk)
  IN  /\ Sound(tab2, bk, Held \ Owns(inode[c]), {}, bare, Roots \union {e[3] : e \in OutOf(c, E)})
      /\ Edges(tab2, bk) = (E \ {<<d, a, c>>}) \ OutOf(c, E)
      /\ NoNames(inode[c], blk) => NoNames(inode[c], bk)
      /\ OutOf(c, Edges(inode, bk)) = OutOf(c, E)

\* Then all is sound without c; what the names in it led to are stranded.
LEMMA NameAndChildGone ==
  ASSUME AtRest, Typed, NEW d \in Inum, NEW c \in Inum \ {ROOT_DIR_INODE_NUM, d}, NEW a \in Name,
         <<d, a, c>> \in Edges(inode, blk),
         NEW node, NEW bk, Drops(d, a, c, node, bk), NEW tab2, Deletes(d, c, node, tab2)
  PROVE  Uprooted(d, a, c, bk, tab2)
<1> DEFINE E    == Edges(inode, blk)
           o    == <<d, a, c>>
           tab1 == [inode EXCEPT ![d] = node]
           out  == OutOf(c, E)
<1>1. Fits(tab1, bk, Held) /\ Edges(tab1, bk) = E \ {o} /\ Alloc(tab1) = Alloc(inode) /\ Finished(tab1, bk, {}, bare)
  BY RestIs DEF Becomes, Drops
<1>2. tab1[c] = inode[c] /\ tab2 = [tab1 EXCEPT ![c] = Deleted(c)] /\ tab2 \in [Inum -> {tab2[n] : n \in Inum}]
  BY DEF Typed, Deletes
<1>3. o[1] = d /\ o[3] = c /\ o \in E
  OBVIOUS
<1> HIDE DEF tab1
<1>4. NoNames(inode[c], blk) => NoNames(inode[c], bk)
  <2>1. SUFFICES ASSUME NoNames(inode[c], blk), NEW e \in Holds(tab1[c], bk), e.name \in Name PROVE FALSE
    BY <1>2 DEF NoNames
  <2>2. e \in Entry /\ e.inum \in Inum \union {-1} /\ e = [name |-> e.name, inum |-> e.inum]
    BY DEF Holds, Entry
  <2>3. <<c, e.name, e.inum>> \in Edges(tab1, bk)
    BY <2>1, <2>2, EdgeIn
  <2>4. <<c, e.name, e.inum>>[1] = c
    OBVIOUS
  <2> QED
    BY <1>1, <2>1, <2>3, <2>4, NoEdges
<1>5. Deleted(c) \in Node /\ NoBlocks(Deleted(c)) /\ Deleted(c).filesCount = 0 /\ ~Deleted(c).is_allocated
  BY DeletedIs
<1>6. Loses(c, tab1, bk, Held, tab2)
  <2>1. c \in Inum
    OBVIOUS
  <2> DEFINE gone == Deleted(c)
  <2>2. gone \in Node /\ NoBlocks(gone) /\ gone.filesCount = 0
    BY <1>5
  <2>3. tab2 = [tab1 EXCEPT ![c] = gone]
    BY <1>2
  <2> HIDE DEF gone
  <2>4. Loses(c, tab1, bk, Held, [tab1 EXCEPT ![c] = gone])
    BY <1>1, <2>1, <2>2, Emptied
  <2> QED
    BY <2>3, <2>4
<1>7. /\ Fits(tab2, bk, Held \ Owns(inode[c])) /\ Edges(tab2, bk) = (E \ {o}) \ out
      /\ \A m \in Inum \ {c} : tab2[m] = tab1[m] /\ Holds(tab2[m], bk) = Holds(tab1[m], bk)
  <2>1. OutOf(c, E \ {o}) = out \ {o}
    BY DEF OutOf
  <2> HIDE DEF E, o, out
  <2> QED
    BY <1>1, <1>2, <1>6, <2>1 DEF Loses
<1>8. ~tab2[c].is_allocated
  BY <1>1, <1>2, <1>5 DEF Fits
<1>9. Finished(tab2, bk, {}, bare)
  BY <1>1, <1>7, <1>8, RootIs DEF Finished
<1>10. Treelike((E \ {o}) \ out, Alloc(tab2), Roots \union {e[3] : e \in out})
  <2>1. o[3] = c /\ o \in E /\ o[1] # o[3]
    BY <1>3
  <2>2. Treelike(E, Alloc(inode), Roots)
    BY RestIs
  <2>3. out = {e \in E : e[1] = o[3]}
    BY DEF OutOf
  <2> HIDE DEF o, E, out
  <2>4. Treelike((E \ {o}) \ out, Alloc(inode) \ {o[3]}, Roots \union {e[3] : e \in out})
    BY <2>1, <2>2, <2>3, StumpsLeft
  <2>5. Alloc(tab2) = Alloc(tab1) \ {c}
    BY <1>7, <1>8 DEF Alloc
  <2> QED
    BY <1>1, <2>1, <2>4, <2>5
<1>11. OutOf(c, Edges(inode, bk)) = out
  <2>1. ASSUME NEW e \in Inum \X Name \X (Inum \union {-1}), e[1] = c
        PROVE  e \in Edges(inode, bk) <=> e \in E
    <3>1. e \in Edges(inode, bk) <=> e \in Edges(tab1, bk)
      BY <1>2, <2>1, EdgeIs
    <3> QED
      BY <1>1, <1>3, <2>1, <3>1
  <2>2. E \subseteq Inum \X Name \X (Inum \union {-1}) /\ Edges(inode, bk) \subseteq Inum \X Name \X (Inum \union {-1})
    BY DEF Edges
  <2> HIDE DEF E
  <2> QED
    BY <2>1, <2>2 DEF OutOf
<1>12. Sound(tab2, bk, Held \ Owns(inode[c]), {}, bare, Roots \union {e[3] : e \in out})
  BY <1>7, <1>9, <1>10 DEF Sound
<1> QED
  BY <1>4, <1>7, <1>11, <1>12 DEF Uprooted

\* The name is taken out of the parent.
LEMMA RemoveNameClean ==
  ASSUME Clean, RemoveName
  PROVE  Clean'
<1> DEFINE d == op.parent
           c == op.child
           a == Last(op.path)
           E == Edges(inode, blk)
           o == <<d, a, c>>
           removed == remove_from_directory(inode[d], a)
<1>1. InRemove /\ Typed /\ op.pc = "remove"
  BY DEF Clean, RemoveName, At, Pc
<1>2. /\ AtRest /\ d \in Inum /\ c \in Inum \ {ROOT_DIR_INODE_NUM, d} /\ inode[c].linkCount = 1
      /\ c \in bare \/ NoNames(inode[c], blk)
      /\ o \in E /\ LeadsTo(E, op.path, c) /\ op.node = inode[d]
      /\ inode[d].is_allocated /\ inode[d].dir /\ op.path \in Path
  BY <1>1 DEF InRemove, Doomed, ChildIsOther, ParentIsDir, NewEdge, Typed, Pc
<1>3. op.path \in Seq(Name) /\ a \in Name
  BY <1>2, PathIs
<1>4. /\ blk' = removed.blk /\ inode' = inode /\ Held' = Held /\ Roots' = Roots /\ bare' = bare
      /\ op' = [op EXCEPT !.node = removed.node, !.pc = "free"]
  BY <1>2, SameHistory, HistoryKept DEF RemoveName
<1>5. /\ Becomes([inode EXCEPT ![d] = removed.node], removed.blk, Held, E \ {o})
      /\ Lessened(d, removed.node)
  BY <1>2, <1>3, RestIs, NameDropped
<1> HIDE DEF removed
<1>6. /\ removed.node \in Node /\ removed.node.is_allocated /\ removed.node.dir
      /\ removed.node.blocks = inode[d].blocks /\ removed.node.addresses = inode[d].addresses
  BY <1>2, <1>5 DEF Lessened
<1>7. /\ op' \in Handling /\ op'.pc = "free" /\ op'.call = op.call /\ op'.path = op.path /\ op'.from = op.from
      /\ op'.parent = d /\ op'.child = c /\ op'.node = removed.node
  BY <1>1, <1>4, <1>6 DEF Typed, Handling, Handlers
<1> DEFINE tab2 == [inode EXCEPT ![d] = removed.node, ![c] = Deleted(c)]
<1>8. Removed' = tab2
  BY <1>4, <1>7 DEF Removed, Deleted
<1> DEFINE out == OutOf(c, E)
<1>9. /\ Sound(tab2, blk', Held \ Owns(inode[c]), {}, bare, Roots \union {e[3] : e \in out})
      /\ Edges(tab2, blk') = (E \ {o}) \ out
      /\ NoNames(inode[c], blk) => NoNames(inode[c], blk')
      /\ OutOf(c, Edges(inode, blk')) = out
  <2>1. Becomes([inode EXCEPT ![d] = removed.node], blk', Held, E \ {o})
    BY <1>4, <1>5
  <2>2. tab2 = [inode EXCEPT ![d] = removed.node, ![c] = Deleted(c)]
    OBVIOUS
  <2> DEFINE node == removed.node
             bk   == blk'
  <2> HIDE DEF c, d, a, tab2, node, bk
  <2>3. /\ Sound(tab2, bk, Held \ Owns(inode[c]), {}, bare, Roots \union {e[3] : e \in out})
        /\ Edges(tab2, bk) = (E \ {o}) \ out
        /\ NoNames(inode[c], blk) => NoNames(inode[c], bk)
        /\ OutOf(c, Edges(inode, bk)) = out
    <3>1. Drops(d, a, c, node, bk)
      BY <2>1 DEF node, bk, Drops
    <3>2. Deletes(d, c, node, tab2)
      BY <2>2 DEF node, Deletes
    <3>3. /\ AtRest /\ Typed /\ d \in Inum /\ c \in Inum \ {ROOT_DIR_INODE_NUM, d} /\ a \in Name
          /\ <<d, a, c>> \in Edges(inode, blk)
      BY <1>1, <1>2, <1>3
    <3>4. Uprooted(d, a, c, bk, tab2)
      BY <3>1, <3>2, <3>3, NameAndChildGone
    <3> QED
      BY <3>4 DEF Uprooted
  <2> QED
    BY <2>3 DEF bk
<1> HIDE DEF tab2
<1>10. Typed'
  <2>1. blk' \in [Block -> Seq(Entry)]
    BY <1>9 DEF Sound, Fits
  <2> QED
    BY <1>1, <1>2, <1>4, <1>7, <2>1 DEF Typed, Pc
<1>11. Owns(inode[c]) \subseteq Held
  BY <1>2, RestIs DEF Fits
<1>12. Targets' = {e[3] : e \in out}
  BY <1>4, <1>7, <1>9 DEF Targets
<1>13. Counts(inode[c], blk')
  <2>1. Counts([inode EXCEPT ![d] = removed.node][c], blk')
    BY <1>2, <1>4, <1>5 DEF Becomes, Sound, Fits
  <2>2. [inode EXCEPT ![d] = removed.node][c] = inode[c]
    BY <1>2, RestIs
  <2> QED
    BY <2>1, <2>2
<1>14. Doomed' /\ Shrunk'
  BY <1>1, <1>2, <1>4, <1>6, <1>7, <1>9, <1>13 DEF InRemove, Doomed, ChildIsOther, Shrunk, ParentIsDir
<1>15. o[3] = c /\ Treelike(E, Alloc(inode), Roots)
  BY <1>2, RestIs
<1>16. Vacant(Removed)'
  <2>1. SUFFICES ASSUME NEW n \in Inum, LeadsTo((E \ {o}) \ out, op.path, n) PROVE FALSE
    BY <1>7, <1>8, <1>9 DEF Vacant
  <2> HIDE DEF E, o, c, out
  <2>2. (E \ {o}) \ out \subseteq E \ {o}
    OBVIOUS
  <2>3. LeadsTo(E \ {o}, op.path, n)
    BY <1>3, <2>1, <2>2, PathStays
  <2> QED
    BY <1>2, <1>3, <1>15, <2>3, PathGone
<1>17. Renaming(Removed)'
  <2>1. SUFFICES ASSUME op.call = "rename"
                 PROVE  /\ op.from \in Path /\ ~IsPrefix(op.from, op.path) /\ ~IsPrefix(op.path, op.from)
                        /\ \E n \in Inum : LeadsTo((E \ {o}) \ out, op.from, n)
    BY <1>7, <1>8, <1>9 DEF Renaming
  <2>2. /\ op.from \in Path /\ ~IsPrefix(op.from, op.path) /\ ~IsPrefix(op.path, op.from)
        /\ \E n \in Inum : LeadsTo(E, op.from, n)
    BY <1>1, <2>1 DEF InRemove, Renaming
  <2>3. op.from \in Seq(Name)
    BY <2>2, PathIs
  <2>4. PICK n \in Inum : LeadsTo(E, op.from, n)
    BY <2>2
  <2>5. out = {e \in E : e[1] = o[3]}
    BY <1>15 DEF OutOf
  <2> HIDE DEF E, o, c, out
  <2>6. LeadsTo((E \ {o}) \ {e \in E : e[1] = o[3]}, op.from, n)
    BY <1>2, <1>3, <1>15, <2>2, <2>3, <2>4, PathAround
  <2>7. LeadsTo((E \ {o}) \ out, op.from, n)
    BY <2>5, <2>6
  <2> QED
    BY <2>2, <2>7
<1>18. InFree'
  BY <1>4, <1>7, <1>8, <1>9, <1>11, <1>14, <1>16, <1>17, <1>12 DEF InFree
<1> QED
  BY <1>7, <1>10, <1>18 DEF Clean, Pc

\* The blocks of the child are freed.
LEMMA FreeBlocksClean ==
  ASSUME Clean, Recorded, FreeBlocks
  PROVE  Clean' /\ Recorded'
<1>1. InFree /\ Typed /\ op.pc = "free"
  BY DEF Clean, FreeBlocks, At, Pc
<1>2. /\ used' = used \ Owns(inode[op.child]) /\ UNCHANGED <<inode, blk, bare, stranded, lost>> /\ Goes("node")
  BY <1>1, GoGoes, SameHistory DEF FreeBlocks, Typed, Handlers
<1>3. /\ Held' = Held \ Owns(inode[op.child]) /\ Roots' = Roots /\ Recorded' /\ Targets' = Targets
  <2>1. Owns(inode[op.child]) \subseteq used \ lost
    BY <1>1 DEF InFree, Held
  <2>2. Held' = Held \ Owns(inode[op.child]) /\ Recorded'
    BY <1>2, <2>1 DEF Held, Recorded, Accounts
  <2> QED
    BY <1>2, <2>2 DEF Roots, Targets, Goes
<1>4. Removed' = Removed
  BY <1>2 DEF Removed, Deleted, Goes
<1>5. Doomed' /\ Shrunk'
  BY <1>1, <1>2 DEF InFree, Doomed, ChildIsOther, Shrunk, ParentIsDir, Goes
<1>6. Renaming(Removed)' /\ Vacant(Removed)'
  BY <1>1, <1>2, <1>4 DEF InFree, Renaming, Vacant, Goes
<1>7. Sound(Removed, blk, Held, {}, bare, Roots \union Targets)'
  BY <1>1, <1>2, <1>4, <1>3 DEF InFree
<1>8. InNode'
  BY <1>2, <1>5, <1>6, <1>7, <1>3 DEF InNode, Goes
<1>9. Typed'
  BY <1>1, <1>2 DEF Typed, Goes, Pc
<1> QED
  BY <1>2, <1>8, <1>9, <1>3 DEF Clean, Goes, Pc

\* The names in an inode are its edges.
LEMMA NamesAre ==
  ASSUME inode \in [Inum -> Node], blk \in [Block -> Seq(Entry)], NEW c \in Inum
  PROVE  NamesIn(c) = {e[3] : e \in OutOf(c, Edges(inode, blk))}
<1> DEFINE entries == Entries(inode[c])
           H       == Holds(inode[c], blk)
<1>1. /\ entries \in Seq(Entry) /\ \A e : e \in H <=> \E k \in 1 .. Len(entries) : entries[k] = e
  BY EntriesOf
<1>2. NamesIn(c) = {entries[k].inum : k \in {j \in 1 .. Len(entries) : entries[j].name \in Name}}
  BY <1>1 DEF NamesIn
<1> HIDE DEF entries
<1>3. ASSUME NEW n \in NamesIn(c) PROVE \E e \in OutOf(c, Edges(inode, blk)) : e[3] = n
  <2>1. PICK k \in 1 .. Len(entries) : entries[k].name \in Name /\ entries[k].inum = n
    BY <1>2
  <2>2. entries[k] \in Entry
    BY <1>1, <2>1
  <2>3. entries[k] \in H
    BY <1>1, <2>1
  <2>4. entries[k] \in Entry /\ entries[k] \in H /\ n \in Inum \union {-1}
    BY <2>1, <2>2, <2>3 DEF Entry
  <2>5. entries[k] = [name |-> entries[k].name, inum |-> n]
    BY <2>1, <2>4 DEF Entry
  <2>6. <<c, entries[k].name, n>> \in Edges(inode, blk)
    BY <2>1, <2>4, <2>5, EdgeIn
  <2> QED
    BY <2>6 DEF OutOf
<1>4. ASSUME NEW e \in OutOf(c, Edges(inode, blk)) PROVE e[3] \in NamesIn(c)
  <2>1. e[2] \in Name /\ [name |-> e[2], inum |-> e[3]] \in H
    BY EdgeParts DEF OutOf
  <2>2. PICK k \in 1 .. Len(entries) : entries[k] = [name |-> e[2], inum |-> e[3]]
    BY <1>1, <2>1
  <2> QED
    BY <1>2, <2>1, <2>2
<1> QED
  BY <1>3, <1>4

\* The child is deleted.
LEMMA WriteNodeClean ==
  ASSUME Clean, WriteNode
  PROVE  Clean'
<1> DEFINE d == op.parent
           c == op.child
<1>1. InNode /\ Typed /\ op.pc = "node"
  BY DEF Clean, WriteNode, At, Pc
<1>2. c \in Inum /\ d \in Inum /\ c # d /\ inode[c].linkCount = 1
  BY <1>1 DEF InNode, Doomed, ChildIsOther, Shrunk, ParentIsDir
<1>3. /\ inode' = [inode EXCEPT ![c] = Deleted(c)] /\ UNCHANGED <<blk, used, lost>> /\ Goes("upper")
      /\ stranded' = IF c \in bare THEN stranded \union NamesIn(c) ELSE stranded
      /\ bare' \in {bare, bare \ {c}}
  BY <1>1, <1>2, GoGoes DEF WriteNode, WriteInode, Typed, Handlers
<1>4. Held' = Held
  BY <1>3 DEF Held
<1>5. Roots' = Roots \union Targets
  <2>1. NamesIn(c) = Targets
    BY <1>1, <1>2, NamesAre DEF Typed, Targets
  <2>2. c \notin bare => Targets = {}
    BY <1>1, NoEdges DEF InNode, Doomed, Targets, OutOf
  <2> QED
    BY <1>3, <2>1, <2>2 DEF Roots
<1>6. Sound(Removed, blk, Held, {}, bare', Roots')
  <2>1. Sound(Removed, blk, Held, {}, bare, Roots \union Targets)
    BY <1>1 DEF InNode
  <2>2. ~Removed[c].is_allocated
    BY <1>1, <1>2, DeletedIs DEF Removed, Typed
  <2>3. Finished(Removed, blk, {}, bare')
    BY <1>3, <2>1, <2>2 DEF Sound, Finished
  <2> QED
    BY <1>5, <2>1, <2>3 DEF Sound
<1>7. Parented' = Removed
  <2>1. \A n \in Inum : Parented'[n] = Removed[n]
    BY <1>1, <1>2, <1>3 DEF Parented, Removed, Goes, Typed
  <2> QED
    BY <1>1, <1>2, <1>3 DEF Parented, Removed, Goes, Typed
<1>8. Shrunk'
  BY <1>1, <1>2, <1>3 DEF InNode, Shrunk, ParentIsDir, Goes, Typed
<1>9. Renaming(Parented)' /\ Vacant(Parented)' /\ Sound(Parented, blk, Held, {}, bare, Roots)'
  BY <1>1, <1>3, <1>7, <1>4, <1>6 DEF InNode, Renaming, Vacant, Goes
<1>10. Typed'
  <2>1. Deleted(c) \in Node
    BY <1>1, <1>2, DeletedIs
  <2> QED
    BY <1>1, <1>2, <1>3, <2>1 DEF Typed, Goes, Pc
<1> QED
  BY <1>3, <1>8, <1>9, <1>10 DEF Clean, InUpper, Goes, Pc

\* The parent is written with its count.
LEMMA WriteUpperClean ==
  ASSUME Clean, WriteUpper
  PROVE  Clean'
<1>1. InUpper /\ Typed /\ op.pc = "upper"
  BY DEF Clean, WriteUpper, At, Pc
<1>2. inode' = Parented /\ blk' = blk /\ Held' = Held /\ Roots' = Roots /\ bare' = bare
  BY SameHistory, HistoryKept DEF WriteUpper, WriteInode, Parented
<1>3. AtRest'
  BY <1>1, <1>2 DEF InUpper, AtRest
<1>4. inode' \in [Inum -> Node] /\ blk' \in [Block -> Seq(Entry)]
  BY <1>3 DEF AtRest, Sound, Fits
<1>5. CASE op.call = "rename"
  <2>1. Goes("link")
    BY <1>1, <1>5, GoGoes DEF WriteUpper, Typed, Handlers
  <2>2. Typed'
    BY <1>1, <1>4, <2>1 DEF Typed, Goes, Pc
  <2>3. InLink'
    BY <1>1, <1>2, <1>3, <1>5, <2>1 DEF InUpper, InLink, Renaming, Vacant, Goes
  <2> QED
    BY <2>1, <2>2, <2>3 DEF Clean, Goes, Pc
<1>6. CASE op.call # "rename"
  <2>1. op' = Idle
    BY <1>6 DEF WriteUpper
  <2>2. Typed' /\ op'.pc = "idle"
    BY <1>4, <2>1, IdleIs DEF Typed, Pc
  <2> QED
    BY <1>3, <2>2 DEF Clean, Pc
<1> QED
  BY <1>5, <1>6

-----------------------------------------------------------------------------
(* fs_rename *)

\* What is not above a path is not above its parent either.
LEMMA NotPrefix ==
  ASSUME NEW p \in Path, NEW q \in Path, ~IsPrefix(p, q)
  PROVE  ~IsPrefix(p, Front(q))
<1>1. /\ p \in Seq(Name) /\ q \in Seq(Name) /\ q # << >>
  BY PathIs
<1>2. /\ Len(q) \in Nat /\ Len(q) > 0 /\ Front(q) \in Seq(Name) /\ Len(Front(q)) = Len(q) - 1
      /\ \A k \in 1 .. (Len(q) - 1) : Front(q)[k] = q[k]
  BY <1>1, FrontOf
<1> DEFINE f == Front(q)
<1> HIDE DEF f
<1>3. SUFFICES ASSUME IsPrefix(p, f) PROVE FALSE
  BY DEF f
<1>4. Len(p) \in Nat /\ Len(p) <= Len(f) /\ \A k \in 1 .. Len(p) : p[k] = f[k]
  BY <1>1, <1>3 DEF IsPrefix
<1>5. Len(p) <= Len(q) /\ \A k \in 1 .. Len(p) : p[k] = q[k]
  BY <1>2, <1>4 DEF f
<1>6. IsPrefix(p, q)
  BY <1>1, <1>5 DEF IsPrefix
<1> QED
  BY <1>6

\* The directory of an entry.
LEMMA EdgeFromDir ==
  ASSUME NEW tab, NEW bk, NEW u, Fits(tab, bk, u), NEW e \in Edges(tab, bk)
  PROVE  tab[e[1]].is_allocated /\ tab[e[1]].dir
<1>1. e[1] \in Inum /\ Holds(tab[e[1]], bk) # {}
  BY EdgeParts
<1>2. ~NoBlocks(tab[e[1]])
  BY <1>1, NoEntries
<1> QED
  BY <1>1, <1>2 DEF Fits

\* fs_rename adds the new name, unless there is no room.
LEMMA AddNameClean ==
  ASSUME Clean, Recorded, AddName
  PROVE  Clean' /\ Recorded'
<1> DEFINE E == Edges(inode, blk)
           d == get_inode_of_File(Front(op.path))
           n == get_inode_of_File(op.from)
           a == Last(op.path)
           added == add_directory_entry(inode[d], n, a)
<1>1. InLink /\ Typed /\ op.pc = "link"
  BY DEF Clean, AddName, At, Pc
<1>2. /\ AtRest /\ op.from \in Path /\ op.path \in Path
      /\ ~IsPrefix(op.from, op.path)
      /\ \E m \in Inum : LeadsTo(E, op.from, m)
      /\ \A m \in Inum : ~LeadsTo(E, op.path, m)
  BY <1>1 DEF InLink, Renaming, Vacant, Typed, Pc
<1>3. /\ IF IsDir(d)
         THEN /\ blk' = added.blk /\ used' = added.used /\ lost' = Lost(added)
              /\ IF added.ok
                 THEN op' = [op EXCEPT !.pc = "linked", !.parent = d, !.child = n, !.node = added.node]
                 ELSE op' = Idle
         ELSE op' = Idle /\ UNCHANGED <<blk, used, lost>>
      /\ UNCHANGED <<inode, bare, stranded>>
  BY DEF AddName
<1>4. /\ op.from \in Seq(Name) /\ op.from # << >> /\ Front(op.from) \in Seq(Name) /\ Last(op.from) \in Name
      /\ op.path \in Seq(Name) /\ op.path # << >> /\ Front(op.path) \in Seq(Name) /\ a \in Name
  BY <1>2, PathIs
<1>5. Fits(inode, blk, Held) /\ Finished(inode, blk, {}, bare) /\ Treelike(E, Alloc(inode), Roots)
  BY <1>2, RestIs
<1>6. n \in Inum /\ LeadsTo(E, op.from, n)
  <2>1. PICK m \in Inum : LeadsTo(E, op.from, m)
    BY <1>2
  <2>2. n = m
    BY <1>4, <1>5, <2>1, Lookup
  <2> QED
    BY <2>1, <2>2
<1>7. d \in Inum \union {-1} /\ (d \in Inum => LeadsTo(E, Front(op.path), d))
  BY <1>4, <1>5, Lookup
<1> HIDE DEF d, n, a
<1> DEFINE entry == [name |-> a, inum |-> n]
<1>8. ASSUME IsDir(d)
       PROVE  /\ d \in Inum /\ inode[d].is_allocated /\ inode[d].dir /\ LeadsTo(E, Front(op.path), d) /\ d \in Alloc(inode)
              /\ \A m \in Inum \union {-1} : <<d, a, m>> \notin E
              /\ AccountsAfter(added)
              /\ ~added.ok => added.blk = blk /\ HeldAfter(added) = Held
              /\ added.ok =>
                   /\ Becomes([inode EXCEPT ![d] = added.node], added.blk, HeldAfter(added), E \union {<<d, a, n>>})
                   /\ Extended(d, added.node, added.blk, entry)
  <2>1. d \in Inum /\ inode[d].is_allocated /\ inode[d].dir /\ LeadsTo(E, Front(op.path), d) /\ d \in Alloc(inode)
    BY <1>7, <1>8 DEF IsDir, Alloc
  <2>2. \A m \in Inum \union {-1} : <<d, a, m>> \notin E
    <3>1. SUFFICES ASSUME NEW m, <<d, a, m>> \in E PROVE FALSE
      OBVIOUS
    <3>2. m \in Inum
      BY <1>5, <3>1 DEF Treelike, Alloc
    <3>3. LeadsTo(E, op.path, m)
      BY <1>4, <2>1, <3>1, <3>2, PathDown DEF a
    <3> QED
      BY <1>2, <3>2, <3>3
  <2>3. Accounts
    BY DEF Recorded
  <2>4. /\ AccountsAfter(added)
        /\ ~added.ok => added.node = inode[d] /\ added.blk = blk /\ HeldAfter(added) = Held
        /\ added.ok =>
             /\ Becomes([inode EXCEPT ![d] = added.node], added.blk, HeldAfter(added), E \union {<<d, a, n>>})
             /\ Extended(d, added.node, added.blk, entry)
    BY <1>4, <1>5, <1>6, <2>1, <2>2, <2>3, NameAdded
  <2> HIDE DEF added, E, entry
  <2> QED
    BY <2>1, <2>2, <2>4
<1> HIDE DEF added
<1>9. bare' = bare /\ Roots' = Roots
  BY <1>3 DEF Roots
<1>10. Recorded' /\ (IsDir(d) => Held' = HeldAfter(added)) /\ (~IsDir(d) => Held' = Held)
  <2>1. CASE IsDir(d)
    <3>1. used' = added.used /\ lost' = Lost(added) /\ AccountsAfter(added)
      BY <1>3, <1>8, <2>1
    <3> QED
      BY <1>9, <2>1, <3>1 DEF Recorded, Accounts, AccountsAfter, Held, HeldAfter
  <2>2. CASE ~IsDir(d)
    BY <1>3, <1>9, <2>2 DEF Recorded, Accounts, Held
  <2> QED
    BY <2>1, <2>2
<1>11. CASE ~(IsDir(d) /\ added.ok)
  <2>1. op' = Idle /\ UNCHANGED <<inode, blk>> /\ Held' = Held
    BY <1>3, <1>11, <1>8, <1>10
  <2>2. Typed' /\ op'.pc = "idle"
    BY <1>1, <2>1, IdleIs DEF Typed, Pc
  <2>3. AtRest'
    BY <1>2, <1>9, <2>1 DEF AtRest
  <2> QED
    BY <1>10, <2>2, <2>3 DEF Clean, Pc
<1>12. CASE IsDir(d) /\ added.ok
  <2>1. d \in Inum /\ inode[d].is_allocated /\ inode[d].dir /\ LeadsTo(E, Front(op.path), d) /\ d \in Alloc(inode)
    BY <1>12, <1>8
  <2>2. \A m \in Inum \union {-1} : <<d, a, m>> \notin E
    BY <1>12, <1>8
  <2> DEFINE new == <<d, a, n>>
             E2  == E \union {new}
  <2>3. /\ Becomes([inode EXCEPT ![d] = added.node], added.blk, HeldAfter(added), E2)
        /\ Extended(d, added.node, added.blk, [name |-> a, inum |-> n])
    BY <1>12, <1>8
  <2> DEFINE tab2 == [inode EXCEPT ![d] = added.node]
  <2>4. /\ inode' = inode /\ blk' = added.blk /\ Held' = HeldAfter(added)
        /\ op' = [op EXCEPT !.pc = "linked", !.parent = d, !.child = n, !.node = added.node]
    BY <1>3, <1>12, <1>10
  <2>5. /\ op' \in Handling /\ op'.pc = "linked" /\ op'.call = op.call /\ op'.path = op.path /\ op'.from = op.from
        /\ op'.parent = d /\ op'.child = n /\ op'.node = added.node
    BY <1>1, <1>6, <2>1, <2>3, <2>4 DEF Typed, Handling, Handlers, Extended
  <2>6. Parented' = tab2
    BY <2>4, <2>5 DEF Parented
  <2>7. Fits(tab2, blk', Held') /\ Finished(tab2, blk', {}, bare') /\ Edges(tab2, blk') = E2 /\ Alloc(tab2) = Alloc(inode)
    BY <1>5, <1>9, <2>3, <2>4 DEF Becomes
  <2> HIDE DEF tab2
  <2>8. PICK f \in Inum : LeadsTo(E, Front(op.from), f) /\ <<f, Last(op.from), n>> \in E
    BY <1>4, <1>6, PathUp
  <2> DEFINE old == <<f, Last(op.from), n>>
  <2>9. LeadsTo(E2, Front(op.from), f)
    BY <1>4, <2>8, PathStays
  <2>10. Treelike(E2 \ {old}, Alloc(inode), Roots)
    <3>1. ~IsPrefix(op.from, Front(op.path))
      BY <1>2, NotPrefix
    <3>2. old[3] = n /\ old \in E
      BY <2>8
    <3>3. \A e \in E : ~(e[1] = d /\ e[2] = a)
      <4>1. SUFFICES ASSUME NEW e \in E, e[1] = d, e[2] = a PROVE FALSE
        OBVIOUS
      <4>2. e = <<d, a, e[3]>> /\ e[3] \in Inum \union {-1}
        BY <4>1, EdgeParts
      <4> QED
        BY <2>2, <4>2
    <3>4. new = <<d, a, old[3]>>
      BY <3>2
    <3> HIDE DEF old, E, new
    <3>5. Treelike((E \union {<<d, a, old[3]>>}) \ {old}, Alloc(inode), Roots)
      BY <1>4, <1>5, <1>6, <2>1, <3>1, <3>2, <3>3, Moved DEF a
    <3> QED
      BY <3>4, <3>5
  <2>11. new \in E2 \ {old} /\ old \in E2
    BY <1>6, <2>2, <2>8
  <2>12. TwoNames(Parented)'
    <3>1. NewEdge' = new
      BY <2>5 DEF NewEdge, a
    <3>2. <<f, Last(op'.from), op'.child>> = old
      BY <2>5
    <3> HIDE DEF old, new, E2
    <3>3. /\ old \in Edges(tab2, blk') /\ LeadsTo(Edges(tab2, blk'), Front(op'.from), f)
          /\ Treelike(Edges(tab2, blk') \ {old}, Alloc(tab2), Roots') /\ new \in Edges(tab2, blk') \ {old}
      BY <1>9, <2>5, <2>7, <2>9, <2>10, <2>11
    <3> QED
      BY <1>2, <2>5, <2>6, <2>7, <3>1, <3>2, <3>3 DEF TwoNames
  <2>13. ParentIsDir' /\ Grown'
    BY <2>1, <2>3, <2>4, <2>5 DEF ParentIsDir, Grown, Extended, NewEntry, a
  <2>14. Typed'
    BY <1>2, <1>5, <2>4, <2>5, <2>7 DEF Typed, Fits, Pc
  <2>15. InLinked'
    BY <1>6, <2>5, <2>12, <2>13 DEF InLinked
  <2> QED
    BY <1>10, <2>5, <2>14, <2>15 DEF Clean, Pc
<1> QED
  BY <1>11, <1>12

\* The directory of the new name is written.
LEMMA WriteToClean ==
  ASSUME Clean, WriteTo
  PROVE  Clean'
<1>1. InLinked /\ Typed /\ op.pc = "linked"
  BY DEF Clean, WriteTo, At, Pc
<1>2. /\ inode' = Parented /\ blk' = blk /\ Goes("drop") /\ Held' = Held /\ Roots' = Roots /\ bare' = bare
  BY <1>1, GoGoes, SameHistory, HistoryKept DEF WriteTo, WriteInode, Parented, Typed, Handlers
<1>3. TwoNames(inode)'
  BY <1>1, <1>2 DEF InLinked, TwoNames, NewEdge, Goes
<1>4. InDrop'
  BY <1>1, <1>2, <1>3 DEF InLinked, InDrop, ParentIsDir, Goes
<1>5. Typed'
  BY <1>1, <1>2, <1>3 DEF Typed, TwoNames, Fits, Goes, Pc
<1> QED
  BY <1>2, <1>4, <1>5 DEF Clean, Goes, Pc

\* The old name is found, and taken out.
LEMMA DropNameClean ==
  ASSUME Clean, DropName
  PROVE  Clean'
<1> DEFINE E == Edges(inode, blk)
           d == get_inode_of_File(Front(op.from))
           a == Last(op.from)
           c == op.child
           removed == remove_from_directory(inode[d], a)
<1>1. InDrop /\ Typed /\ op.pc = "drop"
  BY DEF Clean, DropName, At, Pc
<1>2. c \in Inum /\ Fits(inode, blk, Held) /\ Finished(inode, blk, {}, bare) /\ op.from \in Path
  BY <1>1 DEF InDrop, TwoNames
<1>3. op.from \in Seq(Name) /\ Front(op.from) \in Seq(Name) /\ a \in Name
  BY <1>2, PathIs
<1>4. d \in Inum /\ <<d, a, c>> \in E /\ Treelike(E \ {<<d, a, c>>}, Alloc(inode), Roots)
  <2>1. PICK f \in Inum : /\ <<f, a, c>> \in E /\ LeadsTo(E, Front(op.from), f)
                          /\ Treelike(E \ {<<f, a, c>>}, Alloc(inode), Roots)
    BY <1>1 DEF InDrop, TwoNames
  <2>2. d = f
    BY <1>2, <1>3, <2>1, Lookup
  <2> QED
    BY <2>1, <2>2
<1> HIDE DEF d, a, c
<1>5. Has(d, a) /\ inode[d].is_allocated /\ inode[d].dir
  <2>1. [name |-> a, inum |-> c] \in Holds(inode[d], blk)
    BY <1>2, <1>3, <1>4, EdgeIn
  <2>2. Has(d, a) /\ IsDir(d)
    BY <1>2, <1>4, <2>1, Found, RootIs
  <2> QED
    BY <2>2 DEF IsDir
<1>6. /\ blk' = removed.blk /\ op' = [op EXCEPT !.pc = "dropped", !.parent = d, !.node = removed.node]
      /\ inode' = inode /\ Held' = Held /\ Roots' = Roots /\ bare' = bare
  BY <1>5, SameHistory, HistoryKept DEF DropName, d, a
<1>7. /\ Becomes([inode EXCEPT ![d] = removed.node], removed.blk, Held, E \ {<<d, a, c>>})
      /\ Lessened(d, removed.node)
  BY <1>2, <1>3, <1>4, NameDropped
<1> HIDE DEF removed
<1>8. /\ op' \in Handling /\ op'.pc = "dropped" /\ op'.parent = d /\ op'.node = removed.node /\ op'.path = op.path
  BY <1>1, <1>4, <1>6, <1>7 DEF Typed, Handling, Handlers, Lessened
<1> DEFINE tab2 == [inode EXCEPT ![d] = removed.node]
<1>9. Parented' = tab2
  BY <1>6, <1>8 DEF Parented
<1>10. Sound(tab2, blk', Held', {}, bare', Roots')
  BY <1>2, <1>4, <1>6, <1>7 DEF Sound, Becomes
<1> HIDE DEF tab2
<1>11. Shrunk'
  BY <1>4, <1>5, <1>6, <1>7, <1>8 DEF Shrunk, ParentIsDir, Lessened
<1>12. InDropped'
  BY <1>9, <1>10, <1>11 DEF InDropped
<1>13. Typed'
  BY <1>1, <1>6, <1>8, <1>10 DEF Typed, Sound, Fits, Pc
<1> QED
  BY <1>8, <1>12, <1>13 DEF Clean, Pc

\* The directory of the old name is written.
LEMMA WriteFromClean ==
  ASSUME Clean, WriteFrom
  PROVE  Clean'
<1>1. InDropped /\ Typed /\ op.pc = "dropped"
  BY DEF Clean, WriteFrom, At, Pc
<1>2. /\ inode' = Parented /\ blk' = blk /\ op' = Idle /\ Held' = Held /\ Roots' = Roots /\ bare' = bare
  BY SameHistory, HistoryKept DEF WriteFrom, Finish, WriteInode, Parented
<1>3. AtRest'
  BY <1>1, <1>2 DEF InDropped, AtRest
<1>4. Typed' /\ op'.pc = "idle"
  BY <1>2, <1>3, IdleIs DEF Typed, AtRest, Sound, Fits, Pc
<1> QED
  BY <1>3, <1>4 DEF Clean, Pc

-----------------------------------------------------------------------------
(* Every step *)

\* The requests.
LEMMA ServeClean ==
  ASSUME Clean, Serve
  PROVE  Clean'
<1>1. At("idle")
  BY DEF Serve
<1>2. ASSUME NEW path \in Path, fs_mknod(path) \/ fs_mkdir(path) PROVE Clean'
  BY <1>1, <1>2, CreateClean DEF fs_mknod, fs_mkdir
<1>3. ASSUME NEW path \in Path, fs_unlink(path) PROVE Clean'
  BY <1>1, <1>3, UnlinkClean
<1>4. ASSUME NEW from \in Path, NEW path \in Path, fs_rename(from, path) PROVE Clean'
  BY <1>1, <1>4, RenameClean
<1> QED
  BY <1>2, <1>3, <1>4 DEF Serve

\* A crash that damages nothing leaves what is at rest.
LEMMA CrashClean ==
  ASSUME Clean, Crash, torn' = {}
  PROVE  Clean'
<1>1. /\ op' = Idle /\ UNCHANGED <<inode, blk>> /\ Typed /\ op \in Handling /\ Pc # "idle"
      /\ Held' = Held /\ Roots' = Roots /\ bare' = bare
  BY HistoryKept DEF Crash, Clean, At, Pc, Typed
<1>2. CASE Pc \in {"create", "remove", "link"}
  <2>1. AtRest
    BY <1>2 DEF Clean, InRemove, InLink
  <2>2. AtRest'
    BY <1>1, <2>1 DEF AtRest
  <2>3. Typed' /\ op'.pc = "idle"
    BY <1>1, IdleIs DEF Typed, Pc
  <2> QED
    BY <2>2, <2>3 DEF Clean, Pc
<1>3. CASE Pc \notin {"create", "remove", "link"}
  <2>1. op.parent \in Inum \/ op.child \in Inum
    <3>1. CASE Pc \in {"add", "undo"}
      BY <3>1 DEF Clean, HalfMade, Newborn, ChildIsOther
    <3>2. CASE Pc \in {"parent", "child"}
      BY <3>2 DEF Clean, InParent, InChild, Newborn, ChildIsOther
    <3>3. CASE Pc \in {"dots", "self"}
      BY <3>3 DEF Clean, InDots, InSelf, ChildIsOther
    <3>4. CASE Pc \in {"free", "node"}
      BY <3>4 DEF Clean, InFree, InNode, Doomed, ChildIsOther
    <3>5. CASE Pc \in {"upper", "dropped"}
      BY <3>5 DEF Clean, InUpper, InDropped, Shrunk, ParentIsDir
    <3>6. CASE Pc \in {"linked", "drop"}
      BY <3>6 DEF Clean, InLinked, InDrop
    <3>7. Pc \in Handlers
      BY <1>1 DEF Handling, Pc
    <3> QED
      BY <1>1, <1>3, <3>1, <3>2, <3>3, <3>4, <3>5, <3>6, <3>7 DEF Handlers
  <2>2. torn' = torn \union ({op.parent, op.child} \ {-1})
    BY <1>3 DEF Crash, Pc
  <2>3. op.parent \in torn' \/ op.child \in torn'
    BY <2>1, <2>2, RootIs
  <2> QED
    BY <2>3
<1> QED
  BY <1>2, <1>3

\* A step that changes nothing.
LEMMA StillClean ==
  ASSUME Clean, UNCHANGED vars
  PROVE  Clean'
<1>1. UNCHANGED <<inode, blk, op>> /\ Held' = Held /\ Roots' = Roots /\ bare' = bare
  <2>1. UNCHANGED <<inode, blk, op, used, bare, stranded, lost>>
    BY DEF vars, history
  <2> QED
    BY <2>1, HistoryKept
<1>2. Typed' /\ Pc' = Pc
  BY <1>1 DEF Clean, Typed, Pc
<1>3. (AtRest => AtRest') /\ (Loaded => Loaded') /\ (Newborn => Newborn') /\ (HalfMade => HalfMade')
  BY <1>1 DEF AtRest, Loaded, ParentIsDir, Unnamed, HalfMade, Newborn, ChildIsOther
<1>4. (InParent => InParent') /\ (InChild => InChild')
  BY <1>1 DEF InParent, InChild, ParentIsDir, Grown, NewEntry, Parented, Newborn, ChildIsOther
<1>5. (InDots => InDots') /\ (InSelf => InSelf')
  BY <1>1 DEF InDots, InSelf, Dotted, ChildIsOther
<1>6. /\ Parented' = Parented /\ Removed' = Removed /\ Targets' = Targets /\ (Doomed => Doomed') /\ (Shrunk => Shrunk')
      /\ (ParentIsDir => ParentIsDir') /\ (Grown => Grown') /\ NewEdge' = NewEdge
  BY <1>1 DEF Parented, Removed, Deleted, Targets, Doomed, ChildIsOther, Shrunk, ParentIsDir, Grown, NewEntry, NewEdge
<1>7. InRemove => InRemove'
  BY <1>1, <1>3, <1>6 DEF InRemove, Renaming
<1>8. (InFree => InFree') /\ (InNode => InNode')
  BY <1>1, <1>6 DEF InFree, InNode, Renaming, Vacant
<1>9. (InUpper => InUpper') /\ (InLink => InLink') /\ (InDropped => InDropped')
  BY <1>1, <1>3, <1>6 DEF InUpper, InLink, InDropped, Renaming, Vacant
<1>10. (InLinked => InLinked') /\ (InDrop => InDrop')
  BY <1>1, <1>6 DEF InLinked, InDrop, TwoNames
<1> QED
  BY <1>2, <1>3, <1>4, <1>5, <1>7, <1>8, <1>9, <1>10 DEF Clean

\* A handler that is cut short stays in the history.
LEMMA TornStays ==
  ASSUME [Next]_vars
  PROVE  torn \subseteq torn'
<1>1. CASE UNCHANGED vars
  BY <1>1 DEF vars, history
<1>2. CASE Serve
  BY <1>2 DEF Serve, fs_mknod, fs_mkdir, fs_unlink, fs_rename, Create, Request, history
<1>3. CASE createInode \/ UndoCreate \/ WriteParent \/ WriteChild \/ WriteSelf
  BY <1>3, SameHistory DEF createInode, UndoCreate, WriteParent, WriteChild, WriteSelf, Finish
<1>4. CASE AddChild \/ AddDots \/ AddName \/ WriteNode
  BY <1>4 DEF AddChild, AddDots, AddName, WriteNode
<1>5. CASE RemoveName \/ FreeBlocks \/ WriteUpper \/ WriteTo \/ DropName \/ WriteFrom
  BY <1>5, SameHistory DEF RemoveName, FreeBlocks, WriteUpper, WriteTo, DropName, WriteFrom, Finish
<1>6. CASE Crash
  BY <1>6 DEF Crash
<1> QED
  BY <1>1, <1>2, <1>3, <1>4, <1>5, <1>6 DEF Next

\* A step that keeps the history and the blocks that are allocated.
LEMMA RecordedStays ==
  ASSUME Recorded, UNCHANGED <<used, bare, stranded, lost>>
  PROVE  Recorded'
  BY HistoryKept

\* The history stays what it is about.
LEMMA NextRecorded ==
  ASSUME Clean, Recorded, [Next]_vars
  PROVE  Recorded'
<1>1. CASE UNCHANGED vars \/ Serve
  <2>1. UNCHANGED <<used, bare, stranded, lost>>
    BY <1>1 DEF vars, Serve, fs_mknod, fs_mkdir, fs_unlink, fs_rename, Create, Request, history
  <2> QED
    BY <2>1, RecordedStays
<1>2. CASE createInode \/ UndoCreate \/ WriteParent \/ WriteChild \/ WriteSelf
  <2>1. UNCHANGED <<used, bare, stranded, lost>>
    BY <1>2, SameHistory
       DEF createInode, UndoCreate, WriteParent, WriteChild, WriteSelf, Finish, WriteInode
  <2> QED
    BY <2>1, RecordedStays
<1>3. CASE AddChild \/ AddDots \/ AddName \/ FreeBlocks
  BY <1>3, AddChildClean, AddDotsClean, AddNameClean, FreeBlocksClean
<1>4. CASE RemoveName \/ WriteUpper \/ WriteTo \/ DropName \/ WriteFrom
  <2>1. UNCHANGED <<used, bare, stranded, lost>>
    BY <1>4, SameHistory DEF RemoveName, WriteUpper, WriteTo, DropName, WriteFrom, Finish, WriteInode
  <2> QED
    BY <2>1, RecordedStays
<1>5. CASE WriteNode
  BY <1>5 DEF WriteNode, WriteInode, Recorded, Accounts
<1>6. CASE Crash
  BY <1>6 DEF Crash, Recorded, Accounts
<1> QED
  BY <1>1, <1>2, <1>3, <1>4, <1>5, <1>6 DEF Next

\* Every step.
LEMMA NextClean ==
  ASSUME Clean, Recorded, [Next]_vars, torn' = {}
  PROVE  Clean'
<1>1. CASE UNCHANGED vars
  BY <1>1, StillClean
<1>2. CASE Serve
  BY <1>2, ServeClean
<1>3. CASE createInode \/ AddChild \/ UndoCreate
  BY <1>3, createInodeClean, AddChildClean, UndoCreateClean
<1>4. CASE WriteParent \/ WriteChild \/ AddDots \/ WriteSelf
  BY <1>4, WriteParentClean, WriteChildClean, AddDotsClean, WriteSelfClean
<1>5. CASE RemoveName \/ FreeBlocks \/ WriteNode \/ WriteUpper
  BY <1>5, RemoveNameClean, FreeBlocksClean, WriteNodeClean, WriteUpperClean
<1>6. CASE AddName \/ WriteTo \/ DropName \/ WriteFrom
  BY <1>6, AddNameClean, WriteToClean, DropNameClean, WriteFromClean
<1>7. CASE Crash
  BY <1>7, CrashClean
<1> QED
  BY <1>1, <1>2, <1>3, <1>4, <1>5, <1>6, <1>7 DEF Next

\* The names, the counts and the blocks fit at every step of every handler, while none was
\* cut short.
THEOREM Invariant == Spec => []Inv
<1>1. Init => Inv
  <2>1. ASSUME Init PROVE Recorded
    BY <2>1, NamespaceAssumption DEF Init, Recorded, Accounts, Block
  <2> QED
    BY <2>1, InitIsClean DEF Inv
<1>2. Inv /\ [Next]_vars => Inv'
  <2>1. SUFFICES ASSUME Inv, [Next]_vars, torn' = {} PROVE Clean' /\ Recorded'
    BY DEF Inv
  <2>2. torn = {}
    BY <2>1, TornStays
  <2> QED
    BY <2>1, <2>2, NextClean, NextRecorded DEF Inv
<1> QED
  BY <1>1, <1>2, PTL DEF Spec

-----------------------------------------------------------------------------
(* Links are the names with their places *)

\* A link is a name on the disk, with its place.
LEMMA LinkParts ==
  ASSUME Typed, NEW l \in Links
  PROVE  /\ l[1] \in Inum /\ IsDir(l[1]) /\ l[3] \in Inum \union {-1}
         /\ \E a \in Name : /\ <<l[1], a, l[3]>> \in Edges(inode, blk)
                            /\ l[2] \in 1 .. Len(Entries(inode[l[1]]))
                            /\ Entries(inode[l[1]])[l[2]].name = a
                            /\ l = <<l[1], l[2], l[3]>>
<1>1. PICK d \in Dirs : \E k \in DOMAIN Entries(inode[d]) :
        Entries(inode[d])[k].name \in Name /\ l = <<d, k, Entries(inode[d])[k].inum>>
  BY DEF Links
<1>2. d \in Inum /\ IsDir(d) /\ inode[d] \in Node /\ blk \in [Block -> Seq(Entry)]
  BY DEF Dirs, Typed
<1>3. Entries(inode[d]) \in Seq(Entry)
  BY <1>2, EntriesOf
<1>4. PICK k \in 1 .. Len(Entries(inode[d])) :
        Entries(inode[d])[k].name \in Name /\ l = <<d, k, Entries(inode[d])[k].inum>>
  BY <1>1, <1>3
<1> DEFINE e == Entries(inode[d])[k]
<1>5. e \in Entry /\ e \in Holds(inode[d], blk)
  BY <1>2, <1>3, EntriesOf
<1> HIDE DEF e
<1>6. e.inum \in Inum \union {-1} /\ e = [name |-> e.name, inum |-> e.inum] /\ e.name \in Name
  BY <1>4, <1>5 DEF Entry, e
<1>7. <<d, e.name, e.inum>> \in Edges(inode, blk)
  BY <1>2, <1>5, <1>6, EdgeIn
<1>8. l[1] = d /\ l[2] = k /\ l[3] = e.inum
  BY <1>4 DEF e
<1> QED
  BY <1>2, <1>4, <1>6, <1>7, <1>8 DEF e

\* A name in a directory on the disk is a link.
LEMMA LinkThere ==
  ASSUME Typed, NEW d \in Inum, IsDir(d), NEW a \in Name, NEW n, <<d, a, n>> \in Edges(inode, blk)
  PROVE  \E k \in 1 .. Len(Entries(inode[d])) : Entries(inode[d])[k].name = a /\ <<d, k, n>> \in LinksTo(n)
<1>1. n \in Inum \union {-1} /\ [name |-> a, inum |-> n] \in Holds(inode[d], blk)
  <2>1. n \in Inum \union {-1}
    BY DEF Edges
  <2> QED
    BY <2>1, EdgeIn
<1>2. inode[d] \in Node /\ blk \in [Block -> Seq(Entry)] /\ d \in Dirs
  BY DEF Typed, Dirs
<1>3. Entries(inode[d]) \in Seq(Entry)
  BY <1>2, EntriesOf
<1>4. PICK k \in 1 .. Len(Entries(inode[d])) : Entries(inode[d])[k] = [name |-> a, inum |-> n]
  BY <1>1, <1>2, EntriesOf
<1>5. k \in DOMAIN Entries(inode[d]) /\ Entries(inode[d])[k].name = a /\ Entries(inode[d])[k].inum = n
  BY <1>3, <1>4
<1>6. <<d, k, n>> \in Links
  BY <1>2, <1>5 DEF Links
<1> QED
  BY <1>5, <1>6 DEF LinksTo

\* Every inode of the trees but the roots has a name.
LEMMA HasName ==
  ASSUME NEW E, NEW A, NEW R, Treelike(E, A, R), NEW n \in A \ R
  PROVE  \E e \in E : e[3] = n
<1>1. SUFFICES ASSUME \A e \in E : e[3] # n PROVE FALSE
  OBVIOUS
<1>2. E \subseteq A \X Name \X A
  BY DEF Treelike
<1>3. \A e \in E : e[3] \in A \ {n}
  BY <1>1, <1>2
<1>4. A \ {n} = A
  <2> DEFINE S == A \ {n}
  <2>1. S \in SUBSET A /\ R \subseteq S /\ \A e \in E : e[1] \in S => e[3] \in S
    BY <1>3 DEF Treelike
  <2> HIDE DEF S
  <2>2. S = A
    BY <2>1, AllReached
  <2> QED
    BY <2>2 DEF S
<1> QED
  BY <1>4

\* Between requests the links are the names of the tree.
LEMMA LinksAreEdges ==
  ASSUME AtRest, Typed
  PROVE  /\ \A e \in Edges(inode, blk) : \E l \in Links : l[1] = e[1] /\ l[3] = e[3]
         /\ \A l \in Links : \E e \in Edges(inode, blk) : l[1] = e[1] /\ l[3] = e[3]
<1>1. ASSUME NEW e \in Edges(inode, blk) PROVE \E l \in Links : l[1] = e[1] /\ l[3] = e[3]
  <2>1. e[1] \in Inum /\ e[2] \in Name /\ e = <<e[1], e[2], e[3]>>
    BY EdgeParts
  <2>2. IsDir(e[1])
    BY <2>1, RestIs, RootIs, EdgeFromDir DEF IsDir
  <2>3. PICK k \in 1 .. Len(Entries(inode[e[1]])) : <<e[1], k, e[3]>> \in LinksTo(e[3])
    BY <2>1, <2>2, LinkThere
  <2> QED
    BY <2>3 DEF LinksTo
<1>2. ASSUME NEW l \in Links PROVE \E e \in Edges(inode, blk) : l[1] = e[1] /\ l[3] = e[3]
  BY LinkParts
<1> QED
  BY <1>1, <1>2

\* Names lead from the root and from what is stranded to every inode that is allocated.
LEMMA ReachedIsAll ==
  ASSUME AtRest, Typed
  PROVE  Reached = Alloc(inode)
<1> DEFINE N    == INODES
           U    == Inum \union {-1}
           T    == SUBSET U
           base == {ROOT_DIR_INODE_NUM} \union stranded
           step == [k \in 1 .. N |-> [S \in T |-> Further(Links, S)]]
           is(g) == g = [k \in 0 .. N |-> IF k = 0 THEN base
                           ELSE g[k - 1] \union {l[3] : l \in {m \in Links : m[1] \in g[k - 1]}}]
           reach == CHOOSE g : is(g)
<1>1. Reached = reach[N]
  BY DEF Reached
<1>2. N \in Nat /\ base \in T
  <2>1. Roots \subseteq Inum
    BY RestIs DEF Treelike
  <2> QED
    BY <2>1, NamespaceAssumption DEF Roots
<1> HIDE DEF N, reach
<1>3. \A S \in T : Further(Links, S) \in T
  <2>1. \A l \in Links : l[3] \in U
    BY LinkParts
  <2> QED
    BY <2>1 DEF Further
<1> HIDE DEF T, base
<1>4. step \in [1 .. N -> [T -> T]]
  BY <1>3
<1>5. \A k \in 1 .. N : \A S \in T : step[k][S] = Further(Links, S)
  OBVIOUS
<1> HIDE DEF step
<1>6. PICK g \in [0 .. N -> T] : g[0] = base /\ \A k \in 1 .. N : g[k] = step[k][g[k - 1]]
  <2> HIDE DEF is
  <2>1. \E g \in [0 .. N -> T] : Recurs(N, base, step, g)
    BY <1>2, <1>4, Recursion
  <2> QED
    BY <2>1 DEF Recurs
<1>7. is(g)
  <2>1. ASSUME NEW k \in 0 .. N
        PROVE  g[k] = IF k = 0 THEN base ELSE g[k - 1] \union {l[3] : l \in {m \in Links : m[1] \in g[k - 1]}}
    <3>1. k # 0 => k \in 1 .. N /\ k - 1 \in 0 .. N /\ g[k - 1] \in T
      BY <1>2, <1>6
    <3> QED
      BY <1>5, <1>6, <3>1 DEF Further
  <2>2. g = [k \in 0 .. N |-> g[k]]
    BY <1>6
  <2> QED
    BY <2>1, <2>2
<1>8. is(reach)
  <2> HIDE DEF is
  <2> QED
    BY <1>7 DEF reach
<1>9. reach[0] = base /\ Furthers(Links, reach, N)
  <2>1. \A k \in 0 .. N : reach[k] = IF k = 0 THEN base
                                     ELSE reach[k - 1] \union {l[3] : l \in {m \in Links : m[1] \in reach[k - 1]}}
    BY <1>8
  <2>2. 0 \in 0 .. N /\ \A k \in 1 .. N : k \in 0 .. N /\ k # 0
    BY <1>2
  <2> QED
    BY <2>1, <2>2 DEF Furthers, Further
<1> HIDE DEF is
<1>10. reach[INODES] = Alloc(inode)
  <2>1. Treelike(Edges(inode, blk), Alloc(inode), Roots)
    BY RestIs
  <2>2. reach[0] = Roots /\ Furthers(Links, reach, INODES)
    BY <1>9 DEF base, N, Roots
  <2> QED
    BY <2>1, <2>2, LinksAreEdges, ReachesAll
<1> QED
  BY <1>1, <1>10 DEF N

\* What is stranded has no name.
LEMMA NoLink ==
  ASSUME AtRest, Typed, NEW n \in stranded
  PROVE  Cardinality(LinksTo(n)) = 0
<1>1. ASSUME NEW l \in LinksTo(n) PROVE FALSE
  <2>1. l \in Links /\ l[3] = n
    BY DEF LinksTo
  <2>2. PICK e \in Edges(inode, blk) : e[3] = n
    BY <2>1, LinksAreEdges
  <2> QED
    BY <2>2, RestIs DEF Treelike, Roots
<1>2. LinksTo(n) = {}
  BY <1>1
<1> QED
  BY <1>2, FS_EmptySet

\* An inode has one name.
LEMMA OneLink ==
  ASSUME AtRest, Typed, NEW n \in Alloc(inode) \ Roots
  PROVE  Cardinality(LinksTo(n)) = 1
<1> DEFINE E == Edges(inode, blk)
<1>1. Treelike(E, Alloc(inode), Roots) /\ Fits(inode, blk, Held)
  BY RestIs
<1>2. PICK e \in E : e[3] = n
  <2> HIDE DEF E
  <2> QED
    BY <1>1, HasName
<1>3. e[1] \in Inum /\ e[2] \in Name /\ e = <<e[1], e[2], n>>
  BY <1>2, EdgeParts
<1>4. IsDir(e[1])
  BY <1>1, <1>3, RootIs, EdgeFromDir DEF IsDir
<1>5. PICK k \in 1 .. Len(Entries(inode[e[1]])) : /\ Entries(inode[e[1]])[k].name = e[2]
                                                  /\ <<e[1], k, n>> \in LinksTo(n)
  <2>1. <<e[1], e[2], n>> \in Edges(inode, blk)
    BY <1>2, <1>3
  <2> HIDE DEF E
  <2> QED
    BY <1>3, <1>4, <2>1, LinkThere
<1>6. ASSUME NEW l \in LinksTo(n) PROVE l = <<e[1], k, n>>
  <2>1. l \in Links /\ l[3] = n
    BY DEF LinksTo
  <2>2. PICK a \in Name : /\ <<l[1], a, n>> \in E /\ l[2] \in 1 .. Len(Entries(inode[l[1]]))
                          /\ Entries(inode[l[1]])[l[2]].name = a /\ l = <<l[1], l[2], l[3]>>
    BY <2>1, LinkParts
  <2>3. <<l[1], a, n>>[3] = e[3] /\ <<l[1], a, n>>[1] = l[1] /\ <<l[1], a, n>>[2] = a
    BY <1>2
  <2>4. <<l[1], a, n>> = e
    BY <1>1, <2>2, <2>3 DEF Treelike
  <2>5. l[1] = e[1] /\ a = e[2]
    BY <2>3, <2>4
  <2>6. Different(Entries(inode[e[1]]))
    BY <1>1, <1>3, EntriesCounted DEF Fits
  <2>7. l[2] = k
    BY <1>5, <2>2, <2>5, <2>6 DEF Different
  <2> QED
    BY <2>1, <2>2, <2>5, <2>7
<1>7. LinksTo(n) = {<<e[1], k, n>>}
  BY <1>5, <1>6
<1> QED
  BY <1>7, FS_Singleton

\* Between requests, while no handler was cut short.
LEMMA AtIdle ==
  ASSUME Inv, op = Idle, torn = {}
  PROVE  AtRest /\ Typed
<1>1. Pc = "idle"
  BY IdleIs DEF Pc
<1> QED
  BY <1>1 DEF Inv, Clean

\* Between requests the names form trees that lead to every inode, one name each, but for
\* the inodes that are stranded.
THEOREM TreeCorrect == Spec => []Tree
<1>1. Inv => Tree
  <2>1. SUFFICES ASSUME Inv, op = Idle, torn = {}, NEW n \in Inum \ {ROOT_DIR_INODE_NUM}, inode[n].is_allocated
                 PROVE  /\ Cardinality(LinksTo(n)) = IF n \in stranded THEN 0 ELSE 1
                        /\ inode[n].linkCount = 1 /\ n \in Reached
    BY DEF Tree
  <2>2. AtRest /\ Typed
    BY <2>1, AtIdle
  <2>3. n \in Alloc(inode) \ {ROOT_DIR_INODE_NUM} /\ (n \notin stranded => n \in Alloc(inode) \ Roots)
    BY <2>1 DEF Alloc, Roots
  <2>4. inode[n].linkCount = 1
    BY <2>1, <2>2, RestIs DEF Finished
  <2>5. n \in stranded => Cardinality(LinksTo(n)) = 0
    BY <2>2, NoLink
  <2>6. n \notin stranded => Cardinality(LinksTo(n)) = 1
    BY <2>2, <2>3, OneLink
  <2> QED
    BY <2>2, <2>3, <2>4, <2>5, <2>6, ReachedIsAll
<1> QED
  BY <1>1, Invariant, PTL

\* Between requests every directory can be listed whose ".." is the directory that it is in.
THEOREM ListableCorrect == Spec => []Listable
<1>1. Inv => Listable
  <2>1. SUFFICES ASSUME Inv, op = Idle, torn = {}, NEW d \in Dirs \ ({ROOT_DIR_INODE_NUM} \union bare),
                        FindIn(d, DotDot) \in {l[1] : l \in LinksTo(d)}
                 PROVE  fs_readdir(d)
    BY DEF Listable
  <2>2. AtRest /\ Typed
    BY <2>1, AtIdle
  <2> DEFINE s == Entries(inode[d])
             H == Holds(inode[d], blk)
  <2>3. /\ d \in Inum \ bare /\ inode[d].is_allocated /\ inode[d].dir
        /\ Fits(inode, blk, Held) /\ Finished(inode, blk, {}, bare) /\ Treelike(Edges(inode, blk), Alloc(inode), Roots)
    BY <2>2, RestIs DEF Dirs, IsDir
  <2>4. inode[d] \in Node /\ blk \in [Block -> Seq(Entry)] /\ Counts(inode[d], blk)
    BY <2>3 DEF Fits
  <2>5. s \in Seq(Entry) /\ Different(s) /\ \A e : e \in H <=> \E k \in 1 .. Len(s) : s[k] = e
    BY <2>4, EntriesOf, EntriesCounted
  <2> HIDE DEF s, H
  <2>6. PICK p \in Inum : [name |-> DotDot, inum |-> p] \in H
    BY <2>3 DEF Finished, H
  <2>7. [name |-> Dot, inum |-> d] \in H
    BY <2>3 DEF Finished, H
  <2>8. \A e, f \in H : e.name = f.name => e = f
    BY <2>5 DEF Different
  <2>9. inode[p].is_allocated
    <3>1. FindIn(d, DotDot) = p
      BY <2>3, <2>6, Found, RootIs DEF H
    <3>2. PICK l \in LinksTo(d) : l[1] = p
      BY <2>1, <3>1
    <3> QED
      BY <2>2, <3>2, LinkParts DEF LinksTo, IsDir
  <2>10. SUFFICES ASSUME NEW k \in 1 .. Len(s) PROVE s[k].inum # -1 /\ inode[s[k].inum].is_allocated
    BY <2>5 DEF fs_readdir, s
  <2>11. s[k] \in Entry /\ s[k] \in H
    BY <2>5
  <2> DEFINE e == s[k]
  <2> HIDE DEF e
  <2>12. e \in H /\ e.name \in Name \union {Dot, DotDot} /\ e.inum \in Inum \union {-1}
         /\ e = [name |-> e.name, inum |-> e.inum]
    BY <2>11 DEF Entry, e
  <2>13. CASE e.name = Dot
    <3>1. e = [name |-> Dot, inum |-> d]
      BY <2>7, <2>8, <2>12, <2>13
    <3> QED
      BY <2>3, <3>1, RootIs DEF e
  <2>14. CASE e.name = DotDot
    <3>1. e = [name |-> DotDot, inum |-> p]
      BY <2>6, <2>8, <2>12, <2>14
    <3> QED
      BY <2>6, <2>9, <3>1, RootIs DEF e
  <2>15. CASE e.name \in Name
    <3>1. <<d, e.name, e.inum>> \in Edges(inode, blk)
      BY <2>3, <2>12, <2>15, EdgeIn DEF H
    <3>2. e.inum \in Alloc(inode)
      BY <2>3, <3>1 DEF Treelike
    <3> QED
      BY <3>2, RootIs DEF Alloc, e
  <2> QED
    BY <2>12, <2>13, <2>14, <2>15
<1> QED
  BY <1>1, Invariant, PTL

-----------------------------------------------------------------------------
(* What the disk shows while a handler runs *)

\* A name from inode e[1], on the disk and in a directory.
Shown(e) == e \in Edges(inode, blk) /\ IsDir(e[1])

\* When the disk is as it should be every name is shown.
LEMMA InodeShows ==
  ASSUME Fits(inode, blk, Held), NEW e \in Edges(inode, blk)
  PROVE  Shown(e)
<1>1. e[1] \in Inum
  BY EdgeParts
<1>2. inode[e[1]].is_allocated /\ inode[e[1]].dir
  BY EdgeFromDir
<1> QED
  BY <1>1, <1>2, RootIs DEF Shown, IsDir

\* The directories have at least the blocks they have on the disk.
LEMMA DiskInParented ==
  ASSUME Typed, ParentIsDir, Grown, NEW e \in Edges(inode, blk)
  PROVE  e \in Edges(Parented, blk)
<1>1. e \in Inum \X Name \X (Inum \union {-1}) /\ [name |-> e[2], inum |-> e[3]] \in Holds(inode[e[1]], blk) /\ e[1] \in Inum
  BY EdgeParts DEF Edges
<1>2. Range(inode[e[1]].blocks) \subseteq Range(Parented[e[1]].blocks)
  BY <1>1 DEF Typed, ParentIsDir, Grown, Parented
<1>3. [name |-> e[2], inum |-> e[3]] \in Holds(Parented[e[1]], blk)
  BY <1>1, <1>2 DEF Holds
<1> QED
  BY <1>1, <1>3, EdgeIs

\* Of the names that the copy of the parent has, all but the new one are on the disk.
LEMMA ParentedShows ==
  ASSUME Typed, ParentIsDir, Grown, NEW u, Fits(Parented, blk, u), NEW e \in Edges(Parented, blk),
         e # NewEdge \/ Shrunk
  PROVE  Shown(e)
<1> DEFINE d     == e[1]
           entry == [name |-> e[2], inum |-> e[3]]
<1>1. e \in Inum \X Name \X (Inum \union {-1}) /\ entry \in Holds(Parented[d], blk) /\ d \in Inum
      /\ e = <<d, e[2], e[3]>>
  BY EdgeParts DEF Edges
<1>2. entry \in Entry /\ \E b \in Range(Parented[d].blocks) : \E k \in 1 .. Len(blk[b]) : blk[b][k] = entry
  BY <1>1 DEF Holds
<1>3. PICK b \in Range(Parented[d].blocks) : \E k \in 1 .. Len(blk[b]) : blk[b][k] = entry
  BY <1>2
<1>4. b \in Range(inode[d].blocks)
  <2>1. CASE d # op.parent
    BY <1>1, <1>3, <2>1 DEF Typed, Parented
  <2>2. CASE d = op.parent /\ Shrunk
    BY <1>3, <2>2 DEF Typed, ParentIsDir, Parented, Shrunk
  <2>3. CASE d = op.parent /\ e # NewEdge
    <3>1. b \in Range(op.node.blocks)
      BY <1>3, <2>3 DEF Typed, ParentIsDir, Parented
    <3>2. SUFFICES ASSUME b \notin Range(inode[d].blocks) PROVE FALSE
      OBVIOUS
    <3>3. blk[b] = <<NewEntry>>
      BY <2>3, <3>1, <3>2 DEF Grown
    <3>4. entry = NewEntry
      BY <1>3, <3>3
    <3>5. entry.name = e[2] /\ entry.inum = e[3] /\ NewEntry.name = Last(op.path) /\ NewEntry.inum = op.child
      BY DEF NewEntry
    <3> QED
      BY <1>1, <2>3, <3>4, <3>5 DEF NewEdge
  <2> QED
    BY <2>1, <2>2, <2>3
<1>5. entry \in Holds(inode[d], blk)
  BY <1>2, <1>3, <1>4 DEF Holds
<1>6. e \in Edges(inode, blk)
  BY <1>1, <1>5, EdgeIs
<1>7. inode[d].is_allocated /\ inode[d].dir
  <2>1. Parented[d].is_allocated /\ Parented[d].dir
    BY EdgeFromDir
  <2> QED
    BY <1>1, <2>1 DEF Typed, ParentIsDir, Parented
<1> QED
  BY <1>1, <1>6, <1>7, RootIs DEF Shown, IsDir

\* A copy that counts one entry less has the blocks of the disk.
LEMMA ShrunkIsGrown ==
  ASSUME Shrunk
  PROVE  Grown
  BY DEF Shrunk, Grown, Owns

\* With the child removed the other names are those on the disk.
LEMMA RemovedShows ==
  ASSUME Typed, Doomed, Shrunk, NEW u, Fits(Removed, blk, u)
  PROVE  /\ \A n \in Inum \ {op.child} : /\ Owns(Removed[n]) = Owns(inode[n])
                                         /\ Removed[n].is_allocated = inode[n].is_allocated
         /\ ~Removed[op.child].is_allocated
         /\ \A e : e \in Edges(Removed, blk) => Shown(e)
         /\ \A e : e \in Edges(inode, blk) => Shown(e) /\ (e \in Edges(Removed, blk) \/ e[3] \in Targets)
<1> DEFINE c == op.child
<1>1. c \in Inum /\ op.parent \in Inum /\ c # op.parent /\ inode[c].is_allocated
      /\ (inode[c].dir \/ NoBlocks(inode[c]))
  BY DEF Doomed, ChildIsOther, Shrunk, ParentIsDir
<1>2. \A n \in Inum \ {c} : /\ Removed[n].blocks = inode[n].blocks /\ Removed[n].addresses = inode[n].addresses
                            /\ Removed[n].is_allocated = inode[n].is_allocated /\ Removed[n].dir = inode[n].dir
  BY <1>1 DEF Typed, Shrunk, ParentIsDir, Removed
<1>3. NoBlocks(Removed[c]) /\ ~Removed[c].is_allocated
  <2>1. inode \in [Inum -> Node] /\ DOMAIN [inode EXCEPT ![op.parent] = op.node] = Inum
    BY DEF Typed
  <2>2. Removed[c] = Deleted(c)
    BY <1>1, <2>1 DEF Removed
  <2>3. ~Deleted(c).is_allocated /\ NoBlocks(Deleted(c))
    BY <1>1, DeletedIs
  <2> QED
    BY <2>2, <2>3
<1>4. \A n \in Inum \ {c} : Holds(Removed[n], blk) = Holds(inode[n], blk)
  <2>1. SUFFICES ASSUME NEW n \in Inum \ {c} PROVE Holds(Removed[n], blk) = Holds(inode[n], blk)
    OBVIOUS
  <2>2. Removed[n].blocks = inode[n].blocks
    BY <1>2
  <2> QED
    BY <2>2 DEF Holds
<1>5. ASSUME NEW e \in Edges(Removed, blk) PROVE Shown(e)
  <2>1. e[1] \in Inum /\ Removed[e[1]].is_allocated /\ Removed[e[1]].dir
    BY EdgeParts, EdgeFromDir
  <2>2. inode[e[1]].is_allocated /\ inode[e[1]].dir /\ e[1] # c
    BY <1>2, <1>3, <2>1
  <2>3. e \in Inum \X Name \X (Inum \union {-1}) /\ [name |-> e[2], inum |-> e[3]] \in Holds(inode[e[1]], blk)
    BY <1>4, <2>1, <2>2 DEF Edges
  <2>4. e \in Edges(inode, blk)
    BY <2>3, EdgeIs
  <2> QED
    BY <2>1, <2>2, <2>4, RootIs DEF Shown, IsDir
<1>6. ASSUME NEW e \in Edges(inode, blk), e[1] # c PROVE e \in Edges(Removed, blk)
  <2>1. e \in Inum \X Name \X (Inum \union {-1}) /\ [name |-> e[2], inum |-> e[3]] \in Holds(inode[e[1]], blk)
        /\ e[1] \in Inum
    BY EdgeParts DEF Edges
  <2>2. [name |-> e[2], inum |-> e[3]] \in Holds(Removed[e[1]], blk)
    BY <1>4, <1>6, <2>1
  <2> QED
    BY <2>1, <2>2, EdgeIs
<1>7. ASSUME NEW e \in Edges(inode, blk), e[1] = c PROVE Shown(e) /\ e[3] \in Targets
  <2>1. Holds(inode[c], blk) # {}
    BY <1>7, EdgeParts
  <2>2. inode[c].dir
    BY <1>1, <2>1, NoEntries
  <2>3. Shown(e)
    BY <1>1, <1>7, <2>2, RootIs DEF Shown, IsDir
  <2>4. e \in OutOf(c, Edges(inode, blk))
    BY <1>7 DEF OutOf
  <2> QED
    BY <2>3, <2>4 DEF Targets
<1>8. \A n \in Inum \ {c} : Owns(Removed[n]) = Owns(inode[n])
  BY <1>2 DEF Owns
<1> QED
  BY <1>2, <1>3, <1>5, <1>6, <1>7, <1>8

\* The copy of a new directory has no name in it.
LEMMA DottedShows ==
  ASSUME Typed, InSelf
  PROVE  /\ Alloc(Dotted) = Alloc(inode) /\ Treelike(Edges(Dotted, blk), Alloc(Dotted), Roots)
         /\ \A e : e \in Edges(Dotted, blk) => Shown(e)
         /\ \A e : e \in Edges(inode, blk) => e \in Edges(Dotted, blk)
<1> DEFINE c == op.child
<1>1. c \in Inum /\ inode[c].is_allocated /\ op.node.is_allocated /\ NoNames(op.node, blk)
      /\ NoBlocks(inode[c]) /\ Sound(Dotted, blk, Held, {}, bare, Roots)
  BY DEF InSelf, ChildIsOther
<1>2. Dotted[c] = op.node /\ \A n \in Inum \ {c} : Dotted[n] = inode[n]
  BY <1>1 DEF Typed, Dotted
<1>3. NoNames(inode[c], blk)
  BY <1>1, NoEntries DEF NoNames
<1>4. NoNames(Dotted[c], blk) /\ \A n \in Inum \ {c} : Holds(Dotted[n], blk) = Holds(inode[n], blk)
  BY <1>1, <1>2
<1>5. Edges(Dotted, blk) = Edges(inode, blk)
  <2>1. c \in Inum
    BY <1>1
  <2> HIDE DEF c
  <2> QED
    BY <1>3, <1>4, <2>1, EdgesKept
<1>6. ASSUME NEW e \in Edges(Dotted, blk) PROVE Shown(e)
  <2>1. e[1] \in Inum /\ Dotted[e[1]].is_allocated /\ Dotted[e[1]].dir
    BY <1>1, EdgeParts, EdgeFromDir DEF Sound
  <2>2. e[1] # c
    BY <1>4, NoEdges
  <2> QED
    BY <1>2, <1>5, <2>1, <2>2, RootIs DEF Shown, IsDir
<1>7. Alloc(Dotted) = Alloc(inode)
  BY <1>1, <1>2 DEF Alloc
<1> QED
  BY <1>1, <1>5, <1>6, <1>7 DEF Sound

\* Every inode has a name on the disk, but one that is being made or removed or is stranded.
AllNamed ==
  \A n \in Alloc(inode) \ Roots :
    inode[n].linkCount = 1 /\ ~(op.child = n /\ Pc \in {"free", "node"}) => \E e : Shown(e) /\ e[3] = n

\* Every name on the disk leads to an inode that is allocated.
AllLead == \A e \in Edges(inode, blk) : e[3] \in Alloc(inode)

\* What there is on the disk when tab is still to be written.
LEMMA Seen ==
  ASSUME NEW tab, NEW A, NEW R, Treelike(Edges(tab, blk), A, R), A \subseteq Alloc(inode),
         \A n \in R \ Roots : \E e : Shown(e) /\ e[3] = n,
         \A n \in Alloc(inode) \ A : inode[n].linkCount = 1 => op.child = n /\ Pc \in {"free", "node"},
         \A e \in Edges(tab, blk) : inode[e[3]].linkCount = 1 => Shown(e),
         \A e \in Edges(inode, blk) : e \in Edges(tab, blk) \/ e[3] \in R
  PROVE  AllNamed /\ AllLead
<1>1. AllNamed
  <2>1. SUFFICES ASSUME NEW n \in Alloc(inode) \ Roots, inode[n].linkCount = 1,
                        ~(op.child = n /\ Pc \in {"free", "node"}), n \notin R
                 PROVE  \E e : Shown(e) /\ e[3] = n
    BY DEF AllNamed
  <2>2. n \in A \ R
    BY <2>1
  <2>3. PICK e \in Edges(tab, blk) : e[3] = n
    BY <2>2, HasName
  <2> QED
    BY <2>1, <2>3
<1>2. AllLead
  <2>1. Edges(tab, blk) \subseteq A \X Name \X A /\ R \subseteq A
    BY DEF Treelike
  <2>2. \A e \in Edges(tab, blk) : e[3] \in A
    BY <2>1
  <2> QED
    BY <2>1, <2>2 DEF AllLead
<1> QED
  BY <1>1, <1>2

\* When all but the content of a new inode is written.
LEMMA SeenAtRest ==
  ASSUME Clean, Pc \in {"idle", "create", "remove", "link", "child", "dots"}
  PROVE  AllNamed /\ AllLead
<1>1. Fits(inode, blk, Held) /\ Treelike(Edges(inode, blk), Alloc(inode), Roots)
  BY DEF Clean, InRemove, InLink, InChild, InDots, AtRest, Sound
<1>2. \A e \in Edges(inode, blk) : Shown(e)
  BY <1>1, InodeShows
<1> QED
  BY <1>1, <1>2, Seen

\* When the child is taken.
LEMMA SeenHalfMade ==
  ASSUME Clean, Pc \in {"add", "undo"}
  PROVE  AllNamed /\ AllLead
<1>1. HalfMade
  BY DEF Clean
<1>2. \A e \in Edges(inode, blk) : Shown(e)
  BY <1>1, InodeShows DEF HalfMade
<1>3. Treelike(Edges(inode, blk), Alloc(inode) \ {op.child}, Roots) /\ inode[op.child].linkCount = 0
  BY <1>1 DEF HalfMade, Newborn
<1>4. Alloc(inode) \ {op.child} \subseteq Alloc(inode) /\ \A n \in Alloc(inode) \ (Alloc(inode) \ {op.child}) : n = op.child
  OBVIOUS
<1> QED
  BY <1>2, <1>3, <1>4, Seen

\* When the parent is still to be written.
LEMMA SeenInParent ==
  ASSUME Clean, Pc \in {"parent", "upper", "dropped"}
  PROVE  AllNamed /\ AllLead
<1>1. Typed /\ ParentIsDir /\ Grown /\ \E half : Sound(Parented, blk, Held, half, bare, Roots)
  BY ShrunkIsGrown DEF Clean, InParent, InUpper, InDropped, Shrunk
<1>2. Fits(Parented, blk, Held) /\ Treelike(Edges(Parented, blk), Alloc(Parented), Roots)
  BY <1>1 DEF Sound
<1>3. Alloc(Parented) = Alloc(inode)
  BY <1>1 DEF Typed, ParentIsDir, Parented, Alloc
<1>4. ASSUME NEW e \in Edges(Parented, blk), inode[e[3]].linkCount = 1 PROVE Shown(e)
  <2>1. e # NewEdge \/ Shrunk
    <3>1. CASE Pc = "parent"
      <4>1. inode[op.child].linkCount = 0
        BY <3>1 DEF Clean, InParent, Newborn
      <4>2. NewEdge[3] = op.child
        BY DEF NewEdge
      <4> QED
        BY <1>4, <4>1, <4>2
    <3>2. CASE Pc \in {"upper", "dropped"}
      BY <3>2 DEF Clean, InUpper, InDropped
    <3> QED
      BY <3>1, <3>2
  <2> QED
    BY <1>1, <1>2, <2>1, ParentedShows
<1>5. \A e \in Edges(inode, blk) : e \in Edges(Parented, blk)
  BY <1>1, DiskInParented
<1> QED
  BY <1>2, <1>3, <1>4, <1>5, Seen

\* When the new directory is still to be written.
LEMMA SeenInSelf ==
  ASSUME Clean, Pc = "self"
  PROVE  AllNamed /\ AllLead
<1>1. Typed /\ InSelf
  BY DEF Clean
<1> QED
  BY <1>1, DottedShows, Seen

\* When the child and the parent are still to be written.
LEMMA SeenInRemoved ==
  ASSUME Clean, Pc \in {"free", "node"}
  PROVE  AllNamed /\ AllLead
<1>1. Typed /\ Doomed /\ Shrunk /\ \E u : Sound(Removed, blk, u, {}, bare, Roots \union Targets)
  BY DEF Clean, InFree, InNode
<1>2. PICK u : Fits(Removed, blk, u) /\ Treelike(Edges(Removed, blk), Alloc(Removed), Roots \union Targets)
  BY <1>1 DEF Sound
<1>3. /\ \A n \in Inum \ {op.child} : Removed[n].is_allocated = inode[n].is_allocated
      /\ ~Removed[op.child].is_allocated
      /\ \A e : e \in Edges(Removed, blk) => Shown(e)
      /\ \A e : e \in Edges(inode, blk) => Shown(e) /\ (e \in Edges(Removed, blk) \/ e[3] \in Targets)
  BY <1>1, <1>2, RemovedShows
<1>4. Alloc(Removed) \subseteq Alloc(inode) /\ \A n \in Alloc(inode) \ Alloc(Removed) : op.child = n
  BY <1>3 DEF Alloc
<1>5. \A n \in Targets : \E e : Shown(e) /\ e[3] = n
  BY <1>3 DEF Targets, OutOf
<1> QED
  BY <1>2, <1>3, <1>4, <1>5, Seen

\* When the child has two names.
LEMMA SeenInLinked ==
  ASSUME Clean, Pc \in {"linked", "drop"}
  PROVE  AllNamed /\ AllLead
<1> DEFINE tab == IF Pc = "linked" THEN Parented ELSE inode
           E   == Edges(tab, blk)
<1>1. /\ Typed /\ TwoNames(tab)
      /\ Pc = "linked" => ParentIsDir /\ Grown
  BY DEF Clean, InLinked, InDrop
<1>2. Fits(tab, blk, Held) /\ Alloc(tab) = Alloc(inode)
  <2>1. Alloc(tab) = Alloc(inode)
    BY <1>1 DEF Typed, ParentIsDir, Parented, Alloc
  <2> QED
    BY <1>1, <2>1 DEF TwoNames
<1>3. PICK old \in E : /\ old[3] = op.child /\ Treelike(E \ {old}, Alloc(inode), Roots) /\ NewEdge \in E \ {old}
  <2>1. PICK f \in Inum : LET old == <<f, Last(op.from), op.child>>
                          IN  /\ old \in E /\ Treelike(E \ {old}, Alloc(tab), Roots) /\ NewEdge \in E \ {old}
    BY <1>1 DEF TwoNames
  <2>2. <<f, Last(op.from), op.child>>[3] = op.child
    OBVIOUS
  <2> QED
    BY <1>2, <2>1, <2>2
<1>4. \A e \in E : e # NewEdge => Shown(e)
  <2>1. CASE Pc = "linked"
    BY <1>1, <1>2, <2>1, ParentedShows
  <2>2. CASE Pc # "linked"
    BY <1>2, <2>2, InodeShows
  <2> QED
    BY <2>1, <2>2
<1>5. \A e \in Edges(inode, blk) : e \in E
  BY <1>1, DiskInParented
<1> HIDE DEF tab, E
<1>6. NewEdge[3] = op.child
  BY DEF NewEdge
<1>7. \A e \in E : e[3] \in Alloc(inode)
  <2>1. E \ {old} \subseteq Alloc(inode) \X Name \X Alloc(inode)
    BY <1>3 DEF Treelike
  <2>2. \A e \in E \ {old} : e[3] \in Alloc(inode)
    BY <2>1
  <2> QED
    BY <1>3, <1>6, <2>2
<1>8. AllLead
  BY <1>5, <1>7 DEF AllLead
<1>9. AllNamed
  <2>1. SUFFICES ASSUME NEW n \in Alloc(inode) \ Roots PROVE \E e : Shown(e) /\ e[3] = n
    BY DEF AllNamed
  <2>2. PICK e \in E \ {old} : e[3] = n
    BY <1>3, HasName
  <2>3. CASE e # NewEdge
    BY <1>4, <2>2, <2>3
  <2>4. CASE e = NewEdge
    <3>1. old # NewEdge
      BY <1>3
    <3> QED
      BY <1>3, <1>4, <1>6, <2>2, <2>4, <3>1
  <2> QED
    BY <2>3, <2>4
<1> QED
  BY <1>8, <1>9

\* At every step.
LEMMA SeenAlways ==
  ASSUME Clean
  PROVE  AllNamed /\ AllLead
<1>1. Pc \in Handlers
  BY DEF Clean, Typed, Handling, Pc
<1> QED
  BY <1>1, SeenAtRest, SeenHalfMade, SeenInParent, SeenInSelf, SeenInRemoved, SeenInLinked DEF Handlers

\* An inode has a name at every step, that of fs_rename included, but for the steps of fs_unlink
\* that follow the removal of the name, and unless it is stranded.
THEOREM NeverNamelessCorrect == Spec => []NeverNameless
<1>1. Inv => NeverNameless
  <2>1. SUFFICES ASSUME Inv, torn = {}, NEW n \in Inum \ ({ROOT_DIR_INODE_NUM} \union stranded),
                        inode[n].is_allocated,
                        inode[n].linkCount = 1, ~(op.child = n /\ op.pc \in {"free", "node"})
                 PROVE  LinksTo(n) # {}
    BY DEF NeverNameless
  <2>2. Clean /\ Typed /\ n \in Alloc(inode) \ Roots
    BY <2>1 DEF Inv, Clean, Alloc, Roots
  <2>3. PICK e : Shown(e) /\ e[3] = n
    BY <2>1, <2>2, SeenAlways DEF AllNamed, Pc
  <2>4. e[1] \in Inum /\ e[2] \in Name /\ e = <<e[1], e[2], n>> /\ IsDir(e[1]) /\ e \in Edges(inode, blk)
    BY <2>3, EdgeParts DEF Shown
  <2>5. <<e[1], e[2], n>> \in Edges(inode, blk)
    BY <2>4
  <2>6. \E k \in 1 .. Len(Entries(inode[e[1]])) : <<e[1], k, n>> \in LinksTo(n)
    BY <2>2, <2>4, <2>5, LinkThere
  <2> QED
    BY <2>6
<1> QED
  BY <1>1, Invariant, PTL

\* While no handler was cut short, a name leads to an inode that is allocated, at every step
\* of every handler.
THEOREM NoDanglingUncut ==
  Spec => [](torn = {} => \A l \in Links : l[3] # -1 /\ inode[l[3]].is_allocated)
<1>1. Inv => (torn = {} => \A l \in Links : l[3] # -1 /\ inode[l[3]].is_allocated)
  <2>1. SUFFICES ASSUME Clean, NEW l \in Links PROVE l[3] # -1 /\ inode[l[3]].is_allocated
    BY DEF Inv
  <2>2. PICK e \in Edges(inode, blk) : e[3] = l[3]
    BY <2>1, LinkParts DEF Clean
  <2>3. l[3] \in Alloc(inode)
    BY <2>1, <2>2, SeenAlways DEF AllLead
  <2> QED
    BY <2>3, RootIs DEF Alloc
<1> QED
  BY <1>1, Invariant, PTL

\* What NoDangling says of the steps, with no directory or inode excepted.
THEOREM NoDanglingCorrect == Spec => [](torn = {} => NoDangling)
<1>1. (torn = {} => \A l \in Links : l[3] # -1 /\ inode[l[3]].is_allocated) => (torn = {} => NoDangling)
  BY DEF NoDangling
<1> QED
  BY <1>1, NoDanglingUncut, PTL

\* While no handler was cut short, a directory counts the entries it has between requests.
THEOREM CountsExactUncut ==
  Spec => [](op = Idle /\ torn = {} => \A d \in Dirs : inode[d].filesCount = Len(Entries(inode[d])))
<1>1. Inv => (op = Idle /\ torn = {} => \A d \in Dirs : inode[d].filesCount = Len(Entries(inode[d])))
  <2>1. SUFFICES ASSUME Inv, op = Idle, torn = {}, NEW d \in Dirs PROVE inode[d].filesCount = Len(Entries(inode[d]))
    OBVIOUS
  <2>2. Fits(inode, blk, Held) /\ d \in Inum
    BY <2>1, AtIdle, RestIs DEF Dirs
  <2> QED
    BY <2>2, EntriesCounted DEF Fits
<1> QED
  BY <1>1, Invariant, PTL

\* What CountsExact says of is_empty_dir.
THEOREM CountsExactCorrect == Spec => [](torn = {} => CountsExact)
<1>1. (op = Idle /\ torn = {} => \A d \in Dirs : inode[d].filesCount = Len(Entries(inode[d])))
        => (torn = {} => CountsExact)
  BY DEF CountsExact
<1> QED
  BY <1>1, CountsExactUncut, PTL

\* Nothing of a block of one directory is free or lost or in another.
Owned ==
  \A d \in Inum :
    /\ Owns(inode[d]) \subseteq Held \/ (op.child = d /\ Pc = "node")
    /\ \A e \in Inum \ {d} : Owns(inode[d]) \intersect Owns(inode[e]) = {}

\* When each directory has its blocks in tab, and tab fits.
LEMMA OwnedBy ==
  ASSUME NEW tab, NEW bk, Fits(tab, bk, Held),
         \A n \in Inum : Owns(inode[n]) \subseteq Owns(tab[n])
  PROVE  Owned
<1>1. \A n \in Inum : Owns(tab[n]) \subseteq Held
  BY DEF Fits
<1>2. \A n, m \in Inum : n # m => Owns(tab[n]) \intersect Owns(tab[m]) = {}
  BY DEF Fits
<1>3. ASSUME NEW n \in Inum, NEW m \in Inum \ {n} PROVE Owns(inode[n]) \intersect Owns(inode[m]) = {}
  <2>1. n # m /\ Owns(tab[n]) \intersect Owns(tab[m]) = {}
    BY <1>2
  <2>2. Owns(inode[n]) \subseteq Owns(tab[n]) /\ Owns(inode[m]) \subseteq Owns(tab[m])
    OBVIOUS
  <2> QED
    BY <2>1, <2>2
<1> QED
  BY <1>1, <1>3 DEF Owned

\* At every step.
LEMMA OwnedAlways ==
  ASSUME Clean
  PROVE  Owned
<1>1. CASE Pc \in {"idle", "create", "remove", "link", "add", "undo", "child", "dots", "drop"}
  <2>1. Fits(inode, blk, Held)
    <3>1. CASE Pc \in {"idle", "create", "remove", "link"}
      BY <3>1 DEF Clean, InRemove, InLink, AtRest, Sound
    <3>2. CASE Pc \in {"add", "undo"}
      BY <3>2 DEF Clean, HalfMade
    <3>3. CASE Pc \in {"child", "dots", "drop"}
      BY <3>3 DEF Clean, InChild, InDots, InDrop, TwoNames, Sound
    <3> QED
      BY <1>1, <3>1, <3>2, <3>3
  <2> QED
    BY <2>1, OwnedBy
<1>2. CASE Pc \in {"parent", "upper", "linked", "dropped"}
  <2>1. Typed /\ ParentIsDir /\ Grown /\ Fits(Parented, blk, Held)
    <3>1. CASE Pc \in {"parent", "linked"}
      BY <3>1 DEF Clean, InParent, InLinked, TwoNames, Sound
    <3>2. CASE Pc \in {"upper", "dropped"}
      BY <3>2, ShrunkIsGrown DEF Clean, InUpper, InDropped, Shrunk, Sound
    <3> QED
      BY <1>2, <3>1, <3>2
  <2>2. \A n \in Inum : Owns(inode[n]) \subseteq Owns(Parented[n])
    BY <2>1 DEF Typed, ParentIsDir, Grown, Parented
  <2> QED
    BY <2>1, <2>2, OwnedBy
<1>3. CASE Pc = "self"
  <2>1. Typed /\ op.child \in Inum /\ NoBlocks(inode[op.child]) /\ Fits(Dotted, blk, Held)
    BY <1>3 DEF Clean, InSelf, ChildIsOther, Sound
  <2>2. \A n \in Inum : Owns(inode[n]) \subseteq Owns(Dotted[n])
    BY <2>1, NoEntries DEF Typed, Dotted
  <2> QED
    BY <2>1, <2>2, OwnedBy
<1>4. CASE Pc \in {"free", "node"}
  <2> DEFINE c == op.child
             u == IF Pc = "free" THEN Held \ Owns(inode[c]) ELSE Held
  <2>1. Typed /\ Doomed /\ Shrunk /\ Fits(Removed, blk, u) /\ Owns(inode[c]) \intersect u = {}
        /\ (Pc = "free" => Owns(inode[c]) \subseteq Held)
    BY <1>4 DEF Clean, InFree, InNode, Sound
  <2>2. u \subseteq Held /\ (Pc # "free" => Pc = "node")
    BY <1>4
  <2> HIDE DEF u
  <2>3. \A n \in Inum \ {c} : Owns(Removed[n]) = Owns(inode[n])
    BY <2>1, RemovedShows
  <2>4. \A n \in Inum \ {c} : Owns(inode[n]) \subseteq u
    <3>1. \A n \in Inum : Owns(Removed[n]) \subseteq u
      BY <2>1 DEF Fits
    <3> QED
      BY <2>3, <3>1
  <2>5. \A n, m \in Inum \ {c} : n # m => Owns(inode[n]) \intersect Owns(inode[m]) = {}
    <3>1. \A n, m \in Inum : n # m => Owns(Removed[n]) \intersect Owns(Removed[m]) = {}
      BY <2>1 DEF Fits
    <3> QED
      BY <2>3, <3>1
  <2>6. ASSUME NEW d \in Inum PROVE Owns(inode[d]) \subseteq Held \/ (op.child = d /\ Pc = "node")
    BY <2>1, <2>2, <2>4
  <2>7. ASSUME NEW d \in Inum, NEW e \in Inum \ {d} PROVE Owns(inode[d]) \intersect Owns(inode[e]) = {}
    <3>1. CASE d = c
      <4>1. Owns(inode[e]) \subseteq u
        BY <2>4, <3>1
      <4> QED
        BY <2>1, <3>1, <4>1
    <3>2. CASE e = c
      <4>1. Owns(inode[d]) \subseteq u
        BY <2>4, <3>2
      <4> QED
        BY <2>1, <3>2, <4>1
    <3>3. CASE d # c /\ e # c
      BY <2>5, <3>3
    <3> QED
      BY <3>1, <3>2, <3>3
  <2> QED
    BY <2>6, <2>7 DEF Owned
<1>5. Pc \in Handlers
  BY DEF Clean, Typed, Handling, Pc
<1> QED
  BY <1>1, <1>2, <1>3, <1>4, <1>5 DEF Handlers

\* While no handler was cut short, no block is in two directories, each block of a directory is
\* allocated and not lost, and when no handler runs every other block that is allocated is lost.
THEOREM BlocksOwnedUncut ==
  Spec => [](torn = {} =>
    /\ \A d \in Dirs : /\ Owns(inode[d]) \subseteq used \ lost \/ (op.child = d /\ op.pc = "node")
                       /\ \A e \in Dirs \ {d} : Owns(inode[d]) \intersect Owns(inode[e]) = {}
    /\ op = Idle => used = lost \union UNION {Owns(inode[d]) : d \in Dirs})
<1> DEFINE P == /\ \A d \in Dirs :
                     /\ Owns(inode[d]) \subseteq used \ lost \/ (op.child = d /\ op.pc = "node")
                     /\ \A e \in Dirs \ {d} : Owns(inode[d]) \intersect Owns(inode[e]) = {}
                /\ op = Idle => used = lost \union UNION {Owns(inode[d]) : d \in Dirs}
<1>1. Inv => (torn = {} => P)
  <2>1. SUFFICES ASSUME Inv, torn = {} PROVE P
    OBVIOUS
  <2>2. Owned
    BY <2>1, OwnedAlways DEF Inv
  <2>3. ASSUME op = Idle PROVE used = lost \union UNION {Owns(inode[d]) : d \in Dirs}
    <3>1. Fits(inode, blk, Held)
      BY <2>1, <2>3, AtIdle, RestIs
    <3>2. Held = UNION {Owns(inode[n]) : n \in Inum}
      BY <3>1 DEF Fits
    <3>3. \A n \in Inum \ Dirs : Owns(inode[n]) = {}
      <4>1. \A n \in Inum \ Dirs : NoBlocks(inode[n])
        BY <3>1, RootIs DEF Fits, Dirs, IsDir
      <4> QED
        BY <4>1, NoEntries
    <3>4. \A b : b \in Held <=> \E d \in Dirs : b \in Owns(inode[d])
      BY <3>2, <3>3 DEF Dirs
    <3>5. lost \subseteq used
      BY <2>1 DEF Inv, Recorded, Accounts
    <3>6. used = lost \union Held
      BY <3>5 DEF Held
    <3> QED
      BY <3>4, <3>6
  <2> QED
    BY <2>2, <2>3 DEF Owned, Dirs, Pc, Held
<1> QED
  BY <1>1, Invariant, PTL

\* What BlocksOwned says of the blocks of directories.
THEOREM BlocksOwnedCorrect == Spec => [](torn = {} => BlocksOwned)
<1> DEFINE P == /\ \A d \in Dirs :
                     /\ Owns(inode[d]) \subseteq used \ lost \/ (op.child = d /\ op.pc = "node")
                     /\ \A e \in Dirs \ {d} : Owns(inode[d]) \intersect Owns(inode[e]) = {}
                /\ op = Idle => used = lost \union UNION {Owns(inode[d]) : d \in Dirs}
<1>1. (torn = {} => P) => (torn = {} => BlocksOwned)
  BY DEF BlocksOwned
<1> QED
  BY <1>1, BlocksOwnedUncut, PTL

\* A step that gives up a directory finds no name in it, or at most two in a bare one.
LEMMA GivenUpEmpty ==
  ASSUME Clean, [Next]_vars, NEW d \in Dirs, ~inode'[d].is_allocated
  PROVE  NoNames(inode[d], blk) \/ (d \in bare /\ Len(Entries(inode[d])) <= 2)
<1>1. d \in Inum /\ inode[d].is_allocated /\ inode \in [Inum -> Node] /\ Typed
  BY DEF Dirs, IsDir, Clean, Typed
<1>2. CASE createInode
  <2> DEFINE free == {n \in Inum : ~inode[n].is_allocated}
             n    == CHOOSE n \in free : \A m \in free : n <= m
  <2>1. inode' # inode => inode' = [inode EXCEPT ![n] = [inode[n] EXCEPT !.is_allocated = TRUE, !.linkCount = 0]]
    BY <1>2 DEF createInode, WriteInode
  <2> HIDE DEF n
  <2>2. d = n => [inode[d] EXCEPT !.is_allocated = TRUE, !.linkCount = 0].is_allocated
    BY <1>1 DEF Node
  <2> QED
    BY <1>1, <2>1, <2>2
<1>3. CASE UndoCreate
  <2>1. NoBlocks(inode[op.child]) /\ inode' = [inode EXCEPT ![op.child] = Deleted(op.child)]
    BY <1>3 DEF Clean, UndoCreate, Finish, WriteInode, HalfMade, Newborn, At, Pc
  <2> QED
    BY <1>1, <2>1, NoEntries DEF NoNames
<1>4. CASE WriteChild
  <2>1. inode' = [inode EXCEPT ![op.child] = [EmptyDir EXCEPT !.dir = (op.call = "mkdir")]]
    BY <1>4 DEF WriteChild, WriteInode
  <2>2. [EmptyDir EXCEPT !.dir = (op.call = "mkdir")].is_allocated
    BY DEF EmptyDir
  <2> QED
    BY <1>1, <2>1, <2>2
<1>5. CASE WriteParent \/ WriteUpper \/ WriteTo \/ WriteFrom
  <2>1. inode' = [inode EXCEPT ![op.parent] = op.node] /\ Pc \in {"parent", "upper", "linked", "dropped"}
    BY <1>5 DEF WriteParent, WriteUpper, WriteTo, WriteFrom, Finish, WriteInode, At, Pc
  <2>2. op.node.is_allocated
    BY <2>1 DEF Clean, InParent, InUpper, InLinked, InDropped, Shrunk, ParentIsDir
  <2> QED
    BY <1>1, <2>1, <2>2
<1>6. CASE WriteSelf
  <2>1. inode' = [inode EXCEPT ![op.child] = op.node] /\ op.node.is_allocated
    BY <1>6 DEF WriteSelf, Finish, WriteInode, At, Pc, Clean, InSelf
  <2> QED
    BY <1>1, <2>1
<1>7. CASE WriteNode
  <2>1. Doomed /\ \E node : inode' = [inode EXCEPT ![op.child] = node]
    BY <1>7 DEF WriteNode, WriteInode, At, Pc, Clean, InNode
  <2>2. d = op.child
    BY <1>1, <2>1
  <2>3. Counts(inode[d], blk) /\ inode[d].filesCount <= 2 /\ (d \in bare \/ NoNames(inode[d], blk))
    BY <2>1, <2>2 DEF Doomed
  <2>4. inode[d] \in Node /\ blk \in [Block -> Seq(Entry)]
    BY <1>1 DEF Typed
  <2>5. inode[d].filesCount = Len(Entries(inode[d]))
    BY <2>3, <2>4, EntriesCounted
  <2> QED
    BY <2>3, <2>5
<1>8. CASE UNCHANGED inode
  BY <1>1, <1>8
<1>9. CASE Serve
  BY <1>8, <1>9 DEF Serve, fs_mknod, fs_mkdir, fs_unlink, fs_rename, Create, Request
<1>10. CASE AddChild \/ AddDots \/ RemoveName \/ FreeBlocks \/ AddName \/ DropName \/ Crash
  BY <1>8, <1>10 DEF AddChild, AddDots, RemoveName, FreeBlocks, AddName, DropName, Crash
<1> QED
  BY <1>2, <1>3, <1>4, <1>5, <1>6, <1>7, <1>8, <1>9, <1>10 DEF Next, vars

\* While no handler was cut short, fs_unlink and fs_rename remove no directory with a name in it
\* unless it is bare and has two at most.
THEOREM OnlyEmptyRemovedUncut ==
  Spec => [][torn = {} => \A d \in Dirs : ~inode'[d].is_allocated =>
               (\A l \in Links : l[1] # d) \/ (d \in bare /\ Len(Entries(inode[d])) <= 2)]_vars
<1>1. Inv /\ [Next]_vars =>
        [torn = {} => \A d \in Dirs : ~inode'[d].is_allocated =>
           (\A l \in Links : l[1] # d) \/ (d \in bare /\ Len(Entries(inode[d])) <= 2)]_vars
  <2>1. SUFFICES ASSUME Clean, [Next]_vars, NEW d \in Dirs, ~inode'[d].is_allocated, NEW l \in Links, l[1] = d,
                        ~(d \in bare /\ Len(Entries(inode[d])) <= 2)
                 PROVE  FALSE
    BY DEF Inv
  <2>2. NoNames(inode[d], blk)
    BY <2>1, GivenUpEmpty
  <2>3. \E e \in Edges(inode, blk) : e[1] = d
    <3>1. PICK a \in Name : <<l[1], a, l[3]>> \in Edges(inode, blk)
      BY <2>1, LinkParts DEF Clean
    <3>2. <<l[1], a, l[3]>>[1] = d
      BY <2>1
    <3> QED
      BY <3>1, <3>2
  <2> QED
    BY <2>2, <2>3, NoEdges
<1> QED
  BY <1>1, Invariant, PTL DEF Spec

\* A behaviour in which no handler is cut short has OnlyEmptyRemoved.
THEOREM OnlyEmptyRemovedCorrect == Spec /\ [](torn = {}) => OnlyEmptyRemoved
<1>1. torn = {}
        /\ [torn = {} => \A d \in Dirs : ~inode'[d].is_allocated =>
              (\A l \in Links : l[1] # d) \/ (d \in bare /\ Len(Entries(inode[d])) <= 2)]_vars
        => [Contained => \A d \in Dirs \ torn :
              ~inode'[d].is_allocated => \/ \A l \in Links : l[1] # d
                                         \/ d \in bare /\ Len(Entries(inode[d])) <= 2]_vars
  OBVIOUS
<1> QED
  BY <1>1, OnlyEmptyRemovedUncut, PTL DEF OnlyEmptyRemoved

-----------------------------------------------------------------------------
(* The bounds of the counts *)

\* No block holds more entries than fit.
Short(bk) == \A b \in Block : Len(bk[b]) <= ENTRIES

\* The numbers of entries that the directories can have.
FileCounts == 0 .. (BLOCKS * ENTRIES)

\* What fits has no more entries than the blocks have room for.
LEMMA CountLimit ==
  ASSUME NEW tab, NEW bk, NEW u, Fits(tab, bk, u), Short(bk), NEW n \in Inum
  PROVE  tab[n].filesCount \in FileCounts
<1> DEFINE places == Block \X (1 .. ENTRIES)
           H      == Holds(tab[n], bk)
           at     == [e \in H |-> CHOOSE p \in places : p[2] \in 1 .. Len(bk[p[1]]) /\ bk[p[1]][p[2]] = e]
<1>1. /\ bk \in [Block -> Seq(Entry)] /\ tab[n] \in Node /\ Range(tab[n].blocks) \subseteq Block
      /\ IsFiniteSet(H) /\ tab[n].filesCount = Cardinality(H)
  BY RangeOf DEF Fits, Counts, Node
<1>2. IsFiniteSet(places) /\ Cardinality(places) = BLOCKS * ENTRIES
  <2>1. BLOCKS \in Int /\ ENTRIES \in Int /\ 1 \in Int /\ BLOCKS > 0 /\ ENTRIES > 0
    BY NamespaceAssumption
  <2>2. /\ IsFiniteSet(1 .. BLOCKS) /\ Cardinality(1 .. BLOCKS) = BLOCKS
        /\ IsFiniteSet(1 .. ENTRIES) /\ Cardinality(1 .. ENTRIES) = ENTRIES
    BY <2>1, FS_Interval
  <2> DEFINE S == 1 .. BLOCKS
             T == 1 .. ENTRIES
  <2>3. places = S \X T
    BY DEF Block
  <2> HIDE DEF S, T, places
  <2>4. IsFiniteSet(S \X T) /\ Cardinality(S \X T) = Cardinality(S) * Cardinality(T)
    BY <2>2, FS_Product DEF S, T
  <2> QED
    BY <2>2, <2>3, <2>4 DEF S, T
<1>3. ASSUME NEW e \in H
      PROVE  /\ at[e] \in places /\ bk[at[e][1]][at[e][2]] = e
  <2>1. PICK b \in Range(tab[n].blocks) : \E k \in 1 .. Len(bk[b]) : bk[b][k] = e
    BY DEF Holds
  <2>2. PICK k \in 1 .. Len(bk[b]) : bk[b][k] = e
    BY <2>1
  <2>3. b \in Block /\ bk[b] \in Seq(Entry) /\ Len(bk[b]) <= ENTRIES
    BY <1>1, <2>1 DEF Short
  <2>4. k \in 1 .. ENTRIES
    BY <2>3, NamespaceAssumption
  <2>5. <<b, k>> \in places /\ <<b, k>>[1] = b /\ <<b, k>>[2] = k
    BY <2>3, <2>4
  <2>6. \E p \in places : p[2] \in 1 .. Len(bk[p[1]]) /\ bk[p[1]][p[2]] = e
    BY <2>2, <2>5
  <2> HIDE DEF places, H
  <2> QED
    BY <2>6
<1> HIDE DEF H, places
<1>4. at \in Injection(H, places)
  <2>1. at \in [H -> places]
    BY <1>3
  <2> HIDE DEF at
  <2> QED
    BY <1>3, <2>1 DEF Injection, IsInjective
<1>5. Cardinality(H) <= Cardinality(places)
  BY <1>2, <1>4, FS_Injection
<1>6. Cardinality(H) \in Nat
  BY <1>1, FS_CardinalityType
<1> QED
  BY <1>1, <1>2, <1>5, <1>6, NamespaceAssumption DEF FileCounts

\* An entry more goes where there is room, and the directory keeps its links.
LEMMA AddLimit ==
  ASSUME blk \in [Block -> Seq(Entry)], Short(blk), NEW node \in Node, NEW n, NEW name
  PROVE  LET added == add_directory_entry(node, n, name)
         IN  Short(added.blk) /\ added.node.linkCount = node.linkCount
<1> DEFINE entry == [name |-> name, inum |-> n]
           room  == Room(node)
           first == CHOOSE k \in room : \A j \in room : k <= j
           taken == CHOOSE T \in Takings(node) : TRUE
           new   == CHOOSE b \in taken : TRUE
           b     == node.blocks[first]
           A     == node.addresses \union (taken \ {new})
           added == add_directory_entry(node, n, name)
<1>1. node.blocks \in Seq(Block)
  BY DEF Node
<1>2. \/ added.blk = blk /\ added.node = node
      \/ /\ room # {} /\ added.blk = [blk EXCEPT ![b] = Append(@, entry)]
         /\ added.node = [node EXCEPT !.filesCount = @ + 1]
      \/ /\ added.blk = [blk EXCEPT ![new] = <<entry>>]
         /\ added.node = Opened(node, new, A)
  BY DEF add_directory_entry, AddedTo, Opened
<1> HIDE DEF A, new
<1>3. added.node.linkCount = node.linkCount
  <2>1. Opened(node, new, A).linkCount = node.linkCount
    BY DEF Opened, Node
  <2>2. [node EXCEPT !.filesCount = @ + 1].linkCount = node.linkCount
    BY DEF Node
  <2> HIDE DEF added
  <2> QED
    BY <1>2, <2>1, <2>2
<1>4. room # {} => first \in room
  <2>1. room \in SUBSET Nat
    BY <1>1 DEF Room
  <2> HIDE DEF room
  <2> QED
    BY <2>1, LeastOf
<1>5. room # {} => b \in Block /\ Len(blk[b]) < ENTRIES
  <2>1. room # {} => first \in DOMAIN node.blocks /\ Len(blk[b]) < ENTRIES
    BY <1>4 DEF Room
  <2> HIDE DEF first, room
  <2> QED
    BY <1>1, <2>1
<1> HIDE DEF added, room, b, new
<1>6. ASSUME NEW c \in Block PROVE Len(added.blk[c]) <= ENTRIES
  <2>1. Len(blk[c]) <= ENTRIES /\ blk[c] \in Seq(Entry) /\ Len(blk[c]) \in Nat
    BY DEF Short
  <2>2. CASE added.blk = blk
    BY <2>1, <2>2
  <2>3. CASE room # {} /\ added.blk = [blk EXCEPT ![b] = Append(@, entry)]
    <3>1. c # b => added.blk[c] = blk[c]
      BY <2>3
    <3>2. c = b => added.blk[c] = Append(blk[c], entry) /\ Len(blk[c]) < ENTRIES
      BY <1>5, <2>3
    <3>3. Len(Append(blk[c], entry)) = Len(blk[c]) + 1
      BY <2>1
    <3> QED
      BY <2>1, <3>1, <3>2, <3>3, NamespaceAssumption
  <2>4. CASE added.blk = [blk EXCEPT ![new] = <<entry>>]
    <3>1. added.blk[c] = blk[c] \/ added.blk[c] = <<entry>>
      BY <2>4
    <3>2. Len(<<entry>>) = 1 /\ 1 <= ENTRIES
      BY NamespaceAssumption
    <3>3. added.blk[c] = <<entry>> => Len(added.blk[c]) <= ENTRIES
      BY <3>2
    <3> QED
      BY <2>1, <3>1, <3>3
  <2> QED
    BY <1>2, <2>2, <2>3, <2>4
<1> QED
  BY <1>3, <1>6 DEF Short, added

\* So does an entry less.
LEMMA RemoveLimit ==
  ASSUME blk \in [Block -> Seq(Entry)], Short(blk), NEW node \in Node, NEW name
  PROVE  LET removed == remove_from_directory(node, name)
         IN  Short(removed.blk) /\ removed.node.linkCount = node.linkCount
<1> DEFINE Place(j) == PlaceOf(blk[node.blocks[j]], name)
           k       == CHOOSE j \in DOMAIN node.blocks : Place(j) # 0 /\ \A i \in 1 .. (j - 1) : Place(i) = 0
           b       == node.blocks[k]
           removed == remove_from_directory(node, name)
<1>1. /\ removed.node = [node EXCEPT !.filesCount = @ - 1]
      /\ removed.blk = [blk EXCEPT ![b] = RemoveAt(@, PlaceOf(blk[b], name))]
  BY DEF remove_from_directory
<1>2. removed.node.linkCount = node.linkCount
  BY <1>1 DEF Node
<1> HIDE DEF removed, b
<1>3. ASSUME NEW c \in Block PROVE Len(removed.blk[c]) <= ENTRIES
  <2> DEFINE s == blk[c]
             p == PlaceOf(s, name)
  <2>1. Len(s) <= ENTRIES /\ s \in Seq(Entry) /\ Len(s) \in Nat
    BY DEF Short
  <2>2. removed.blk[c] = s \/ removed.blk[c] = RemoveAt(s, p)
    BY <1>1
  <2> HIDE DEF s
  <2>3. p \in 0 .. Len(s)
    BY <2>1, PlaceOfName
  <2> HIDE DEF p
  <2>4. Len(RemoveAt(s, p)) <= Len(s)
    <3>1. CASE p = 0
      <4>1. SubSeq(s, 1, p - 1) = << >> /\ SubSeq(s, p + 1, Len(s)) = s
        BY <2>1, <3>1
      <4>2. RemoveAt(s, p) = << >> \o s
        BY <4>1 DEF RemoveAt
      <4>3. << >> \o s = s
        BY <2>1
      <4> QED
        BY <2>1, <4>2, <4>3
    <3>2. CASE p # 0
      <4>1. p \in 1 .. Len(s)
        BY <2>1, <2>3, <3>2
      <4>2. Len(RemoveAt(s, p)) = Len(s) - 1
        BY <2>1, <4>1, RemovedAt
      <4> QED
        BY <2>1, <4>2
    <3> QED
      BY <3>1, <3>2
  <2> QED
    BY <2>1, <2>2, <2>4, <2>3, NamespaceAssumption
<1> QED
  BY <1>2, <1>3 DEF Short, removed

\* The blocks keep to their size, the counts to what the blocks hold, and links are none or one.
Limited ==
  /\ Short(blk)
  /\ \A n \in Inum : inode[n].linkCount \in {0, 1} /\ inode[n].filesCount \in FileCounts
  /\ op.node.linkCount \in {0, 1}

\* The copy that is written later counts what it has.
LEMMA CopyLimit ==
  ASSUME Clean, Short(blk), Pc \in {"parent", "self", "upper", "linked", "dropped"}
  PROVE  op.node.filesCount \in FileCounts
<1>1. Typed
  BY DEF Clean
<1>2. ASSUME op.parent \in Inum, Fits(Parented, blk, Held) PROVE op.node.filesCount \in FileCounts
  <2>1. Parented[op.parent] = op.node
    BY <1>1, <1>2 DEF Typed, Parented
  <2> QED
    BY <1>2, <2>1, CountLimit
<1>3. CASE Pc = "self"
  <2>1. op.child \in Inum /\ Fits(Dotted, blk, Held)
    BY <1>3 DEF Clean, InSelf, ChildIsOther, Sound
  <2>2. Dotted[op.child] = op.node
    BY <1>1, <2>1 DEF Typed, Dotted
  <2> QED
    BY <2>1, <2>2, CountLimit
<1>4. CASE Pc # "self"
  <2>1. op.parent \in Inum /\ Fits(Parented, blk, Held)
    BY <1>4 DEF Clean, InParent, InUpper, InLinked, InDropped, TwoNames, Shrunk, ParentIsDir, Sound
  <2> QED
    BY <1>2, <2>1
<1> QED
  BY <1>3, <1>4

\* An inode is written that is in its limits, and the handler ends or keeps its copy.
LEMMA WriteLimit ==
  ASSUME Limited, inode \in [Inum -> Node], UNCHANGED blk, NEW n, NEW node, WriteInode(n, node),
         node.linkCount \in {0, 1}, node.filesCount \in FileCounts,
         op'.node = op.node \/ op' = Idle
  PROVE  Limited'
<1>1. \A m \in Inum : inode'[m] = inode[m] \/ inode'[m] = node
  BY DEF WriteInode
<1>2. op'.node.linkCount \in {0, 1}
  BY DEF Limited, Idle, Free
<1> QED
  BY <1>1, <1>2 DEF Limited

\* The disk keeps its inodes.
LEMMA BlockLimit ==
  ASSUME Limited, UNCHANGED inode, Short(blk'), op'.node.linkCount \in {0, 1}
  PROVE  Limited'
  BY DEF Limited

\* The "." and ".." of a new directory.
LEMMA DotsLimit ==
  ASSUME Clean, Limited, AddDots
  PROVE  Limited'
<1> DEFINE dots  == add_directory_entry(inode[op.child], op.child, Dot)
           node  == [dots.node EXCEPT !.filesCount = @ + 1]
           b     == dots.node.blocks[1]
           taken == CHOOSE T \in Takings(inode[op.child]) : TRUE
           new   == CHOOSE x \in taken : TRUE
           A     == inode[op.child].addresses \union (taken \ {new})
           dot   == [name |-> Dot, inum |-> op.child]
<1>1. Typed /\ op.child \in Inum /\ inode[op.child].blocks = << >> /\ inode[op.child] \in Node
  BY DEF Clean, AddDots, At, Pc, InDots, ChildIsOther, Typed, NoBlocks
<1>2. UNCHANGED inode /\ Short(blk) /\ blk \in [Block -> Seq(Entry)]
  BY <1>1 DEF AddDots, Limited, Typed
<1>3. CASE ~dots.ok
  <2>1. op' = Idle /\ UNCHANGED blk
    BY <1>3 DEF AddDots
  <2>2. op'.node.linkCount = 0
    BY <2>1 DEF Idle, Free
  <2> QED
    BY <1>2, <2>1, <2>2, BlockLimit
<1>4. CASE dots.ok
  <2>1. /\ dots.blk = [blk EXCEPT ![new] = <<dot>>]
        /\ dots.node = Opened(inode[op.child], new, A)
    BY <1>1, <1>4 DEF add_directory_entry, Room, Opened
  <2> HIDE DEF A, new
  <2>2. b = new /\ dots.node.linkCount = inode[op.child].linkCount /\ DOMAIN dots.node = DOMAIN inode[op.child]
    <3> DEFINE before == inode[op.child]
    <3> HIDE DEF before
    <3>1. before \in Node => /\ Opened(before, new, A).blocks = Append(before.blocks, new)
                             /\ Opened(before, new, A).linkCount = before.linkCount
                             /\ DOMAIN Opened(before, new, A) = DOMAIN before
      BY DEF Opened, Node
    <3> HIDE DEF dots
    <3> QED
      BY <1>1, <2>1, <3>1 DEF before
  <2>3. /\ blk' = [dots.blk EXCEPT ![b] = Append(@, [name |-> DotDot, inum |-> op.parent])]
        /\ op'.node = node
    <3>1. op' = [op EXCEPT !.pc = "self", !.node = node]
      BY <1>4 DEF AddDots
    <3> QED
      BY <1>1, <1>4, <3>1 DEF AddDots, Typed, Handling
  <2>4. op'.node.linkCount \in {0, 1}
    <3>1. dots.node.linkCount = inode[op.child].linkCount
      BY <2>2
    <3>2. node.linkCount = dots.node.linkCount
      <4> HIDE DEF dots
      <4> QED
        BY <1>1, <2>2 DEF Node
    <3> QED
      BY <1>1, <2>3, <3>1, <3>2 DEF Limited
  <2> HIDE DEF dots, b, node
  <2>5. ASSUME NEW c \in Block PROVE Len(blk'[c]) <= ENTRIES
    <3>1. c # new => blk'[c] = blk[c]
      BY <1>2, <2>1, <2>2, <2>3
    <3>2. c = new => blk'[c] = Append(<<dot>>, [name |-> DotDot, inum |-> op.parent])
      BY <1>2, <2>1, <2>2, <2>3
    <3>3. Len(Append(<<dot>>, [name |-> DotDot, inum |-> op.parent])) = 2 /\ 2 <= ENTRIES
      BY NamespaceAssumption
    <3>4. c = new => Len(blk'[c]) <= ENTRIES
      BY <3>2, <3>3
    <3> QED
      BY <1>2, <3>1, <3>4 DEF Short
  <2> QED
    BY <1>2, <2>4, <2>5, BlockLimit DEF Short
<1> QED
  BY <1>3, <1>4

\* The entries that are added and removed.
LEMMA NameLimit ==
  ASSUME Clean, Clean', Limited, AddChild \/ RemoveName \/ AddName \/ DropName
  PROVE  Limited'
<1>1. /\ Typed /\ Typed' /\ Short(blk) /\ blk \in [Block -> Seq(Entry)]
      /\ inode \in [Inum -> Node] /\ op \in Handling /\ op.node \in Node /\ op.node.linkCount \in {0, 1}
  BY DEF Clean, Limited, Typed, Handling
<1>2. UNCHANGED inode
  BY DEF AddChild, RemoveName, AddName, DropName
<1>3. ASSUME NEW d \in Inum PROVE inode[d] \in Node /\ inode[d].linkCount \in {0, 1}
  BY <1>1 DEF Limited
<1>4. CASE AddChild
  <2> DEFINE added == add_directory_entry(op.node, op.child, Last(op.path))
             pc    == IF added.ok THEN "parent" ELSE "undo"
  <2>1. blk' = added.blk /\ op' = [op EXCEPT !.pc = pc, !.node = added.node]
    BY <1>4 DEF AddChild
  <2>2. Short(added.blk) /\ added.node.linkCount = op.node.linkCount
    BY <1>1, AddLimit
  <2> HIDE DEF added, pc
  <2>3. op'.node = added.node
    BY <1>1, <2>1 DEF Handling
  <2> QED
    BY <1>1, <1>2, <2>1, <2>2, <2>3, BlockLimit
<1>5. CASE RemoveName
  <2> DEFINE removed == remove_from_directory(op.node, Last(op.path))
             pc      == IF inode[op.child].linkCount = 1 THEN "free" ELSE "node"
  <2>1. blk' = removed.blk /\ op' = [op EXCEPT !.node = removed.node, !.pc = pc]
    BY <1>5 DEF RemoveName
  <2>2. Short(removed.blk) /\ removed.node.linkCount = op.node.linkCount
    BY <1>1, RemoveLimit
  <2> HIDE DEF removed, pc
  <2>3. op'.node = removed.node
    BY <1>1, <2>1 DEF Handling
  <2> QED
    BY <1>1, <1>2, <2>1, <2>2, <2>3, BlockLimit
<1>6. CASE AddName
  <2> DEFINE d     == get_inode_of_File(Front(op.path))
             n     == get_inode_of_File(op.from)
             added == add_directory_entry(inode[d], n, Last(op.path))
  <2>1. CASE IsDir(d) /\ added.ok
    <3>1. blk' = added.blk /\ op' = [op EXCEPT !.pc = "linked", !.parent = d, !.child = n, !.node = added.node]
      BY <1>6, <2>1 DEF AddName
    <3> HIDE DEF added, d, n
    <3>2. op'.pc = "linked" /\ op'.parent = d /\ op'.node = added.node
      BY <1>1, <3>1 DEF Handling
    <3>3. d \in Inum
      BY <3>2 DEF Clean, InLinked, ParentIsDir, Pc
    <3>4. Short(added.blk) /\ added.node.linkCount = inode[d].linkCount
      BY <1>1, <1>3, <3>3, AddLimit DEF added
    <3> QED
      BY <1>2, <1>3, <3>1, <3>2, <3>3, <3>4, BlockLimit
  <2>2. CASE ~(IsDir(d) /\ added.ok)
    <3>1. ~added.ok => added.blk = blk
      BY DEF add_directory_entry, AddedTo
    <3>2. op' = Idle /\ UNCHANGED blk
      BY <1>6, <2>2, <3>1 DEF AddName
    <3>3. op'.node.linkCount = 0
      BY <3>2 DEF Idle, Free
    <3> QED
      BY <1>1, <1>2, <3>3, <3>2, BlockLimit
  <2> QED
    BY <2>1, <2>2
<1>7. CASE DropName
  <2> DEFINE d       == get_inode_of_File(Front(op.from))
             removed == remove_from_directory(inode[d], Last(op.from))
  <2>1. CASE Has(d, Last(op.from))
    <3>1. blk' = removed.blk /\ op' = [op EXCEPT !.pc = "dropped", !.parent = d, !.node = removed.node]
      BY <1>7, <2>1 DEF DropName
    <3> HIDE DEF removed, d
    <3>2. op'.pc = "dropped" /\ op'.parent = d /\ op'.node = removed.node
      BY <1>1, <3>1 DEF Handling
    <3>3. d \in Inum
      BY <3>2 DEF Clean, InDropped, Shrunk, ParentIsDir, Pc
    <3>4. Short(removed.blk) /\ removed.node.linkCount = inode[d].linkCount
      BY <1>1, <1>3, <3>3, RemoveLimit DEF removed
    <3> QED
      BY <1>2, <1>3, <3>1, <3>2, <3>3, <3>4, BlockLimit
  <2>2. CASE ~Has(d, Last(op.from))
    <3>1. op' = Idle /\ UNCHANGED blk
      BY <1>7, <2>2 DEF DropName
    <3>2. op'.node.linkCount = 0
      BY <3>1 DEF Idle, Free
    <3> QED
      BY <1>1, <1>2, <3>1, <3>2, BlockLimit
  <2> QED
    BY <2>1, <2>2
<1> QED
  BY <1>4, <1>5, <1>6, <1>7

\* Every step that cuts no handler short.
LEMMA NextLimited ==
  ASSUME Clean, Clean', Limited, [Next]_vars
  PROVE  Limited'
<1>1. Typed /\ inode \in [Inum -> Node] /\ Short(blk) /\ op.node.linkCount \in {0, 1} /\ op \in Handling
  BY DEF Clean, Limited, Typed
<1>2. 0 \in FileCounts
  BY NamespaceAssumption DEF FileCounts
<1>3. CASE UNCHANGED vars \/ Crash \/ FreeBlocks
  <2>1. UNCHANGED <<inode, blk>>
    BY <1>3 DEF vars, Crash, FreeBlocks
  <2>2. op'.node = op.node \/ op' = Idle
    BY <1>1, <1>3 DEF vars, Crash, FreeBlocks, Go, Handling
  <2>3. op'.node.linkCount \in {0, 1}
    BY <1>1, <2>2 DEF Idle, Free
  <2> QED
    BY <1>1, <2>1, <2>3, BlockLimit
<1>4. CASE Serve
  <2>1. UNCHANGED <<inode, blk>>
    BY <1>4 DEF Serve, fs_mknod, fs_mkdir, fs_unlink, fs_rename, Create, Request
  <2>2. op'.pc \in {"create", "remove"} \/ op'.node = Free
    BY <1>4 DEF Serve, fs_mknod, fs_mkdir, fs_unlink, fs_rename, Create, Request, Unlinking, Idle
  <2>3. op'.pc \in {"create", "remove"} => op'.parent \in Inum /\ op'.node = inode'[op'.parent]
    BY DEF Clean, Loaded, InRemove, ParentIsDir, Pc
  <2>4. op'.node.linkCount \in {0, 1}
    BY <2>1, <2>2, <2>3 DEF Limited, Free
  <2> QED
    BY <1>1, <2>1, <2>4, BlockLimit
<1>5. CASE createInode
  <2> DEFINE free == {n \in Inum : ~inode[n].is_allocated}
             n    == CHOOSE n \in free : \A m \in free : n <= m
             node == [inode[n] EXCEPT !.is_allocated = TRUE, !.linkCount = 0]
  <2>1. CASE free = {}
    <3>1. op' = Idle /\ UNCHANGED <<inode, blk>>
      BY <1>5, <2>1 DEF createInode
    <3>2. op'.node.linkCount = 0
      BY <3>1 DEF Idle, Free
    <3> QED
      BY <1>1, <3>1, <3>2, BlockLimit
  <2>2. CASE free # {}
    <3>1. WriteInode(n, node) /\ UNCHANGED blk /\ op' = [op EXCEPT !.pc = "add", !.child = n]
      BY <1>5, <2>2 DEF createInode, WriteInode
    <3>2. n \in free
      <4>1. free \in SUBSET Nat
        BY DEF Inum
      <4> HIDE DEF free
      <4> QED
        BY <2>2, <4>1, LeastOf
    <3>3. n \in Inum
      BY <3>2
    <3> HIDE DEF n
    <3>4. node.linkCount = 0 /\ node.filesCount = inode[n].filesCount
      BY <1>1, <3>3 DEF Node
    <3>5. node.filesCount \in FileCounts
      BY <3>3, <3>4 DEF Limited
    <3>6. op'.node = op.node
      BY <1>1, <3>1 DEF Handling
    <3> HIDE DEF node
    <3> QED
      BY <1>1, <3>1, <3>4, <3>5, <3>6, WriteLimit
  <2> QED
    BY <2>1, <2>2
<1>6. CASE UndoCreate \/ WriteNode
  <2> DEFINE node == Deleted(op.child)
  <2>1. node.linkCount = 0 /\ node.filesCount = 0
    BY DEF Deleted, Free
  <2>2. WriteNode => inode[op.child].linkCount = 1
    BY DEF WriteNode, At, Pc, Clean, InNode, Doomed
  <2>3. WriteInode(op.child, node) /\ UNCHANGED blk
    BY <1>6, <2>2 DEF UndoCreate, Finish, WriteNode, WriteInode
  <2>4. op'.node = op.node \/ op' = Idle
    BY <1>1, <1>6 DEF UndoCreate, Finish, WriteNode, Go, Handling
  <2> HIDE DEF node
  <2> QED
    BY <1>1, <1>2, <2>1, <2>3, <2>4, WriteLimit
<1>7. CASE WriteChild
  <2> DEFINE node == [EmptyDir EXCEPT !.dir = (op.call = "mkdir")]
  <2>1. node.linkCount = 1 /\ node.filesCount = 0
    BY DEF EmptyDir, Free
  <2>2. WriteInode(op.child, node) /\ UNCHANGED blk
    BY <1>7 DEF WriteChild, WriteInode
  <2>3. op'.node = op.node \/ op' = Idle
    BY <1>1, <1>7 DEF WriteChild, Go, Handling
  <2> HIDE DEF node
  <2> QED
    BY <1>1, <1>2, <2>1, <2>2, <2>3, WriteLimit
<1>8. CASE WriteParent \/ WriteUpper \/ WriteTo \/ WriteFrom \/ WriteSelf
  <2>1. PICK n : WriteInode(n, op.node)
    BY <1>8 DEF WriteParent, WriteUpper, WriteTo, WriteFrom, WriteSelf, Finish
  <2>2. op.node.filesCount \in FileCounts
    BY <1>1, <1>8, CopyLimit DEF WriteParent, WriteUpper, WriteTo, WriteFrom, WriteSelf, At, Pc
  <2>3. op'.node = op.node \/ op' = Idle
    BY <1>1, <1>8 DEF WriteParent, WriteUpper, WriteTo, WriteFrom, WriteSelf, Finish, Go, Handling
  <2>4. UNCHANGED blk
    BY <2>1 DEF WriteInode
  <2> QED
    BY <1>1, <2>1, <2>2, <2>3, <2>4, WriteLimit
<1> QED
  BY <1>3, <1>4, <1>5, <1>6, <1>7, <1>8, DotsLimit, NameLimit DEF Next

\* The root is there.
LEMMA InitLimited ==
  ASSUME Init
  PROVE  Limited
<1>1. /\ \A n \in Inum : inode[n].linkCount \in {0, 1} /\ inode[n].filesCount \in {0, 2}
      /\ op.node.linkCount = 0
  BY DEF Init, EmptyDir, Free, Idle
<1>2. 0 \in FileCounts /\ 2 \in FileCounts
  BY NamespaceAssumption DEF FileCounts
<1>3. Short(blk)
  <2> DEFINE s == <<[name |-> Dot, inum |-> 0], [name |-> DotDot, inum |-> 0]>>
  <2>1. ASSUME NEW b \in Block PROVE blk[b] = s \/ blk[b] = << >>
    BY DEF Init
  <2>2. Len(s) = 2 /\ Len(<< >>) = 0
    OBVIOUS
  <2> HIDE DEF s
  <2>3. ASSUME NEW b \in Block PROVE Len(blk[b]) \in {0, 2}
    BY <2>1, <2>2
  <2> QED
    <3>1. 0 <= ENTRIES /\ 2 <= ENTRIES
      BY NamespaceAssumption
    <3>2. ASSUME NEW b \in Block PROVE Len(blk[b]) <= ENTRIES
      BY <2>3, <3>1
    <3> QED
      BY <3>2 DEF Short
<1> QED
  BY <1>1, <1>2, <1>3 DEF Limited

\* The counts of the model's bounds.
Numbered == requests \in 0 .. MaxRequests /\ crashes \in 0 .. MaxCrashes

LEMMA NumberedNext ==
  ASSUME Numbered, [Next]_vars
  PROVE  Numbered'
<1>1. CASE UNCHANGED vars
  BY <1>1 DEF vars, Numbered
<1>2. CASE Serve
  <2>1. requests < MaxRequests /\ requests' = requests + 1 /\ UNCHANGED crashes
    BY <1>2 DEF Serve, fs_mknod, fs_mkdir, fs_unlink, fs_rename, Create, Request
  <2> QED
    BY <2>1, NamespaceAssumption DEF Numbered
<1>3. CASE createInode \/ AddChild \/ UndoCreate \/ WriteParent \/ WriteChild \/ WriteSelf \/ AddDots
  BY <1>3 DEF createInode, AddChild, UndoCreate, WriteParent, WriteChild, WriteSelf, AddDots, Finish, Same,
              Numbered
<1>4. CASE RemoveName \/ FreeBlocks \/ WriteNode \/ WriteUpper \/ AddName \/ WriteTo \/ DropName \/ WriteFrom
  BY <1>4 DEF RemoveName, FreeBlocks, WriteNode, WriteUpper, AddName, WriteTo, DropName, WriteFrom, Finish, Same,
              Numbered
<1>5. CASE Crash
  BY <1>5, NamespaceAssumption DEF Crash, Numbered
<1> QED
  BY <1>1, <1>2, <1>3, <1>4, <1>5 DEF Next

\* What is stranded is allocated.
LEMMA StrandedAre ==
  ASSUME Clean
  PROVE  stranded \subseteq Inum
<1>1. \E E, A, R : Treelike(E, A, Roots \union R)
  <2>1. Roots \union {} = Roots
    OBVIOUS
  <2>2. Pc \in Handlers
    BY DEF Clean, Typed, Handling, Pc
  <2>3. CASE Pc \in {"free", "node"}
    BY <2>3 DEF Clean, InFree, InNode, Sound
  <2>4. CASE Pc \notin {"free", "node"}
    <3>1. \E E, A : Treelike(E, A, Roots)
      BY <2>2, <2>4 DEF Clean, Handlers, AtRest, HalfMade, InParent, InChild, InDots, InSelf, InRemove, InUpper,
                        InLink, InLinked, InDrop, InDropped, TwoNames, Sound
    <3> QED
      BY <2>1, <3>1
  <2> QED
    BY <2>3, <2>4
<1> QED
  BY <1>1 DEF Treelike, Roots

\* What TypeOK says, from the invariants.
LEMMA TypesAre ==
  ASSUME Clean, Recorded, Limited, Numbered, torn = {}
  PROVE  TypeOK
<1>1. Typed /\ inode \in [Inum -> Node] /\ blk \in [Block -> Seq(Entry)] /\ op \in Handling
  BY DEF Clean, Typed
<1>2. {0, 1} \subseteq (-1 - MaxCrashes) .. 1 /\ FileCounts \subseteq (-MaxCrashes) .. (BLOCKS * ENTRIES + MaxCrashes)
  <2> DEFINE P == BLOCKS * ENTRIES
  <2>1. P \in Int /\ MaxCrashes \in Nat
    BY NamespaceAssumption
  <2> HIDE DEF P
  <2>2. 0 .. P \subseteq (-MaxCrashes) .. (P + MaxCrashes)
    BY <2>1
  <2>3. {0, 1} \subseteq (-1 - MaxCrashes) .. 1
    BY <2>1
  <2> QED
    BY <2>2, <2>3 DEF FileCounts, P
<1>3. ASSUME NEW n \in Inum PROVE inode[n] \in Inode
  <2>1. inode[n] \in Node /\ inode[n].linkCount \in {0, 1} /\ inode[n].filesCount \in FileCounts
    BY <1>1 DEF Limited
  <2> QED
    BY <1>2, <2>1 DEF Node, Inode
<1>4. stranded \subseteq Inum
  BY StrandedAre
<1>5. op.parent \in Inum \union {-1} /\ op.child \in Inum \union {-1}
  BY <1>1 DEF Handling
<1> QED
  BY <1>1, <1>3, <1>4, <1>5 DEF TypeOK, Numbered, Limited, Short, Recorded, Accounts

\* While no handler was cut short, every inode has at most one link and a count of entries that
\* the device has room for, and no block of a directory holds more entries than fit in it.
THEOREM TypeCorrect == Spec => [](torn = {} => TypeOK)
<1> DEFINE I == Inv /\ (torn = {} => Limited) /\ Numbered
<1>1. Init /\ Inv => I
  BY InitLimited, NamespaceAssumption DEF Init, Numbered
<1>2. I /\ Inv' /\ [Next]_vars => I'
  <2>1. SUFFICES ASSUME I, Inv', [Next]_vars PROVE I'
    OBVIOUS
  <2>2. Numbered'
    BY <2>1, NumberedNext
  <2>3. ASSUME torn' = {} PROVE Limited'
    <3>1. torn = {}
      BY <2>1, <2>3, TornStays
    <3> QED
      BY <2>1, <2>3, <3>1, NextLimited DEF Inv
  <2> QED
    BY <2>1, <2>2, <2>3
<1>3. I => (torn = {} => TypeOK)
  BY TypesAre DEF Inv
<1> QED
  BY <1>1, <1>2, <1>3, Invariant, PTL DEF Spec
=============================================================================
