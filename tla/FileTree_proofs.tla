--------------------------- MODULE FileTree_proofs ---------------------------
(***************************************************************************)
(* What the calls of MemFileOps do to a file tree, for any paths: each     *)
(* takes a tree to a tree.  First the order of paths by prefix, then the   *)
(* operators of FileTree one by one; the proofs about the files, their     *)
(* locks and the overlay rest on these lemmas.                             *)
(***************************************************************************)
EXTENDS FileTree, SequenceTheorems, TLAPS

Paths == Seq(STRING)

(***************************************************************************)
(* Paths.                                                                  *)
(***************************************************************************)

\* A prefix of a path, component by component.
LEMMA PrefixOf ==
    ASSUME NEW p \in Paths, NEW n \in 0 .. Len(p)
    PROVE  /\ SubSeq(p, 1, n) \in Paths
           /\ Len(SubSeq(p, 1, n)) = n
           /\ \A i \in 1 .. n : SubSeq(p, 1, n)[i] = p[i]
<1>1. Len(p) \in Nat
  BY DEF Paths
<1>2. SubSeq(p, 1, n) \in Paths
  BY DEF Paths
<1> QED BY <1>1, <1>2 DEF Paths

\* Equal components make equal paths.
LEMMA SamePath ==
    ASSUME NEW p \in Paths, NEW q \in Paths, Len(p) = Len(q),
           \A i \in 1 .. Len(p) : p[i] = q[i]
    PROVE  p = q
BY SeqEqual DEF Paths

\* Within, component by component.
LEMMA WithinMeans ==
    ASSUME NEW r \in Paths, NEW p \in Paths
    PROVE  Within(r, p) <=> Len(r) <= Len(p) /\ \A i \in 1 .. Len(r) : p[i] = r[i]
<1>1. Len(r) \in Nat /\ Len(p) \in Nat
  BY DEF Paths
<1>2. ASSUME Within(r, p) PROVE \A i \in 1 .. Len(r) : p[i] = r[i]
  <2>1. Len(r) \in 0 .. Len(p)
    BY <1>1, <1>2 DEF Within
  <2> QED BY <1>2, <2>1, PrefixOf DEF Within
<1>3. ASSUME Len(r) <= Len(p), \A i \in 1 .. Len(r) : p[i] = r[i]
      PROVE  SubSeq(p, 1, Len(r)) = r
  <2>1. Len(r) \in 0 .. Len(p)
    BY <1>1, <1>3
  <2>2. PICK s : s = SubSeq(p, 1, Len(r))
    OBVIOUS
  <2>3. s \in Paths /\ Len(s) = Len(r) /\ \A i \in 1 .. Len(r) : s[i] = p[i]
    BY <2>1, <2>2, PrefixOf
  <2> QED BY <1>3, <2>2, <2>3, SamePath
<1> QED BY <1>2, <1>3 DEF Within

\* An ancestor is a proper prefix other than the root.
LEMMA AncestorMeans ==
    ASSUME NEW p \in Paths, NEW q
    PROVE  q \in Ancestors(p) <=> /\ q \in Paths /\ Within(q, p)
                                  /\ 1 <= Len(q) /\ Len(q) < Len(p)
<1>1. Len(p) \in Nat
  BY DEF Paths
<1>2. ASSUME q \in Ancestors(p)
      PROVE  q \in Paths /\ Within(q, p) /\ 1 <= Len(q) /\ Len(q) < Len(p)
  <2>1. PICK n \in 1 .. Len(p) - 1 : q = SubSeq(p, 1, n)
    BY <1>2 DEF Ancestors
  <2>2. n \in 0 .. Len(p)
    BY <1>1
  <2>3. q \in Paths /\ Len(q) = n
    BY <2>1, <2>2, PrefixOf
  <2> QED BY <1>1, <2>1, <2>3 DEF Within
<1>3. ASSUME q \in Paths, Within(q, p), 1 <= Len(q), Len(q) < Len(p)
      PROVE  q \in Ancestors(p)
  <2>1. Len(q) \in 1 .. Len(p) - 1
    BY <1>1, <1>3 DEF Paths
  <2> QED BY <1>3, <2>1 DEF Within, Ancestors
<1> QED BY <1>2, <1>3

\* Within is an order, and what a path lies in is a chain.
LEMMA WithinOrder ==
    ASSUME NEW a \in Paths, NEW b \in Paths, NEW c \in Paths
    PROVE  /\ Within(a, a)
           /\ Within(a, b) /\ Within(b, a) => a = b
           /\ Within(a, b) /\ Within(b, c) => Within(a, c)
           /\ Within(a, c) /\ Within(b, c) => Within(a, b) \/ Within(b, a)
<1>1. Len(a) \in Nat /\ Len(b) \in Nat /\ Len(c) \in Nat
  BY DEF Paths
<1>2. Within(a, a)
  BY <1>1, WithinMeans
<1>3. ASSUME Within(a, b), Within(b, a) PROVE a = b
  <2>1. Len(a) <= Len(b) /\ Len(b) <= Len(a) /\ \A i \in 1 .. Len(a) : b[i] = a[i]
    BY <1>3, WithinMeans
  <2> QED BY <1>1, <2>1, SamePath
<1>4. ASSUME Within(a, b), Within(b, c) PROVE Within(a, c)
  <2>1. /\ Len(a) <= Len(b) /\ \A i \in 1 .. Len(a) : b[i] = a[i]
        /\ Len(b) <= Len(c) /\ \A i \in 1 .. Len(b) : c[i] = b[i]
    BY <1>4, WithinMeans
  <2> QED BY <1>1, <2>1, WithinMeans
<1>5. ASSUME Within(a, c), Within(b, c) PROVE Within(a, b) \/ Within(b, a)
  <2>1. /\ \A i \in 1 .. Len(a) : c[i] = a[i]
        /\ \A i \in 1 .. Len(b) : c[i] = b[i]
    BY <1>5, WithinMeans
  <2>2. CASE Len(a) <= Len(b)
    <3>1. \A i \in 1 .. Len(a) : b[i] = a[i]
      BY <1>1, <2>1, <2>2
    <3> QED BY <2>2, <3>1, WithinMeans
  <2>3. CASE Len(b) <= Len(a)
    <3>1. \A i \in 1 .. Len(b) : a[i] = b[i]
      BY <1>1, <2>1, <2>3
    <3> QED BY <2>3, <3>1, WithinMeans
  <2> QED BY <1>1, <2>2, <2>3
<1> QED BY <1>2, <1>3, <1>4, <1>5

\* What lies in an ancestor's subtree, and the ancestors of ancestors.
LEMMA AncestorFacts ==
    ASSUME NEW p \in Paths, NEW q \in Ancestors(p)
    PROVE  /\ q \in Paths /\ q # p /\ q # Root /\ Within(q, p) /\ ~Within(p, q)
           /\ Ancestors(q) \subseteq Ancestors(p)
           /\ \A r \in Paths : Within(r, q) => Within(r, p)
<1>1. q \in Paths /\ Within(q, p) /\ 1 <= Len(q) /\ Len(q) < Len(p)
  BY AncestorMeans
<1>2. Len(q) \in Nat /\ Len(p) \in Nat
  BY <1>1 DEF Paths
<1>3. q # p /\ q # Root
  BY <1>1, <1>2 DEF Root
<1>4. \A r \in Paths : Within(r, q) => Within(r, p)
  BY <1>1, WithinOrder
<1>5. Ancestors(q) \subseteq Ancestors(p)
  <2> SUFFICES ASSUME NEW r \in Ancestors(q) PROVE r \in Ancestors(p)
    OBVIOUS
  <2>1. r \in Paths /\ Within(r, q) /\ 1 <= Len(r) /\ Len(r) < Len(q)
    BY <1>1, AncestorMeans
  <2>2. Len(r) \in Nat
    BY <2>1 DEF Paths
  <2> QED BY <1>1, <1>2, <1>4, <2>1, <2>2, AncestorMeans
<1> QED BY <1>1, <1>3, <1>4, <1>5, WithinOrder

\* The directories recorded for the parent of a path are its ancestors.
LEMMA ParentFacts ==
    ASSUME NEW p \in Paths, p # Root
    PROVE  (Ancestors(Parent(p)) \union {Parent(p)}) \ {Root} = Ancestors(p)
<1>1. Len(p) \in Nat /\ Len(p) # 0
  BY EmptySeq DEF Paths, Root
<1>2. PICK d : d = Parent(p)
  OBVIOUS
<1>3. Len(p) - 1 \in 0 .. Len(p)
  BY <1>1
<1>4. d \in Paths /\ Len(d) = Len(p) - 1 /\ \A i \in 1 .. Len(d) : d[i] = p[i]
  <2>1. d = SubSeq(p, 1, Len(p) - 1)
    BY <1>2 DEF Parent
  <2> QED BY <1>3, <2>1, PrefixOf
<1>5. Within(d, p)
  BY <1>1, <1>4, WithinMeans
<1>6. d # Root => d \in Ancestors(p)
  <2> HAVE d # Root
  <2>1. Len(d) \in Nat /\ Len(d) # 0
    BY <1>4, EmptySeq DEF Paths, Root
  <2> QED BY <1>1, <1>4, <1>5, <2>1, AncestorMeans
<1>7. Ancestors(d) \subseteq Ancestors(p)
  <2>1. CASE d = Root
    <3>1. Len(d) = 0
      BY <2>1 DEF Root
    <3> QED BY <3>1 DEF Ancestors
  <2>2. CASE d # Root
    BY <1>6, <2>2, AncestorFacts
  <2> QED BY <2>1, <2>2
<1>8. Ancestors(p) \subseteq Ancestors(d) \union {d}
  <2> SUFFICES ASSUME NEW q \in Ancestors(p), q # d PROVE q \in Ancestors(d)
    OBVIOUS
  <2>1. q \in Paths /\ Within(q, p) /\ 1 <= Len(q) /\ Len(q) < Len(p)
    BY AncestorMeans
  <2>2. Len(q) \in Nat
    BY <2>1 DEF Paths
  <2>3. Len(q) <= Len(d)
    BY <1>1, <1>4, <2>1, <2>2
  <2>4. \A i \in 1 .. Len(q) : d[i] = q[i]
    <3>1. \A i \in 1 .. Len(q) : p[i] = q[i]
      BY <2>1, WithinMeans
    <3> QED BY <1>1, <1>4, <2>2, <2>3, <3>1
  <2>5. Within(q, d)
    BY <1>4, <2>1, <2>3, <2>4, WithinMeans
  <2>6. Len(q) # Len(d)
    BY <1>4, <2>1, <2>4, SamePath
  <2>7. Len(q) < Len(d)
    BY <1>1, <1>4, <2>2, <2>3, <2>6
  <2> QED BY <1>4, <2>1, <2>5, <2>7, AncestorMeans
<1>9. Root \notin Ancestors(p)
  BY AncestorFacts
<1> QED BY <1>2, <1>6, <1>7, <1>8, <1>9

\* y is q followed by what x has after p.
IsMoved(p, q, x, y) ==
    /\ y \in Paths
    /\ Len(y) = Len(q) + (Len(x) - Len(p))
    /\ \A i \in 1 .. Len(q) : y[i] = q[i]
    /\ \A i \in 1 .. Len(x) - Len(p) : y[Len(q) + i] = x[Len(p) + i]
    /\ Within(q, y)

\* Where Rename takes a path of the moved tree.
LEMMA RemapMeans ==
    ASSUME NEW p \in Paths, NEW q \in Paths, NEW x \in Paths, Within(p, x)
    PROVE  IsMoved(p, q, x, Remap(p, q, x))
<1>1. Len(p) \in Nat /\ Len(q) \in Nat /\ Len(x) \in Nat /\ Len(p) <= Len(x)
  BY DEF Paths, Within
<1>2. PICK s : s = SubSeq(x, Len(p) + 1, Len(x))
  OBVIOUS
<1>3. s \in Paths
  BY <1>1, <1>2 DEF Paths
<1>4. /\ Len(s) = Len(x) - Len(p)
      /\ \A i \in 1 .. Len(x) - Len(p) : s[i] = x[Len(p) + i]
  <2>1. Len(s) = Len(x) - Len(p)
    BY <1>1, <1>2 DEF Paths
  <2>2. ASSUME NEW i \in 1 .. Len(x) - Len(p) PROVE s[i] = x[Len(p) + i]
    BY <1>1, <1>2 DEF Paths
  <2> QED BY <2>1, <2>2
<1>5. PICK y : y = q \o s
  OBVIOUS
<1>6. Remap(p, q, x) = y
  BY <1>2, <1>5 DEF Remap
<1>7. y \in Paths /\ Len(y) = Len(q) + Len(s)
  BY <1>3, <1>5 DEF Paths
<1>8. \A i \in 1 .. Len(q) : y[i] = q[i]
  BY <1>1, <1>3, <1>5, <1>7 DEF Paths
<1>9. \A i \in 1 .. Len(s) : y[Len(q) + i] = s[i]
  BY <1>1, <1>3, <1>5, <1>7 DEF Paths
<1>10. Within(q, y)
  BY <1>1, <1>4, <1>7, <1>8, WithinMeans
<1>11. IsMoved(p, q, x, y)
  BY <1>1, <1>4, <1>7, <1>8, <1>9, <1>10 DEF IsMoved
<1> QED BY <1>6, <1>11

\* No two paths are moved to one, when nothing is at the destination.
LEMMA RemapInjective ==
    ASSUME NEW p \in Paths, NEW q \in Paths, NEW x \in Paths, NEW y \in Paths,
           ~Within(q, x), ~Within(q, y), Remap(p, q, x) = Remap(p, q, y)
    PROVE  x = y
<1>1. Len(p) \in Nat /\ Len(q) \in Nat /\ Len(x) \in Nat /\ Len(y) \in Nat
  BY DEF Paths
<1>2. CASE Within(p, x) /\ Within(p, y)
  <2>1. PICK z : z = Remap(p, q, x)
    OBVIOUS
  <2>2. /\ Len(z) = Len(q) + (Len(x) - Len(p))
        /\ \A i \in 1 .. Len(x) - Len(p) : z[Len(q) + i] = x[Len(p) + i]
    <3>1. IsMoved(p, q, x, z) /\ IsMoved(p, q, y, z)
      BY <1>2, <2>1, RemapMeans
    <3> QED BY <3>1 DEF IsMoved
  <2>3. /\ Len(z) = Len(q) + (Len(y) - Len(p))
        /\ \A i \in 1 .. Len(y) - Len(p) : z[Len(q) + i] = y[Len(p) + i]
    <3>1. IsMoved(p, q, x, z) /\ IsMoved(p, q, y, z)
      BY <1>2, <2>1, RemapMeans
    <3> QED BY <3>1 DEF IsMoved
  <2>4. Len(x) = Len(y)
    BY <1>1, <2>2, <2>3
  <2>5. ASSUME NEW i \in 1 .. Len(x) PROVE x[i] = y[i]
    <3>1. CASE i <= Len(p)
      <4>1. x[i] = p[i] /\ y[i] = p[i]
        BY <1>1, <1>2, <3>1, WithinMeans
      <4> QED BY <4>1
    <3>2. CASE i > Len(p)
      <4>1. PICK j : j = i - Len(p)
        OBVIOUS
      <4>2. j \in 1 .. Len(x) - Len(p) /\ i = Len(p) + j
        BY <1>1, <3>2, <4>1
      <4>3. z[Len(q) + j] = x[Len(p) + j] /\ z[Len(q) + j] = y[Len(p) + j]
        BY <2>2, <2>3, <2>4, <4>2
      <4> QED BY <4>2, <4>3
    <3> QED BY <1>1, <3>1, <3>2
  <2> QED BY <2>4, <2>5, SamePath
<1>3. ASSUME Within(p, x), ~Within(p, y) PROVE FALSE
  <2>1. Remap(p, q, y) = y
    BY <1>3 DEF Remap
  <2>2. IsMoved(p, q, x, y)
    BY <1>3, <2>1, RemapMeans
  <2> QED BY <2>2 DEF IsMoved
<1>4. ASSUME ~Within(p, x), Within(p, y) PROVE FALSE
  <2>1. Remap(p, q, x) = x
    BY <1>4 DEF Remap
  <2>2. IsMoved(p, q, y, x)
    BY <1>4, <2>1, RemapMeans
  <2> QED BY <2>2 DEF IsMoved
<1>5. CASE ~Within(p, x) /\ ~Within(p, y)
  BY <1>5 DEF Remap
<1> QED BY <1>2, <1>3, <1>4, <1>5

\* The ancestors of a moved path are those of the destination and the moved
\* ancestors, from the root of the moved tree down.
LEMMA RemapAncestors ==
    ASSUME NEW p \in Paths, NEW q \in Paths, NEW x \in Paths, Within(p, x), p # Root,
           NEW z \in Ancestors(Remap(p, q, x)), z \notin Ancestors(q)
    PROVE  \E a \in Ancestors(x) : Within(p, a) /\ z = Remap(p, q, a)
<1>1. Len(p) \in Nat /\ Len(q) \in Nat /\ Len(x) \in Nat /\ Len(p) # 0 /\ Len(p) <= Len(x)
  BY EmptySeq DEF Paths, Root, Within
<1>2. PICK y : y = Remap(p, q, x)
  OBVIOUS
<1>3. /\ y \in Paths /\ Len(y) = Len(q) + (Len(x) - Len(p))
      /\ \A i \in 1 .. Len(q) : y[i] = q[i]
      /\ \A i \in 1 .. Len(x) - Len(p) : y[Len(q) + i] = x[Len(p) + i]
  <2>1. IsMoved(p, q, x, y)
    BY <1>2, RemapMeans
  <2> QED BY <2>1 DEF IsMoved
<1>4. z \in Paths /\ Within(z, y) /\ 1 <= Len(z) /\ Len(z) < Len(y)
  BY <1>2, <1>3, AncestorMeans
<1>5. Len(z) \in Nat /\ \A i \in 1 .. Len(z) : y[i] = z[i]
  <2>1. Len(z) \in Nat
    BY <1>4 DEF Paths
  <2> QED BY <1>3, <1>4, <2>1, WithinMeans
<1>6. Len(z) >= Len(q)
  <2> SUFFICES ASSUME Len(z) < Len(q) PROVE FALSE
    BY <1>1, <1>5
  <2>1. \A i \in 1 .. Len(z) : q[i] = z[i]
    BY <1>1, <1>3, <1>5
  <2>2. Within(z, q)
    BY <1>1, <1>4, <1>5, <2>1, WithinMeans
  <2> QED BY <1>4, <2>2, AncestorMeans
<1>7. PICK n : n = Len(p) + (Len(z) - Len(q))
  OBVIOUS
<1>8. n \in Nat /\ Len(p) <= n /\ n < Len(x) /\ n \in 0 .. Len(x) /\ n >= 1
  BY <1>1, <1>3, <1>4, <1>5, <1>6, <1>7
<1>9. PICK a : a = SubSeq(x, 1, n)
  OBVIOUS
<1>10. a \in Paths /\ Len(a) = n /\ \A i \in 1 .. n : a[i] = x[i]
  BY <1>8, <1>9, PrefixOf
<1>11. Within(a, x)
  BY <1>8, <1>10, WithinMeans
<1>12. a \in Ancestors(x)
  BY <1>8, <1>10, <1>11, AncestorMeans
<1>13. Within(p, a)
  <2>1. \A i \in 1 .. Len(p) : x[i] = p[i]
    BY WithinMeans
  <2>2. \A i \in 1 .. Len(p) : a[i] = p[i]
    BY <1>1, <1>8, <1>10, <2>1
  <2> QED BY <1>8, <1>10, <2>2, WithinMeans
<1>14. PICK b : b = Remap(p, q, a)
  OBVIOUS
<1>15. /\ b \in Paths /\ Len(b) = Len(q) + (n - Len(p))
       /\ \A i \in 1 .. Len(q) : b[i] = q[i]
       /\ \A i \in 1 .. n - Len(p) : b[Len(q) + i] = a[Len(p) + i]
  <2>1. IsMoved(p, q, a, b)
    BY <1>10, <1>13, <1>14, RemapMeans
  <2> QED BY <1>10, <2>1 DEF IsMoved
<1>16. Len(b) = Len(z)
  BY <1>1, <1>5, <1>7, <1>15
<1>17. ASSUME NEW i \in 1 .. Len(b) PROVE b[i] = z[i]
  <2>1. z[i] = y[i]
    BY <1>5, <1>16
  <2>2. CASE i <= Len(q)
    <3>1. i \in 1 .. Len(q)
      BY <1>1, <1>5, <1>16, <2>2
    <3> QED BY <1>3, <1>15, <2>1, <3>1
  <2>3. CASE i > Len(q)
    <3>1. PICK j : j = i - Len(q)
      OBVIOUS
    <3>2. /\ i = Len(q) + j /\ j \in 1 .. n - Len(p) /\ j \in 1 .. Len(x) - Len(p)
          /\ Len(p) + j \in 1 .. n
      BY <1>1, <1>5, <1>7, <1>8, <1>16, <2>3, <3>1
    <3>3. b[Len(q) + j] = a[Len(p) + j] /\ a[Len(p) + j] = x[Len(p) + j]
      BY <1>10, <1>15, <3>2
    <3>4. y[Len(q) + j] = x[Len(p) + j]
      BY <1>3, <3>2
    <3> QED BY <2>1, <3>2, <3>3, <3>4
  <2> QED BY <1>1, <1>5, <1>16, <2>2, <2>3
<1>18. b = z
  BY <1>4, <1>15, <1>16, <1>17, SamePath
<1> QED BY <1>12, <1>13, <1>14, <1>18
(***************************************************************************)
(* Trees.                                                                  *)
(***************************************************************************)
PathSet(P) == P \subseteq Paths /\ \A p \in P : p # Root /\ Ancestors(p) \subseteq P

IsFs(fs) == fs = [files |-> fs.files, dirs |-> fs.dirs, links |-> fs.links]

Tree(fs, P) == IsFs(fs) /\ IsTree(fs, P)

\* Files and directories of fs outside of S are still there in t, as such.
Keeps(fs, t, S) == DOMAIN fs.files \ S \subseteq DOMAIN t.files /\ fs.dirs \ S \subseteq t.dirs

\* A tree without anything.
LEMMA EmptyIsTree == \A P : Tree(EmptyTree, P)
<1>1. DOMAIN EmptyTree.files = {} /\ EmptyTree.dirs = {} /\ DOMAIN EmptyTree.links = {}
  BY DEF EmptyTree
<1>2. Names(EmptyTree) = {}
  BY <1>1 DEF Names
<1>3. IsFs(EmptyTree)
  BY DEF EmptyTree, IsFs
<1> QED BY <1>1, <1>2, <1>3 DEF Tree, IsTree

\* Directories may be recorded wherever no file is.
LEMMA RecordTree ==
    ASSUME NEW P, NEW fs, Tree(fs, P), NEW D \in SUBSET P,
           \A d \in D : Ancestors(d) \subseteq D /\ ~IsFileEntry(fs, d),
           NEW t, t = [fs EXCEPT !.dirs = @ \union D]
    PROVE  /\ Tree(t, P) /\ Keeps(fs, t, {})
           /\ t.files = fs.files /\ t.links = fs.links /\ t.dirs = fs.dirs \union D
<1>1. t = [files |-> fs.files, dirs |-> fs.dirs \union D, links |-> fs.links]
  BY DEF Tree, IsFs
<1>2. t.files = fs.files /\ t.links = fs.links /\ t.dirs = fs.dirs \union D
  BY <1>1
<1>3. IsFs(t)
  BY <1>1, <1>2 DEF IsFs
<1>4. D \cap (DOMAIN fs.files \union DOMAIN fs.links) = {}
  BY DEF IsFileEntry
<1>5. Names(t) = Names(fs) \union D
  BY <1>2 DEF Names
<1>6. \A p \in Names(t) : p \in P /\ Ancestors(p) \subseteq t.dirs
  BY <1>2, <1>5 DEF Tree, IsTree
<1>7. IsTree(t, P)
  BY <1>2, <1>4, <1>6 DEF Tree, IsTree
<1> QED BY <1>2, <1>3, <1>7 DEF Tree, Keeps

\* The parents of a path that resolves.
LEMMA RecordParents ==
    ASSUME NEW P, PathSet(P), NEW fs, Tree(fs, P), NEW p \in P, Resolves(fs, p),
           NEW t, t = RecordDir(fs, Parent(p))
    PROVE  /\ Tree(t, P) /\ Keeps(fs, t, {})
           /\ t.files = fs.files /\ t.links = fs.links
           /\ t.dirs = fs.dirs \union Ancestors(p)
<1>1. p \in Paths /\ p # Root /\ Ancestors(p) \in SUBSET P
  BY DEF PathSet
<1>2. t = [fs EXCEPT !.dirs = @ \union Ancestors(p)]
  BY <1>1, ParentFacts DEF RecordDir
<1>3. \A d \in Ancestors(p) : Ancestors(d) \subseteq Ancestors(p) /\ ~IsFileEntry(fs, d)
  BY <1>1, AncestorFacts DEF Resolves
<1> QED BY <1>1, <1>2, <1>3, RecordTree

\* WriteFile takes a tree to a tree.
LEMMA WriteTree ==
    ASSUME NEW P, PathSet(P), NEW fs, Tree(fs, P), NEW p \in P, NEW v,
           NEW t, t = WriteFile(fs, p, v).fs
    PROVE  Tree(t, P) /\ Keeps(fs, t, {})
<1>1. CASE ~Resolves(fs, p) \/ p \in fs.dirs
  <2>1. t = fs
    BY <1>1 DEF WriteFile, Refuse
  <2> QED BY <2>1 DEF Keeps
<1>2. CASE Resolves(fs, p) /\ p \notin fs.dirs
  <2>1. PICK u : u = RecordDir(fs, Parent(p))
    OBVIOUS
  <2>2. PICK c : c = Canon(fs, p)
    OBVIOUS
  <2>3. /\ Tree(u, P) /\ u.files = fs.files /\ u.links = fs.links
        /\ u.dirs = fs.dirs \union Ancestors(p)
    BY <1>2, <2>1, RecordParents
  <2>4. t = [u EXCEPT !.files = With(@, c, v)]
    BY <1>2, <2>1, <2>2 DEF WriteFile, Done
  <2>5. t = [files |-> With(fs.files, c, v), dirs |-> u.dirs, links |-> fs.links]
    BY <2>3, <2>4 DEF Tree, IsFs
  <2>6. /\ DOMAIN t.files = DOMAIN fs.files \union {c}
        /\ t.dirs = u.dirs /\ t.links = fs.links
    BY <2>5 DEF With
  <2>7. IsFs(t)
    BY <2>5 DEF IsFs
  <2>8. c \in DOMAIN fs.files \/ (c = p /\ p \notin DOMAIN fs.links)
    BY <2>2 DEF Canon, Tree, IsTree
  <2>9. Ancestors(p) \subseteq u.dirs /\ p \notin Ancestors(p)
    BY <2>3, AncestorFacts DEF PathSet
  <2>10. DOMAIN t.files \cap DOMAIN t.links = {}
    BY <2>6, <2>8 DEF Tree, IsTree
  <2>11. t.dirs \cap (DOMAIN t.files \union DOMAIN t.links) = {}
    BY <1>2, <2>3, <2>6, <2>8, <2>9 DEF Tree, IsTree
  <2>12. \A a \in DOMAIN t.links : t.links[a] \in DOMAIN t.files
    BY <2>6 DEF Tree, IsTree
  <2>13. \A x \in Names(t) : x \in P /\ Ancestors(x) \subseteq t.dirs
    <3>1. \A x \in Names(t) : x \in Names(u) \/ x = p
      BY <2>3, <2>6, <2>8 DEF Names
    <3> QED BY <2>3, <2>6, <2>9, <3>1 DEF Tree, IsTree
  <2>14. IsTree(t, P)
    BY <2>10, <2>11, <2>12, <2>13 DEF IsTree
  <2> QED BY <2>3, <2>6, <2>7, <2>14 DEF Tree, Keeps
<1> QED BY <1>1, <1>2

\* MkdirAll takes a tree to a tree.
LEMMA MkdirTree ==
    ASSUME NEW P, PathSet(P), NEW fs, Tree(fs, P), NEW p \in P,
           NEW t, t = MkdirAll(fs, p).fs
    PROVE  Tree(t, P) /\ Keeps(fs, t, {})
<1>1. CASE ~Resolves(fs, p) \/ IsFileEntry(fs, p)
  <2>1. t = fs
    BY <1>1 DEF MkdirAll, Refuse
  <2> QED BY <2>1 DEF Keeps
<1>2. CASE Resolves(fs, p) /\ ~IsFileEntry(fs, p)
  <2>1. p \in Paths /\ p # Root /\ Ancestors(p) \in SUBSET P
    BY DEF PathSet
  <2>2. PICK D : D = Ancestors(p) \union {p}
    OBVIOUS
  <2>3. D \ {Root} = D
    BY <2>1, <2>2, AncestorFacts
  <2>4. t = [fs EXCEPT !.dirs = @ \union D]
    BY <1>2, <2>2, <2>3 DEF MkdirAll, Done, RecordDir
  <2>5. D \in SUBSET P
    BY <2>1, <2>2
  <2>6. \A d \in D : Ancestors(d) \subseteq D /\ ~IsFileEntry(fs, d)
    BY <1>2, <2>1, <2>2, AncestorFacts DEF Resolves
  <2> QED BY <2>4, <2>5, <2>6, RecordTree
<1> QED BY <1>1, <1>2

\* Link takes a tree to a tree, also when it refuses a directory.
LEMMA LinkTree ==
    ASSUME NEW P, PathSet(P), NEW fs, Tree(fs, P), NEW target \in P, NEW p \in P,
           NEW t, t = Link(fs, target, p).fs
    PROVE  Tree(t, P) /\ Keeps(fs, t, {})
<1>1. PICK u : u = RecordDir(fs, Parent(p))
  OBVIOUS
<1>2. CASE t = fs
  BY <1>2 DEF Keeps
<1>3. CASE Resolves(fs, p) /\ t = u
  BY <1>1, <1>3, RecordParents
<1>4. CASE /\ Resolves(fs, p) /\ ~Exists(fs, p) /\ Exists(fs, target) /\ ~IsDir(fs, target)
           /\ t = [u EXCEPT !.links = With(@, p, Canon(fs, target))]
  <2>1. /\ Tree(u, P) /\ u.files = fs.files /\ u.links = fs.links
        /\ u.dirs = fs.dirs \union Ancestors(p)
    BY <1>1, <1>4, RecordParents
  <2>2. PICK c : c = Canon(fs, target)
    OBVIOUS
  <2>3. c \in DOMAIN fs.files
    BY <1>4, <2>2 DEF Canon, Exists, IsDir, IsFileEntry, Tree, IsTree
  <2>4. t = [files |-> fs.files, dirs |-> u.dirs, links |-> With(fs.links, p, c)]
    BY <1>4, <2>1, <2>2 DEF Tree, IsFs
  <2>5. /\ t.files = fs.files /\ t.dirs = u.dirs
        /\ DOMAIN t.links = DOMAIN fs.links \union {p}
        /\ t.links[p] = c /\ \A a \in DOMAIN fs.links : a # p => t.links[a] = fs.links[a]
    BY <2>4 DEF With
  <2>6. IsFs(t)
    BY <2>4 DEF IsFs
  <2>7. Ancestors(p) \subseteq u.dirs /\ p \notin Ancestors(p)
    BY <2>1, AncestorFacts DEF PathSet
  <2>8. p \notin DOMAIN fs.files /\ p \notin DOMAIN fs.links /\ p \notin fs.dirs
    BY <1>4 DEF Exists, IsFileEntry
  <2>9. DOMAIN t.files \cap DOMAIN t.links = {}
    BY <2>5, <2>8 DEF Tree, IsTree
  <2>10. t.dirs \cap (DOMAIN t.files \union DOMAIN t.links) = {}
    BY <2>1, <2>5, <2>7, <2>8 DEF Tree, IsTree
  <2>11. \A a \in DOMAIN t.links : t.links[a] \in DOMAIN t.files
    BY <2>3, <2>5 DEF Tree, IsTree
  <2>12. \A x \in Names(t) : x \in P /\ Ancestors(x) \subseteq t.dirs
    <3>1. \A x \in Names(t) : x \in Names(u) \/ x = p
      BY <2>1, <2>5 DEF Names
    <3> QED BY <2>1, <2>5, <2>7, <3>1 DEF Tree, IsTree
  <2>13. IsTree(t, P)
    BY <2>9, <2>10, <2>11, <2>12 DEF IsTree
  <2> QED BY <2>1, <2>5, <2>6, <2>13 DEF Tree, Keeps
<1> QED BY <1>1, <1>2, <1>3, <1>4 DEF Link, Refuse, Done

\* Truncate changes a content and nothing else.
LEMMA TruncateTree ==
    ASSUME NEW P, NEW fs, Tree(fs, P), NEW p, NEW v,
           NEW t, t = Truncate(fs, p, v).fs
    PROVE  Tree(t, P) /\ Keeps(fs, t, {})
<1>1. CASE t = fs
  BY <1>1 DEF Keeps
<1>2. CASE t = [fs EXCEPT !.files[Canon(fs, p)] = v]
  <2>1. PICK f : f = [fs.files EXCEPT ![Canon(fs, p)] = v]
    OBVIOUS
  <2>2. DOMAIN f = DOMAIN fs.files
    BY <2>1
  <2>3. t = [files |-> f, dirs |-> fs.dirs, links |-> fs.links]
    BY <1>2, <2>1 DEF Tree, IsFs
  <2>4. DOMAIN t.files = DOMAIN fs.files /\ t.dirs = fs.dirs /\ t.links = fs.links
    BY <2>2, <2>3
  <2>5. IsFs(t)
    BY <2>3 DEF IsFs
  <2>6. IsTree(t, P)
    BY <2>4 DEF Tree, IsTree, Names
  <2> QED BY <2>4, <2>5, <2>6 DEF Tree, Keeps
<1> QED BY <1>1, <1>2 DEF Truncate, Refuse, Done
\* Unlink leaves a tree: the names in S are gone, every other name of a file
\* is still one, and each alias left leads to a file that is.
LEMMA UnlinkTree ==
    ASSUME NEW P, NEW fs, Tree(fs, P), NEW S, NEW t, t = Unlink(fs, S)
    PROVE  /\ Tree(t, P) /\ t.dirs = fs.dirs
           /\ DOMAIN fs.files \ S \subseteq DOMAIN t.files
           /\ DOMAIN t.files \union DOMAIN t.links
                = (DOMAIN fs.files \union DOMAIN fs.links) \ S
<1> DEFINE L == Restrict(fs.links, DOMAIN fs.links \ S)
           Al(c) == {a \in DOMAIN L : L[a] = c}
           He(c) == CHOOSE a \in Al(c) : TRUE
           Mo == {c \in DOMAIN fs.files \cap S : Al(c) # {}}
           Hs == {He(c) : c \in Mo}
           F == [p \in (DOMAIN fs.files \ S) \union Hs |->
                   IF p \in Hs THEN fs.files[L[p]] ELSE fs.files[p]]
           K == [a \in DOMAIN L \ Hs |-> IF L[a] \in Mo THEN He(L[a]) ELSE L[a]]
<1>1. t = [fs EXCEPT !.files = F, !.links = K]
  BY DEF Unlink
<1>2. t = [files |-> F, dirs |-> fs.dirs, links |-> K]
  <2> HIDE DEF F, K
  <2> QED BY <1>1 DEF Tree, IsFs
<1>3. /\ DOMAIN L = DOMAIN fs.links \ S
      /\ \A a \in DOMAIN L : L[a] = fs.links[a] /\ L[a] \in DOMAIN fs.files
  BY DEF Restrict, Tree, IsTree
<1>4. \A c \in Mo : He(c) \in DOMAIN L
  <2> HIDE DEF L
  <2> QED OBVIOUS
<1>5. Hs \subseteq DOMAIN L
  <2> HIDE DEF L, He, Mo
  <2> QED BY <1>4
<1>6. \A a \in DOMAIN L : L[a] \in S => L[a] \in Mo
  <2> HIDE DEF L
  <2> QED BY <1>3
<1>7. DOMAIN F = (DOMAIN fs.files \ S) \union Hs /\ DOMAIN K = DOMAIN L \ Hs
  <2> HIDE DEF L, He, Mo, Hs
  <2> QED OBVIOUS
<1>8. \A a \in DOMAIN K : K[a] \in DOMAIN F
  <2> SUFFICES ASSUME NEW a \in DOMAIN K PROVE K[a] \in DOMAIN F
    OBVIOUS
  <2>1. a \in DOMAIN L \ Hs
    BY <1>7
  <2>2. CASE L[a] \in Mo
    <3>1. K[a] = He(L[a])
      <4> HIDE DEF L, He, Mo, Hs
      <4> QED BY <2>1, <2>2
    <3>2. He(L[a]) \in Hs
      <4> HIDE DEF L, He, Mo
      <4> QED BY <2>2
    <3> HIDE DEF L, He, Mo, Hs, F, K
    <3> QED BY <1>7, <3>1, <3>2
  <2>3. CASE L[a] \notin Mo
    <3>1. K[a] = L[a]
      <4> HIDE DEF L, He, Mo, Hs
      <4> QED BY <2>1, <2>3
    <3> HIDE DEF L, He, Mo, Hs, F, K
    <3> QED BY <1>3, <1>6, <1>7, <2>1, <2>3, <3>1
  <2> QED BY <2>2, <2>3
<1> HIDE DEF L, Al, He, Mo, Hs, F, K
<1>9. t.files = F /\ t.dirs = fs.dirs /\ t.links = K /\ IsFs(t)
  BY <1>2 DEF IsFs
<1>10. /\ DOMAIN fs.files \cap DOMAIN fs.links = {}
       /\ fs.dirs \cap (DOMAIN fs.files \union DOMAIN fs.links) = {}
  BY DEF Tree, IsTree
<1>11. DOMAIN F \union DOMAIN K = (DOMAIN fs.files \union DOMAIN fs.links) \ S
  BY <1>3, <1>5, <1>7
<1>12. DOMAIN F \cap DOMAIN K = {}
  BY <1>3, <1>7, <1>10
<1>13. Names(t) \subseteq Names(fs)
  BY <1>9, <1>11 DEF Names
<1>14. IsTree(t, P)
  <2>1. t.dirs \cap (DOMAIN t.files \union DOMAIN t.links) = {}
    BY <1>9, <1>10, <1>11
  <2>2. \A x \in Names(t) : x \in P /\ Ancestors(x) \subseteq t.dirs
    BY <1>9, <1>13 DEF Tree, IsTree
  <2> QED BY <1>8, <1>9, <1>12, <2>1, <2>2 DEF IsTree
<1> QED BY <1>7, <1>9, <1>11, <1>14 DEF Tree

\* removeTree leaves a tree: what lies in root is gone, the rest is there.
LEMMA RemoveTreeTree ==
    ASSUME NEW P, PathSet(P), NEW fs, Tree(fs, P), NEW root \in Paths,
           NEW t, t = RemoveTree(fs, root)
    PROVE  /\ Tree(t, P)
           /\ Names(t) = {x \in Names(fs) : ~Within(root, x)}
           /\ DOMAIN fs.files \ {x \in Names(fs) : Within(root, x)} \subseteq DOMAIN t.files
           /\ t.dirs = fs.dirs \ {x \in Names(fs) : Within(root, x)}
<1>1. PICK S : S = {x \in Names(fs) : Within(root, x)}
  OBVIOUS
<1>2. PICK u : u = Unlink(fs, S)
  OBVIOUS
<1>3. /\ Tree(u, P) /\ u.dirs = fs.dirs /\ DOMAIN fs.files \ S \subseteq DOMAIN u.files
      /\ DOMAIN u.files \union DOMAIN u.links = (DOMAIN fs.files \union DOMAIN fs.links) \ S
  BY <1>2, UnlinkTree
<1>4. t = [u EXCEPT !.dirs = @ \ S]
  BY <1>1, <1>2 DEF RemoveTree
<1>5. t = [files |-> u.files, dirs |-> fs.dirs \ S, links |-> u.links]
  BY <1>3, <1>4 DEF Tree, IsFs
<1>6. t.files = u.files /\ t.dirs = fs.dirs \ S /\ t.links = u.links /\ IsFs(t)
  BY <1>5 DEF IsFs
<1>7. Names(t) = Names(fs) \ S
  BY <1>3, <1>6 DEF Names
<1>8. ASSUME NEW x \in Names(t) PROVE x \in P /\ Ancestors(x) \subseteq t.dirs
  <2>1. x \in Names(fs) /\ x \in P /\ x \in Paths /\ Ancestors(x) \subseteq fs.dirs
    BY <1>7 DEF Tree, IsTree, PathSet
  <2>2. ~Within(root, x)
    BY <1>1, <1>7, <2>1
  <2>3. \A a \in Ancestors(x) : ~Within(root, a)
    BY <2>1, <2>2, AncestorFacts
  <2> QED BY <1>1, <1>6, <2>1, <2>3
<1>9. IsTree(t, P)
  BY <1>3, <1>6, <1>8 DEF Tree, IsTree
<1> QED BY <1>1, <1>3, <1>6, <1>7, <1>9 DEF Tree

\* Remove takes a tree to a tree, and nothing outside of p goes.
LEMMA RemoveIsTree ==
    ASSUME NEW P, PathSet(P), NEW fs, Tree(fs, P), NEW p \in P, NEW rec,
           NEW t, t = Remove(fs, p, rec).fs
    PROVE  Tree(t, P) /\ Keeps(fs, t, {x \in Names(fs) : Within(p, x)})
<1>1. p \in Paths /\ Within(p, p)
  BY WithinOrder DEF PathSet
<1>2. CASE t = fs
  BY <1>2 DEF Keeps
<1>3. CASE Exists(fs, p) /\ ~IsDir(fs, p) /\ t = Unlink(fs, {p})
  <2>1. p \in Names(fs)
    BY <1>3 DEF Exists, IsFileEntry, Names
  <2> QED BY <1>1, <1>3, <2>1, UnlinkTree DEF Keeps
<1>4. CASE t = RemoveTree(fs, p)
  BY <1>1, <1>4, RemoveTreeTree DEF Keeps
<1> QED BY <1>2, <1>3, <1>4 DEF Remove, Refuse, Done
\* Below a file there is nothing, nor below a directory without children.
LEMMA NothingBelow ==
    ASSUME NEW P, PathSet(P), NEW fs, Tree(fs, P), NEW q \in P,
           IsDir(fs, q) => Children(fs, q) = {},
           NEW x \in Names(fs), Within(q, x)
    PROVE  x = q
<1> SUFFICES ASSUME x # q PROVE FALSE
  OBVIOUS
<1>1. q \in Paths /\ q # Root /\ x \in Paths /\ Ancestors(x) \subseteq fs.dirs
  BY DEF PathSet, Tree, IsTree
<1>2. Len(q) \in Nat /\ Len(x) \in Nat /\ Len(q) # 0 /\ Len(q) <= Len(x)
  BY <1>1, EmptySeq DEF Paths, Root, Within
<1>3. \A i \in 1 .. Len(q) : x[i] = q[i]
  BY <1>1, WithinMeans
<1>4. Len(q) < Len(x)
  BY <1>1, <1>2, <1>3, SamePath
<1>5. q \in Ancestors(x)
  BY <1>1, <1>2, <1>4, AncestorMeans
<1>6. IsDir(fs, q)
  BY <1>1, <1>5 DEF IsDir, IsFileEntry, Tree, IsTree
<1>7. PICK n : n = Len(q) + 1
  OBVIOUS
<1>8. n \in 0 .. Len(x) /\ n \in Nat /\ 1 <= n /\ n - 1 = Len(q) /\ n - 1 \in 0 .. n
  BY <1>2, <1>4, <1>7
<1>9. PICK y : y = SubSeq(x, 1, n)
  OBVIOUS
<1>10. y \in Paths /\ Len(y) = n /\ \A i \in 1 .. n : y[i] = x[i]
  BY <1>1, <1>8, <1>9, PrefixOf
<1>11. Parent(y) = q
  <2>1. PICK d : d = Parent(y)
    OBVIOUS
  <2>2. d = SubSeq(y, 1, Len(q))
    BY <1>8, <1>10, <2>1 DEF Parent
  <2>3. Len(q) \in 0 .. Len(y)
    BY <1>8, <1>10
  <2>4. d \in Paths /\ Len(d) = Len(q) /\ \A i \in 1 .. Len(q) : d[i] = y[i]
    BY <1>10, <2>2, <2>3, PrefixOf
  <2>5. \A i \in 1 .. Len(q) : d[i] = q[i]
    BY <1>2, <1>3, <1>8, <1>10, <2>4
  <2> QED BY <1>1, <2>1, <2>4, <2>5, SamePath
<1>12. y # Root /\ y # q
  BY <1>2, <1>8, <1>10 DEF Root
<1>13. y \in Names(fs)
  <2>1. CASE n = Len(x)
    BY <1>1, <1>10, <2>1, SamePath
  <2>2. CASE n < Len(x)
    <3>1. Within(y, x)
      BY <1>1, <1>8, <1>10, WithinMeans
    <3>2. y \in Ancestors(x)
      BY <1>1, <1>8, <1>10, <2>2, <3>1, AncestorMeans
    <3> QED BY <1>1, <3>2 DEF Names
  <2> QED BY <1>2, <1>8, <2>1, <2>2
<1> QED BY <1>6, <1>11, <1>12, <1>13 DEF Children

\* g has the values of f under the moved keys.
IsMovedMap(f, g, p, q) ==
    /\ DOMAIN g = {Remap(p, q, x) : x \in DOMAIN f}
    /\ \A a \in DOMAIN g : \E y \in DOMAIN f : a = Remap(p, q, y) /\ g[a] = f[y]

\* What a loop of Rename makes of a map.
LEMMA MovedMap ==
    ASSUME NEW f, NEW p, NEW q, p # q
    PROVE  IsMovedMap(f, MoveMap(f, p, q), p, q)
<1>1. DOMAIN MoveMap(f, p, q) = {Remap(p, q, x) : x \in DOMAIN f}
  BY DEF MoveMap, MoveKeys
<1>2. ASSUME NEW a \in DOMAIN MoveMap(f, p, q)
      PROVE  \E y \in DOMAIN f : a = Remap(p, q, y) /\ MoveMap(f, p, q)[a] = f[y]
  <2>1. \E y \in DOMAIN f : Remap(p, q, y) = a
    BY <1>1, <1>2
  <2>2. PICK y : y = CHOOSE z \in DOMAIN f : Remap(p, q, z) = a
    OBVIOUS
  <2>3. y \in DOMAIN f /\ Remap(p, q, y) = a
    BY <2>1, <2>2
  <2>4. MoveMap(f, p, q)[a] = f[y]
    BY <1>1, <1>2, <2>2 DEF MoveMap, MoveKeys
  <2> QED BY <2>3, <2>4
<1> QED BY <1>1, <1>2 DEF IsMovedMap

\* The loops of Rename take a tree to a tree, when nothing is at the
\* destination, its parents are there and it does not lie in the moved tree.
LEMMA MoveTreeTree ==
    ASSUME NEW P, PathSet(P), NEW fs, Tree(fs, P), NEW p \in P, NEW q \in P,
           ~Within(p, q), Ancestors(q) \subseteq fs.dirs,
           \A x \in Names(fs) : ~Within(q, x) /\ Remap(p, q, x) \in P,
           NEW t, t = MoveTree(fs, p, q)
    PROVE  Tree(t, P) /\ Keeps(fs, t, {x \in Names(fs) : Within(p, x)})
<1>1. p \in Paths /\ q \in Paths /\ p # Root /\ q # Root /\ p # q
  BY WithinOrder DEF PathSet
<1>2. \A x \in Names(fs) : x \in Paths /\ x \in P
  BY DEF Tree, IsTree, PathSet
<1>3. PICK M : M = MoveMap(fs.links, p, q)
  OBVIOUS
<1>4. t = [files |-> MoveMap(fs.files, p, q),
           dirs  |-> MoveKeys(fs.dirs, p, q),
           links |-> [a \in DOMAIN M |-> Remap(p, q, M[a])]]
  BY <1>3 DEF MoveTree
<1>5. IsFs(t)
  BY <1>4 DEF IsFs
<1>6. DOMAIN t.files = {Remap(p, q, x) : x \in DOMAIN fs.files}
  <2>1. IsMovedMap(fs.files, t.files, p, q)
    BY <1>1, <1>4, MovedMap
  <2> QED BY <2>1 DEF IsMovedMap
<1>7. t.dirs = {Remap(p, q, x) : x \in fs.dirs}
  BY <1>1, <1>4 DEF MoveKeys
<1>8. /\ DOMAIN t.links = {Remap(p, q, x) : x \in DOMAIN fs.links}
      /\ \A a \in DOMAIN t.links : \E y \in DOMAIN fs.links :
             a = Remap(p, q, y) /\ t.links[a] = Remap(p, q, fs.links[y])
  <2>1. /\ DOMAIN M = {Remap(p, q, x) : x \in DOMAIN fs.links}
        /\ \A a \in DOMAIN M :
              \E y \in DOMAIN fs.links : a = Remap(p, q, y) /\ M[a] = fs.links[y]
    <3>1. IsMovedMap(fs.links, M, p, q)
      BY <1>1, <1>3, MovedMap
    <3> QED BY <3>1 DEF IsMovedMap
  <2>2. DOMAIN t.links = DOMAIN M /\ \A a \in DOMAIN M : t.links[a] = Remap(p, q, M[a])
    BY <1>4
  <2> QED BY <2>1, <2>2
<1>9. \A x, y \in Names(fs) : Remap(p, q, x) = Remap(p, q, y) => x = y
  BY <1>1, <1>2, RemapInjective
<1>10. /\ DOMAIN fs.files \subseteq Names(fs) /\ fs.dirs \subseteq Names(fs)
       /\ DOMAIN fs.links \subseteq Names(fs)
  BY DEF Names
<1>11. DOMAIN t.files \cap DOMAIN t.links = {}
  <2> SUFFICES ASSUME NEW z \in DOMAIN t.files, z \in DOMAIN t.links PROVE FALSE
    OBVIOUS
  <2>1. PICK x \in DOMAIN fs.files : z = Remap(p, q, x)
    BY <1>6
  <2>2. PICK y \in DOMAIN fs.links : z = Remap(p, q, y)
    BY <1>8
  <2>3. x = y
    BY <1>9, <1>10, <2>1, <2>2
  <2> QED BY <2>3 DEF Tree, IsTree
<1>12. t.dirs \cap (DOMAIN t.files \union DOMAIN t.links) = {}
  <2> SUFFICES ASSUME NEW z \in t.dirs, z \in DOMAIN t.files \union DOMAIN t.links
               PROVE  FALSE
    OBVIOUS
  <2>1. PICK x \in fs.dirs : z = Remap(p, q, x)
    BY <1>7
  <2>2. PICK y \in DOMAIN fs.files \union DOMAIN fs.links : z = Remap(p, q, y)
    BY <1>6, <1>8
  <2>3. x = y
    BY <1>9, <1>10, <2>1, <2>2
  <2> QED BY <2>3 DEF Tree, IsTree
<1>13. \A a \in DOMAIN t.links : t.links[a] \in DOMAIN t.files
  <2> SUFFICES ASSUME NEW a \in DOMAIN t.links PROVE t.links[a] \in DOMAIN t.files
    OBVIOUS
  <2>1. PICK y \in DOMAIN fs.links : t.links[a] = Remap(p, q, fs.links[y])
    BY <1>8
  <2>2. fs.links[y] \in DOMAIN fs.files
    BY DEF Tree, IsTree
  <2> QED BY <1>6, <2>1, <2>2
<1>14. \A x \in Paths : ~Within(p, x) => Remap(p, q, x) = x
  BY DEF Remap
<1>15. ASSUME NEW z \in Names(t) PROVE z \in P /\ Ancestors(z) \subseteq t.dirs
  <2>1. PICK x \in Names(fs) : z = Remap(p, q, x)
    BY <1>6, <1>7, <1>8, <1>10 DEF Names
  <2>2. Ancestors(x) \subseteq fs.dirs /\ x \in Paths
    BY <1>2 DEF Tree, IsTree
  <2>3. ASSUME NEW a \in Ancestors(z) PROVE a \in t.dirs
    <3>1. CASE Within(p, x)
      <4>1. CASE a \in Ancestors(q)
        <5>1. a \in fs.dirs /\ a \in Paths /\ ~Within(p, a)
          BY <1>1, <4>1, AncestorFacts
        <5> QED BY <1>7, <1>14, <5>1
      <4>2. CASE a \notin Ancestors(q)
        <5>1. PICK b \in Ancestors(x) : a = Remap(p, q, b)
          BY <1>1, <2>1, <2>2, <2>3, <3>1, <4>2, RemapAncestors
        <5> QED BY <1>7, <2>2, <5>1
      <4> QED BY <4>1, <4>2
    <3>2. CASE ~Within(p, x)
      <4>1. z = x
        BY <1>14, <2>1, <2>2, <3>2
      <4>2. a \in fs.dirs /\ a \in Paths /\ ~Within(p, a)
        BY <1>1, <2>2, <2>3, <3>2, <4>1, AncestorFacts
      <4> QED BY <1>7, <1>14, <4>2
    <3> QED BY <3>1, <3>2
  <2>4. z \in P
    BY <2>1
  <2> QED BY <2>3, <2>4
<1>16. IsTree(t, P)
  BY <1>11, <1>12, <1>13, <1>15 DEF IsTree
<1>17. Keeps(fs, t, {x \in Names(fs) : Within(p, x)})
  BY <1>2, <1>6, <1>7, <1>10, <1>14 DEF Keeps
<1> QED BY <1>5, <1>16, <1>17 DEF Tree

\* What Rename has made of the tree when the destination is cleared.
Cleared(fs, q) == IF IsDir(fs, q) THEN RemoveTree(fs, q)
                  ELSE IF Exists(fs, q) THEN Unlink(fs, {q}) ELSE fs

\* Clearing a destination that may be replaced takes that name and no other.
LEMMA ClearTree ==
    ASSUME NEW P, PathSet(P), NEW fs, Tree(fs, P), NEW q \in P,
           ~(IsDir(fs, q) /\ Children(fs, q) # {}), NEW c, c = Cleared(fs, q)
    PROVE  /\ Tree(c, P) /\ Names(c) = Names(fs) \ {q} /\ c.dirs = fs.dirs \ {q}
           /\ DOMAIN fs.files \ {q} \subseteq DOMAIN c.files
           /\ DOMAIN c.files \union DOMAIN c.links \subseteq DOMAIN fs.files \union DOMAIN fs.links
           /\ \A x \in Names(fs) : Within(q, x) => x = q
<1>1. q \in Paths /\ Within(q, q)
  BY WithinOrder DEF PathSet
<1>2. \A x \in Names(fs) : Within(q, x) => x = q
  BY NothingBelow
<1>3. CASE IsDir(fs, q)
  <2>1. c = RemoveTree(fs, q)
    BY <1>3 DEF Cleared
  <2>2. q \in Names(fs)
    BY <1>3 DEF IsDir, Names
  <2>3. {x \in Names(fs) : Within(q, x)} = {q}
    BY <1>1, <1>2, <2>2
  <2>4. {x \in Names(fs) : ~Within(q, x)} = Names(fs) \ {q}
    BY <1>1, <1>2, <2>2
  <2>5. /\ Tree(c, P) /\ Names(c) = Names(fs) \ {q} /\ c.dirs = fs.dirs \ {q}
        /\ DOMAIN fs.files \ {q} \subseteq DOMAIN c.files
    BY <1>1, <2>1, <2>3, <2>4, RemoveTreeTree
  <2>6. DOMAIN c.files \union DOMAIN c.links \subseteq DOMAIN fs.files \union DOMAIN fs.links
    <3>1. /\ DOMAIN c.files \union DOMAIN c.links \subseteq Names(fs) \ {q}
          /\ c.dirs \cap (DOMAIN c.files \union DOMAIN c.links) = {}
      BY <2>5 DEF Names, Tree, IsTree
    <3> QED BY <2>5, <3>1 DEF Names
  <2> QED BY <1>2, <2>5, <2>6
<1>4. CASE ~IsDir(fs, q) /\ Exists(fs, q)
  <2>1. c = Unlink(fs, {q})
    BY <1>4 DEF Cleared
  <2>2. /\ Tree(c, P) /\ c.dirs = fs.dirs /\ DOMAIN fs.files \ {q} \subseteq DOMAIN c.files
        /\ DOMAIN c.files \union DOMAIN c.links
             = (DOMAIN fs.files \union DOMAIN fs.links) \ {q}
    BY <2>1, UnlinkTree
  <2>3. q \notin fs.dirs
    BY <1>4 DEF IsDir, Exists, IsFileEntry, Tree, IsTree
  <2> QED BY <1>2, <2>2, <2>3 DEF Names
<1>5. CASE ~IsDir(fs, q) /\ ~Exists(fs, q)
  <2>1. c = fs /\ q \notin Names(fs)
    BY <1>5 DEF Cleared, Exists, IsFileEntry, Names
  <2> QED BY <1>2, <2>1 DEF Names
<1> QED BY <1>3, <1>4, <1>5

MovedOrReplaced(fs, p, q) == {x \in Names(fs) : Within(p, x) \/ x = q}

\* Rename takes a tree to a tree; what neither lies in the moved tree nor is
\* the destination stays.
LEMMA RenameTree ==
    ASSUME NEW P, PathSet(P), NEW fs, Tree(fs, P), NEW p \in P, NEW q \in P,
           ~Within(p, q), \A x \in Names(fs) : Remap(p, q, x) \in P,
           NEW t, t = Rename(fs, p, q).fs
    PROVE  Tree(t, P) /\ Keeps(fs, t, MovedOrReplaced(fs, p, q))
<1>1. CASE t = fs
  BY <1>1 DEF Keeps
<1>2. CASE /\ Resolves(fs, q) /\ ~(IsDir(fs, q) /\ Children(fs, q) # {})
           /\ t = MoveTree(RecordDir(Cleared(fs, q), Parent(q)), p, q)
  <2>1. p \in Paths /\ q \in Paths /\ Within(q, q) /\ q # Root /\ Ancestors(q) \subseteq P
    BY WithinOrder DEF PathSet
  <2>3. PICK c : c = Cleared(fs, q)
    OBVIOUS
  <2>4. /\ Tree(c, P) /\ Names(c) = Names(fs) \ {q}
        /\ DOMAIN fs.files \ {q} \subseteq DOMAIN c.files /\ fs.dirs \ {q} \subseteq c.dirs
        /\ DOMAIN c.files \union DOMAIN c.links \subseteq DOMAIN fs.files \union DOMAIN fs.links
        /\ \A x \in Names(fs) : Within(q, x) => x = q
    BY <1>2, <2>3, ClearTree
  <2>5. PICK u : u = RecordDir(c, Parent(q))
    OBVIOUS
  <2>6. Resolves(c, q)
    BY <1>2, <2>4 DEF Resolves, IsFileEntry
  <2>7. /\ Tree(u, P) /\ u.files = c.files /\ u.links = c.links
        /\ u.dirs = c.dirs \union Ancestors(q)
    BY <2>4, <2>5, <2>6, RecordParents
  <2>8. ASSUME NEW x \in Names(u) PROVE ~Within(q, x) /\ Remap(p, q, x) \in P
    <3>1. CASE x \in Names(c)
      BY <2>4, <3>1
    <3>2. CASE x \in Ancestors(q)
      <4>1. x \in Paths /\ ~Within(q, x) /\ ~Within(p, x) /\ x \in P
        BY <2>1, <3>2, AncestorFacts
      <4> QED BY <4>1 DEF Remap
    <3> QED BY <2>7, <3>1, <3>2 DEF Names
  <2>9. t = MoveTree(u, p, q)
    BY <1>2, <2>3, <2>5
  <2>10. Ancestors(q) \subseteq u.dirs
    BY <2>7
  <2>11. Tree(t, P) /\ Keeps(u, t, {x \in Names(u) : Within(p, x)})
    BY <2>7, <2>8, <2>9, <2>10, MoveTreeTree
  <2>12. Keeps(fs, t, MovedOrReplaced(fs, p, q))
    <3>1. DOMAIN fs.files \union fs.dirs \subseteq Names(fs)
      BY DEF Names
    <3>2. ASSUME NEW x \in DOMAIN fs.files, ~Within(p, x), x # q PROVE x \in DOMAIN t.files
      BY <2>4, <2>7, <2>11, <3>2 DEF Keeps
    <3>3. ASSUME NEW x \in fs.dirs, ~Within(p, x), x # q PROVE x \in t.dirs
      BY <2>4, <2>7, <2>11, <3>3 DEF Keeps
    <3> QED BY <3>1, <3>2, <3>3 DEF Keeps, MovedOrReplaced
  <2> QED BY <2>11, <2>12
<1> QED BY <1>1, <1>2 DEF Rename, Refuse, Done, Cleared

(***************************************************************************)
(* Files and their names: a file is known by the set of its names, of      *)
(* which the canonical path is only one.                                   *)
(***************************************************************************)

\* A name is one of exactly one file, the one at its canonical path.
LEMMA OneFilePerName ==
    ASSUME NEW P, NEW t, Tree(t, P)
    PROVE  /\ \A p : IsFileEntry(t, p) => Canon(t, p) \in DOMAIN t.files
           /\ \A p : \A c \in DOMAIN t.files :
                p \in NamesOf(t, c) <=> IsFileEntry(t, p) /\ c = Canon(t, p)
           /\ \A p : Canon(t, p) \in DOMAIN t.files => IsFileEntry(t, p)
           /\ \A c, d \in DOMAIN t.files : NamesOf(t, c) = NamesOf(t, d) => c = d
<1>1. \A p : IsFileEntry(t, p) => Canon(t, p) \in DOMAIN t.files
  BY DEF IsFileEntry, Canon, Tree, IsTree
<1>2. ASSUME NEW p, NEW c \in DOMAIN t.files
      PROVE  p \in NamesOf(t, c) <=> IsFileEntry(t, p) /\ c = Canon(t, p)
  BY DEF IsFileEntry, Canon, Tree, IsTree, NamesOf
<1>3. \A p : Canon(t, p) \in DOMAIN t.files => IsFileEntry(t, p)
  BY DEF IsFileEntry, Canon
<1>4. ASSUME NEW c \in DOMAIN t.files, NEW d \in DOMAIN t.files, NamesOf(t, c) = NamesOf(t, d)
      PROVE  c = d
  <2>1. c \in NamesOf(t, c) /\ c \in NamesOf(t, d)
    BY <1>4 DEF NamesOf
  <2>2. c = Canon(t, c) /\ d = Canon(t, c)
    BY <1>2, <2>1
  <2> QED BY <2>2
<1> QED BY <1>1, <1>2, <1>3, <1>4

\* The file of t at c is in u with the names N; every file of t has the names n
\* in u, or is gone when there are none, and u has no other files.
Lives(t, c, u, N) == \E k \in DOMAIN u.files : NamesOf(u, k) = N /\ u.files[k] = t.files[c]
Relabelled(t, u, n) ==
    /\ \A c \in DOMAIN t.files : n[c] = {} \/ Lives(t, c, u, n[c])
    /\ \A k \in DOMAIN u.files :
          \E c \in DOMAIN t.files : NamesOf(u, k) = n[c] /\ u.files[k] = t.files[c]

\* The names in S are taken away from every file, and a file that keeps its
\* canonical path stays there.
LosesNames(t, u, S) ==
    /\ Relabelled(t, u, [c \in DOMAIN t.files |-> NamesOf(t, c) \ S])
    /\ \A c \in DOMAIN t.files \ S : NamesOf(u, c) = NamesOf(t, c) \ S

\* So does Unlink, whichever of the names are canonical.
LEMMA UnlinkNames ==
    ASSUME NEW P, NEW fs, Tree(fs, P), NEW S, NEW t, t = Unlink(fs, S)
    PROVE  LosesNames(fs, t, S)
<1> DEFINE L == Restrict(fs.links, DOMAIN fs.links \ S)
           Al(c) == {a \in DOMAIN L : L[a] = c}
           He(c) == CHOOSE a \in Al(c) : TRUE
           Mo == {c \in DOMAIN fs.files \cap S : Al(c) # {}}
           Hs == {He(c) : c \in Mo}
           F == [p \in (DOMAIN fs.files \ S) \union Hs |->
                   IF p \in Hs THEN fs.files[L[p]] ELSE fs.files[p]]
           K == [a \in DOMAIN L \ Hs |-> IF L[a] \in Mo THEN He(L[a]) ELSE L[a]]
<1>1. t = [fs EXCEPT !.files = F, !.links = K]
  BY DEF Unlink
<1>2. t.files = F /\ t.links = K
  <2> HIDE DEF F, K
  <2> QED BY <1>1 DEF Tree, IsFs
<1>3. /\ DOMAIN L = DOMAIN fs.links \ S
      /\ \A a \in DOMAIN L : L[a] = fs.links[a] /\ L[a] \in DOMAIN fs.files
  BY DEF Restrict, Tree, IsTree
<1>4. \A c \in Mo : He(c) \in DOMAIN L /\ L[He(c)] = c /\ He(c) \in Hs
  <2>1. ASSUME NEW c \in Mo PROVE He(c) \in Al(c)
    <3> HIDE DEF L
    <3> QED OBVIOUS
  <2>2. \A c \in Mo : He(c) \in Hs
    <3> HIDE DEF He, Mo
    <3> QED OBVIOUS
  <2> HIDE DEF L, He, Mo, Hs
  <2> QED BY <2>1, <2>2
<1>5. \A a \in Hs : a \in DOMAIN L /\ L[a] \in Mo /\ a = He(L[a])
  <2> HIDE DEF L, He, Mo
  <2> QED BY <1>4
<1>6. \A c : c \in Mo <=> c \in DOMAIN fs.files /\ c \in S /\ Al(c) # {}
  <2> HIDE DEF Al
  <2> QED OBVIOUS
<1>7. \A c, a : a \in Al(c) <=> a \in DOMAIN L /\ L[a] = c
  <2> HIDE DEF L
  <2> QED OBVIOUS
<1>8. /\ DOMAIN F = (DOMAIN fs.files \ S) \union Hs
      /\ \A p \in DOMAIN F : F[p] = IF p \in Hs THEN fs.files[L[p]] ELSE fs.files[p]
  <2> HIDE DEF L, He, Mo, Hs
  <2> QED OBVIOUS
<1>9. /\ DOMAIN K = DOMAIN L \ Hs
      /\ \A a \in DOMAIN K : K[a] = IF L[a] \in Mo THEN He(L[a]) ELSE L[a]
  <2> HIDE DEF L, He, Mo, Hs
  <2> QED OBVIOUS
<1> HIDE DEF L, Al, He, Mo, Hs, F, K
<1>10. DOMAIN fs.files \cap DOMAIN fs.links = {}
  BY DEF Tree, IsTree
<1>11. \A x \in DOMAIN L : x \notin DOMAIN fs.files
  BY <1>3, <1>10
<1>12. ASSUME NEW c \in DOMAIN fs.files, c \notin S
       PROVE  /\ c \in DOMAIN t.files /\ t.files[c] = fs.files[c]
              /\ NamesOf(t, c) = NamesOf(fs, c) \ S
  <2>1. c \notin Hs /\ c \notin Mo
    BY <1>5, <1>6, <1>11, <1>12
  <2>2. c \in DOMAIN F /\ F[c] = fs.files[c]
    BY <1>8, <1>12, <2>1
  <2>3. ASSUME NEW a PROVE a \in DOMAIN K /\ K[a] = c <=> a \in DOMAIN fs.links \ S /\ fs.links[a] = c
    <3>1. ASSUME a \in DOMAIN K, K[a] = c PROVE a \in DOMAIN fs.links \ S /\ fs.links[a] = c
      <4>1. L[a] \notin Mo
        BY <1>4, <1>9, <1>11, <3>1
      <4> QED BY <1>3, <1>9, <3>1, <4>1
    <3>2. ASSUME a \in DOMAIN fs.links \ S, fs.links[a] = c PROVE a \in DOMAIN K /\ K[a] = c
      <4>1. a \in DOMAIN L /\ L[a] = c /\ a \notin Hs
        BY <1>3, <1>5, <2>1, <3>2
      <4> QED BY <1>9, <2>1, <4>1
    <3> QED BY <3>1, <3>2
  <2>4. NamesOf(t, c) = NamesOf(fs, c) \ S
    BY <1>2, <1>12, <2>3 DEF NamesOf
  <2> QED BY <1>2, <2>2, <2>4
<1>13. ASSUME NEW c \in Mo
       PROVE  /\ He(c) \in DOMAIN t.files /\ t.files[He(c)] = fs.files[c]
              /\ NamesOf(t, He(c)) = NamesOf(fs, c) \ S
  <2>1. PICK k : k = He(c)
    OBVIOUS
  <2>2. k \in Hs /\ k \in DOMAIN L /\ L[k] = c /\ c \in S /\ c \in DOMAIN fs.files
    BY <1>4, <1>6, <2>1
  <2>3. k \in DOMAIN F /\ F[k] = fs.files[c]
    BY <1>8, <2>2
  <2>4. ASSUME NEW a PROVE a = k \/ (a \in DOMAIN K /\ K[a] = k) <=> a \in DOMAIN fs.links \ S /\ fs.links[a] = c
    <3>1. ASSUME a \in DOMAIN K, K[a] = k PROVE a \in DOMAIN fs.links \ S /\ fs.links[a] = c
      <4>1. a \in DOMAIN L /\ L[a] \in DOMAIN fs.files
        BY <1>3, <1>9, <3>1
      <4>2. L[a] \in Mo /\ He(L[a]) = k
        BY <1>9, <1>11, <2>2, <3>1, <4>1
      <4>3. L[a] = c
        BY <1>4, <2>2, <4>2
      <4> QED BY <1>3, <4>1, <4>3
    <3>2. ASSUME a \in DOMAIN fs.links \ S, fs.links[a] = c, a # k PROVE a \in DOMAIN K /\ K[a] = k
      <4>1. a \in DOMAIN L /\ L[a] = c
        BY <1>3, <3>2
      <4>2. a \notin Hs
        BY <1>5, <2>1, <3>2, <4>1
      <4> QED BY <1>9, <2>1, <4>1, <4>2
    <3>3. ASSUME a = k PROVE a \in DOMAIN fs.links \ S /\ fs.links[a] = c
      BY <1>3, <2>2, <3>3
    <3> QED BY <3>1, <3>2, <3>3
  <2>5. NamesOf(t, k) = NamesOf(fs, c) \ S
    BY <1>2, <2>2, <2>4 DEF NamesOf
  <2> QED BY <1>2, <2>1, <2>3, <2>5
<1>14. ASSUME NEW c \in DOMAIN fs.files, c \in S, c \notin Mo PROVE NamesOf(fs, c) \ S = {}
  <2>1. \A a \in DOMAIN fs.links \ S : fs.links[a] # c
    BY <1>3, <1>6, <1>7, <1>14
  <2> QED BY <1>14, <2>1 DEF NamesOf
<1>15. PICK n : n = [c \in DOMAIN fs.files |-> NamesOf(fs, c) \ S]
  OBVIOUS
<1>16. \A c \in DOMAIN fs.files : n[c] = NamesOf(fs, c) \ S
  BY <1>15
<1>17. ASSUME NEW c \in DOMAIN fs.files PROVE n[c] = {} \/ Lives(fs, c, t, n[c])
  <2>1. CASE c \notin S
    BY <1>12, <1>16, <2>1 DEF Lives
  <2>2. CASE c \in Mo
    BY <1>13, <1>16, <2>2 DEF Lives
  <2>3. CASE c \in S /\ c \notin Mo
    BY <1>14, <1>16, <2>3
  <2> QED BY <2>1, <2>2, <2>3
<1>18. ASSUME NEW k \in DOMAIN t.files
       PROVE  \E c \in DOMAIN fs.files : NamesOf(t, k) = n[c] /\ t.files[k] = fs.files[c]
  <2>1. CASE k \in Hs
    <3>1. L[k] \in Mo /\ k = He(L[k]) /\ L[k] \in DOMAIN fs.files
      BY <1>5, <1>6, <2>1
    <3> QED BY <1>13, <1>16, <3>1
  <2>2. CASE k \notin Hs
    <3>1. k \in DOMAIN fs.files /\ k \notin S
      BY <1>2, <1>8, <2>2
    <3> QED BY <1>12, <1>16, <3>1
  <2> QED BY <2>1, <2>2
<1>19. Relabelled(fs, t, n)
  BY <1>17, <1>18 DEF Relabelled
<1> QED BY <1>12, <1>15, <1>19 DEF LosesNames

\* The paths in N, moved.
MoveAll(p, q, N) == {Remap(p, q, x) : x \in N}

\* Every file and directory of t is in u, moved, and no other.
MovesNames(t, u, p, q) ==
    /\ u.dirs = MoveAll(p, q, t.dirs)
    /\ DOMAIN u.files = MoveAll(p, q, DOMAIN t.files)
    /\ \A c \in DOMAIN t.files :
          /\ u.files[Remap(p, q, c)] = t.files[c]
          /\ NamesOf(u, Remap(p, q, c)) = MoveAll(p, q, NamesOf(t, c))

\* The loops of Rename move the names of every file and none of the contents,
\* when nothing is at the destination.
LEMMA MoveNames ==
    ASSUME NEW P, PathSet(P), NEW fs, Tree(fs, P), NEW p \in P, NEW q \in P, p # q,
           \A x \in Names(fs) : ~Within(q, x),
           NEW t, t = MoveTree(fs, p, q)
    PROVE  MovesNames(fs, t, p, q)
<1>1. p \in Paths /\ q \in Paths
  BY DEF PathSet
<1>2. \A x \in Names(fs) : x \in Paths
  BY DEF Tree, IsTree, PathSet
<1>3. PICK M : M = MoveMap(fs.links, p, q)
  OBVIOUS
<1>4. t = [files |-> MoveMap(fs.files, p, q),
           dirs  |-> MoveKeys(fs.dirs, p, q),
           links |-> [a \in DOMAIN M |-> Remap(p, q, M[a])]]
  BY <1>3 DEF MoveTree
<1>5. IsMovedMap(fs.files, t.files, p, q)
  BY <1>4, MovedMap
<1>6. t.dirs = {Remap(p, q, x) : x \in fs.dirs}
  BY <1>4 DEF MoveKeys
<1>7. /\ DOMAIN t.links = {Remap(p, q, x) : x \in DOMAIN fs.links}
      /\ \A a \in DOMAIN t.links : \E y \in DOMAIN fs.links :
             a = Remap(p, q, y) /\ t.links[a] = Remap(p, q, fs.links[y])
  <2>1. IsMovedMap(fs.links, M, p, q)
    BY <1>3, MovedMap
  <2>2. DOMAIN t.links = DOMAIN M /\ \A a \in DOMAIN M : t.links[a] = Remap(p, q, M[a])
    BY <1>4
  <2> QED BY <2>1, <2>2 DEF IsMovedMap
<1>8. \A x, y \in Names(fs) : Remap(p, q, x) = Remap(p, q, y) => x = y
  BY <1>1, <1>2, RemapInjective
<1>9. DOMAIN fs.files \subseteq Names(fs) /\ DOMAIN fs.links \subseteq Names(fs)
  BY DEF Names
<1>10. \A y \in DOMAIN fs.links : t.links[Remap(p, q, y)] = Remap(p, q, fs.links[y])
  BY <1>7, <1>8, <1>9
<1>11. ASSUME NEW c \in DOMAIN fs.files
       PROVE  /\ t.files[Remap(p, q, c)] = fs.files[c]
              /\ NamesOf(t, Remap(p, q, c)) = MoveAll(p, q, NamesOf(fs, c))
  <2>1. PICK k : k = Remap(p, q, c)
    OBVIOUS
  <2>2. k \in DOMAIN t.files
    BY <1>5, <2>1 DEF IsMovedMap
  <2>3. t.files[k] = fs.files[c]
    <3>1. PICK y \in DOMAIN fs.files : k = Remap(p, q, y) /\ t.files[k] = fs.files[y]
      BY <1>5, <2>2 DEF IsMovedMap
    <3> QED BY <1>8, <1>9, <2>1, <3>1
  <2>4. \A y \in DOMAIN fs.links : fs.links[y] \in Names(fs)
    BY <1>9 DEF Tree, IsTree
  <2>5. ASSUME NEW z \in NamesOf(t, k) PROVE z \in MoveAll(p, q, NamesOf(fs, c))
    <3>1. CASE z = k
      BY <2>1, <3>1 DEF MoveAll, NamesOf
    <3>2. CASE z # k
      <4>1. z \in DOMAIN t.links /\ t.links[z] = k
        BY <2>5, <3>2 DEF NamesOf
      <4>2. PICK y \in DOMAIN fs.links : z = Remap(p, q, y) /\ k = Remap(p, q, fs.links[y])
        BY <1>7, <4>1
      <4>3. fs.links[y] = c
        BY <1>8, <1>9, <2>1, <2>4, <4>2
      <4>4. y \in NamesOf(fs, c)
        BY <4>3 DEF NamesOf
      <4> QED BY <4>2, <4>4 DEF MoveAll
    <3> QED BY <3>1, <3>2
  <2>6. ASSUME NEW y \in NamesOf(fs, c) PROVE Remap(p, q, y) \in NamesOf(t, k)
    <3>1. CASE y = c
      BY <2>1, <3>1 DEF NamesOf
    <3>2. CASE y # c
      <4>1. y \in DOMAIN fs.links /\ fs.links[y] = c
        BY <2>6, <3>2 DEF NamesOf
      <4>2. Remap(p, q, y) \in DOMAIN t.links /\ t.links[Remap(p, q, y)] = k
        BY <1>7, <1>10, <2>1, <4>1
      <4> QED BY <4>2 DEF NamesOf
    <3> QED BY <3>1, <3>2
  <2>7. NamesOf(t, k) = MoveAll(p, q, NamesOf(fs, c))
    BY <2>5, <2>6 DEF MoveAll
  <2> QED BY <2>1, <2>3, <2>7
<1> QED BY <1>5, <1>6, <1>11 DEF IsMovedMap, MoveAll, MovesNames

\* Directories play no part in the names of files.
LEMMA SameFiles ==
    ASSUME NEW t, NEW u, t.files = u.files, t.links = u.links
    PROVE  /\ \A c : NamesOf(t, c) = NamesOf(u, c)
           /\ \A fs, n : Relabelled(fs, u, n) => Relabelled(fs, t, n)
<1>1. \A c : NamesOf(t, c) = NamesOf(u, c)
  BY DEF NamesOf
<1> QED BY <1>1 DEF Relabelled, Lives

\* So does removeTree, with the names in the subtree.
LEMMA RemoveTreeNames ==
    ASSUME NEW P, NEW fs, Tree(fs, P), NEW root,
           NEW S, S = {x \in Names(fs) : Within(root, x)},
           NEW t, t = RemoveTree(fs, root)
    PROVE  LosesNames(fs, t, S)
<1>1. PICK u : u = Unlink(fs, S)
  OBVIOUS
<1>2. Tree(u, P)
  BY <1>1, UnlinkTree
<1>3. t = [u EXCEPT !.dirs = @ \ S]
  BY <1>1 DEF RemoveTree
<1>4. t.files = u.files /\ t.links = u.links
  BY <1>2, <1>3 DEF Tree, IsFs
<1>5. PICK n : n = [c \in DOMAIN fs.files |-> NamesOf(fs, c) \ S]
  OBVIOUS
<1>6. LosesNames(fs, u, S)
  BY <1>1, UnlinkNames
<1>7. Relabelled(fs, u, n) /\ \A c \in DOMAIN fs.files \ S : NamesOf(u, c) = NamesOf(fs, c) \ S
  BY <1>5, <1>6 DEF LosesNames
<1>8. Relabelled(fs, t, n) /\ \A c \in DOMAIN fs.files \ S : NamesOf(t, c) = NamesOf(fs, c) \ S
  BY <1>4, <1>7, SameFiles
<1> QED BY <1>5, <1>8 DEF LosesNames

\* Clearing the destination of a rename takes that one name away.
LEMMA ClearNames ==
    ASSUME NEW P, PathSet(P), NEW fs, Tree(fs, P), NEW q \in P,
           ~(IsDir(fs, q) /\ Children(fs, q) # {}), NEW c, c = Cleared(fs, q)
    PROVE  LosesNames(fs, c, {q})
<1>1. q \in Paths /\ Within(q, q)
  BY WithinOrder DEF PathSet
<1>2. \A x \in Names(fs) : Within(q, x) => x = q
  BY NothingBelow
<1>3. CASE IsDir(fs, q)
  <2>1. c = RemoveTree(fs, q) /\ q \in Names(fs)
    BY <1>3 DEF Cleared, IsDir, Names
  <2>2. {q} = {x \in Names(fs) : Within(q, x)}
    BY <1>1, <1>2, <2>1
  <2> QED BY <2>1, <2>2, RemoveTreeNames
<1>4. CASE ~IsDir(fs, q) /\ Exists(fs, q)
  <2>1. c = Unlink(fs, {q})
    BY <1>4 DEF Cleared
  <2> QED BY <2>1, UnlinkNames
<1>5. CASE ~IsDir(fs, q) /\ ~Exists(fs, q)
  <2>1. c = fs /\ q \notin DOMAIN fs.files /\ q \notin DOMAIN fs.links
    BY <1>5 DEF Cleared, Exists, IsFileEntry
  <2>2. \A x \in DOMAIN fs.files : NamesOf(fs, x) \ {q} = NamesOf(fs, x)
    BY <2>1 DEF NamesOf
  <2>3. PICK n : n = [x \in DOMAIN fs.files |-> NamesOf(fs, x) \ {q}]
    OBVIOUS
  <2>4. \A x \in DOMAIN fs.files : n[x] = NamesOf(fs, x)
    BY <2>2, <2>3
  <2>5. Relabelled(fs, fs, n)
    BY <2>4 DEF Relabelled, Lives
  <2> QED BY <2>1, <2>2, <2>3, <2>5 DEF LosesNames
<1> QED BY <1>3, <1>4, <1>5

\* The names of every file are moved but for q, which is replaced; a file that
\* keeps its canonical path stays there.
RenamesFiles(t, u, p, q) ==
    /\ u.dirs = MoveAll(p, q, (t.dirs \ {q}) \union Ancestors(q))
    /\ Relabelled(t, u, [c \in DOMAIN t.files |-> MoveAll(p, q, NamesOf(t, c) \ {q})])
    /\ \A c \in DOMAIN t.files :
         c # q /\ ~Within(p, c) => NamesOf(u, c) = MoveAll(p, q, NamesOf(t, c) \ {q})

\* That is what a Rename that succeeds does.
LEMMA RenameNames ==
    ASSUME NEW P, PathSet(P), NEW fs, Tree(fs, P), NEW p \in P, NEW q \in P,
           ~Within(p, q), Resolves(fs, q), ~(IsDir(fs, q) /\ Children(fs, q) # {}),
           NEW t, t = MoveTree(RecordDir(Cleared(fs, q), Parent(q)), p, q)
    PROVE  RenamesFiles(fs, t, p, q)
<1>1. PICK b : b = Cleared(fs, q)
  OBVIOUS
<1>2. /\ Tree(b, P) /\ Names(b) = Names(fs) \ {q} /\ b.dirs = fs.dirs \ {q}
      /\ DOMAIN fs.files \ {q} \subseteq DOMAIN b.files
      /\ DOMAIN b.files \union DOMAIN b.links \subseteq DOMAIN fs.files \union DOMAIN fs.links
      /\ \A x \in Names(fs) : Within(q, x) => x = q
  BY <1>1, ClearTree
<1>3. PICK u : u = RecordDir(b, Parent(q))
  OBVIOUS
<1>4. Resolves(b, q)
  BY <1>2 DEF Resolves, IsFileEntry
<1>5. /\ Tree(u, P) /\ u.files = b.files /\ u.links = b.links
      /\ u.dirs = b.dirs \union Ancestors(q)
  BY <1>2, <1>3, <1>4, RecordParents
<1>6. \A x \in Names(u) : ~Within(q, x)
  <2>1. q \in Paths
    BY DEF PathSet
  <2>2. \A x \in Ancestors(q) : ~Within(q, x)
    BY <2>1, AncestorFacts
  <2>3. \A x \in Names(u) : x \in Names(b) \/ x \in Ancestors(q)
    BY <1>5 DEF Names
  <2> QED BY <1>2, <2>2, <2>3
<1>7. p # q
  BY WithinOrder DEF PathSet
<1>8. t = MoveTree(u, p, q)
  BY <1>1, <1>3
<1>9. /\ t.dirs = MoveAll(p, q, u.dirs)
      /\ DOMAIN t.files = MoveAll(p, q, DOMAIN u.files)
      /\ \A c \in DOMAIN u.files :
            /\ t.files[Remap(p, q, c)] = u.files[c]
            /\ NamesOf(t, Remap(p, q, c)) = MoveAll(p, q, NamesOf(u, c))
  <2>1. MovesNames(u, t, p, q)
    BY <1>5, <1>6, <1>7, <1>8, MoveNames
  <2> QED BY <2>1 DEF MovesNames
<1>10. PICK n : n = [x \in DOMAIN fs.files |-> NamesOf(fs, x) \ {q}]
  OBVIOUS
<1>11. /\ \A x \in DOMAIN fs.files : n[x] = NamesOf(fs, x) \ {q}
       /\ Relabelled(fs, b, n)
       /\ \A x \in DOMAIN fs.files \ {q} : NamesOf(b, x) = NamesOf(fs, x) \ {q}
  <2>1. LosesNames(fs, b, {q})
    BY <1>1, ClearNames
  <2> QED BY <1>10, <2>1 DEF LosesNames
<1>12. Relabelled(fs, u, n) /\ \A x : NamesOf(u, x) = NamesOf(b, x)
  BY <1>5, <1>11, SameFiles
<1>13. PICK m : m = [c \in DOMAIN fs.files |-> MoveAll(p, q, NamesOf(fs, c) \ {q})]
  OBVIOUS
<1>14. \A c \in DOMAIN fs.files : m[c] = MoveAll(p, q, n[c])
  BY <1>11, <1>13
<1>15. ASSUME NEW c \in DOMAIN fs.files PROVE m[c] = {} \/ Lives(fs, c, t, m[c])
  <2>1. CASE n[c] = {}
    BY <1>14, <2>1 DEF MoveAll
  <2>2. CASE n[c] # {}
    <3>1. PICK k \in DOMAIN u.files : NamesOf(u, k) = n[c] /\ u.files[k] = fs.files[c]
      BY <1>12, <2>2 DEF Relabelled, Lives
    <3>2. Remap(p, q, k) \in DOMAIN t.files
      BY <1>9, <3>1 DEF MoveAll
    <3>3. NamesOf(t, Remap(p, q, k)) = m[c] /\ t.files[Remap(p, q, k)] = fs.files[c]
      BY <1>9, <1>14, <3>1
    <3> QED BY <3>2, <3>3 DEF Lives
  <2> QED BY <2>1, <2>2
<1>16. ASSUME NEW z \in DOMAIN t.files
       PROVE  \E c \in DOMAIN fs.files : NamesOf(t, z) = m[c] /\ t.files[z] = fs.files[c]
  <2>1. PICK k \in DOMAIN u.files : z = Remap(p, q, k)
    BY <1>9 DEF MoveAll
  <2>2. PICK c \in DOMAIN fs.files : NamesOf(u, k) = n[c] /\ u.files[k] = fs.files[c]
    BY <1>12 DEF Relabelled
  <2> QED BY <1>9, <1>14, <2>1, <2>2
<1>17. Relabelled(fs, t, m)
  BY <1>15, <1>16 DEF Relabelled
<1>18. ASSUME NEW c \in DOMAIN fs.files, c # q, ~Within(p, c)
       PROVE  NamesOf(t, c) = MoveAll(p, q, NamesOf(fs, c) \ {q})
  <2>1. c \in DOMAIN u.files /\ NamesOf(u, c) = NamesOf(fs, c) \ {q}
    BY <1>2, <1>5, <1>11, <1>12, <1>18
  <2>2. Remap(p, q, c) = c
    BY <1>18 DEF Remap
  <2> QED BY <1>9, <2>1, <2>2
<1>19. t.dirs = MoveAll(p, q, (fs.dirs \ {q}) \union Ancestors(q))
  BY <1>2, <1>5, <1>9
<1> QED BY <1>13, <1>17, <1>18, <1>19 DEF RenamesFiles
=============================================================================
