--------------------------- MODULE MemFiles_proofs ---------------------------
(***************************************************************************)
(* The maps of MemFileOps stay one tree and implement the inodes of        *)
(* FileSystem, for any paths, contents, handles and renames, as long as no *)
(* path is renamed to itself or below itself (a rename of the code that    *)
(* deletes what it should move).  A rename of one name of a file onto      *)
(* another of its names is a step of its own: see DropsLink.               *)
(***************************************************************************)
EXTENDS MemFiles, FileTree_proofs

\* Nothing is renamed into itself.
NoSelfMove == \A m \in Moves : ~Within(m[1], m[2])

IsHandle(c) == c = [open |-> c.open, key |-> c.key, bound |-> c.bound, view |-> c.view]

HandleShape == /\ handle = [h \in Handles |-> handle[h]]
               /\ \A h \in Handles : IsHandle(handle[h])

\* The path a handle remembers holds a file for as long as it is bound.
BoundIsThere ==
    \A h \in Handles : handle[h].open /\ handle[h].bound => handle[h].key \in DOMAIN fs.files

\* After a write through an unbound handle nothing is promised.
Inv == ~torn => Tree(fs, Path) /\ HandleShape /\ BoundIsThere

\* The paths of the model are a set of paths.
LEMMA PathIsPathSet == PathSet(Path) /\ Path \subseteq Paths
BY MemFilesAssumption DEF PathSet, Paths

\* One field of a handle changes.
LEMMA SetBound ==
    ASSUME NEW c, NEW b, IsHandle(c)
    PROVE  [c EXCEPT !.bound = b] = [open |-> c.open, key |-> c.key, bound |-> b, view |-> c.view]
BY DEF IsHandle

\* No file, no handle.
LEMMA InitInv == Init => Inv
<1> SUFFICES ASSUME Init PROVE Inv
  OBVIOUS
<1>1. Tree(fs, Path)
  BY EmptyIsTree DEF Init
<1>2. \A h \in Handles : handle[h] = Closed
  BY DEF Init
<1>3. IsHandle(Closed) /\ ~Closed.open
  BY DEF Closed, IsHandle
<1>4. HandleShape
  BY <1>2, <1>3 DEF Init, HandleShape
<1> QED BY <1>1, <1>2, <1>3, <1>4 DEF Inv, BoundIsThere

\* A stateless call: a handle whose file may go away or move is unbound.
LEMMA ApplyStep ==
    ASSUME Inv, NEW r, NEW S, Apply(r, S), Tree(r.fs, Path),
           DOMAIN fs.files \ S \subseteq DOMAIN r.fs.files,
           r.res # "ok" => DOMAIN fs.files \subseteq DOMAIN r.fs.files
    PROVE  Inv'
<1>1. ~torn /\ Tree(fs, Path) /\ HandleShape /\ BoundIsThere
  BY DEF Inv, Apply
<1>2. fs' = r.fs /\ torn' = torn
  BY DEF Apply
<1>3. handle' = [h \in Handles |->
                   IF r.res = "ok" /\ handle[h].open /\ handle[h].key \in S
                   THEN [handle[h] EXCEPT !.bound = FALSE] ELSE handle[h]]
  BY DEF Apply
<1>4. ASSUME NEW h \in Handles
      PROVE  /\ IsHandle(handle'[h])
             /\ handle'[h].open /\ handle'[h].bound => handle'[h].key \in DOMAIN r.fs.files
  <2>1. CASE r.res = "ok" /\ handle[h].open /\ handle[h].key \in S
    <3>1. handle'[h] = [open |-> handle[h].open, key |-> handle[h].key,
                        bound |-> FALSE, view |-> handle[h].view]
      <4>1. IsHandle(handle[h])
        BY <1>1 DEF HandleShape
      <4>2. [handle[h] EXCEPT !.bound = FALSE]
              = [open |-> handle[h].open, key |-> handle[h].key,
                 bound |-> FALSE, view |-> handle[h].view]
        BY <4>1, SetBound
      <4> QED BY <1>3, <2>1, <4>2
    <3> QED BY <3>1 DEF IsHandle
  <2>2. CASE ~(r.res = "ok" /\ handle[h].open /\ handle[h].key \in S)
    <3>1. handle'[h] = handle[h]
      BY <1>3, <2>2
    <3>2. IsHandle(handle[h])
      BY <1>1 DEF HandleShape
    <3>3. handle[h].open /\ handle[h].bound => handle[h].key \in DOMAIN r.fs.files
      BY <1>1, <2>2 DEF BoundIsThere
    <3> QED BY <3>1, <3>2, <3>3
  <2> QED BY <2>1, <2>2
<1>5. handle' = [h \in Handles |-> handle'[h]]
  BY <1>3
<1>6. HandleShape'
  BY <1>4, <1>5 DEF HandleShape
<1>7. BoundIsThere'
  BY <1>2, <1>4 DEF BoundIsThere
<1> QED BY <1>2, <1>6, <1>7 DEF Inv

\* WriteFile, MkdirAll, Truncate and Link take no file away.
LEMMA GrowingStep ==
    ASSUME Inv, NEW p \in Path,
           \/ \E v \in Content : DoWrite(p, v)
           \/ DoMkdir(p)
           \/ DoTruncate(p, Empty)
           \/ \E q \in Path : DoLink(p, q)
    PROVE  Inv'
<1>1. PICK r : /\ Apply(r, {})
               /\ \/ \E v \in Content : r = WriteFile(fs, p, v)
                  \/ r = MkdirAll(fs, p)
                  \/ r = Truncate(fs, p, Empty)
                  \/ \E q \in Path : r = Link(fs, p, q)
  BY DEF DoWrite, DoMkdir, DoTruncate, DoLink
<1>2. Tree(fs, Path)
  BY <1>1 DEF Inv, Apply
<1>3. Tree(r.fs, Path) /\ Keeps(fs, r.fs, {})
  <2>1. ASSUME NEW v \in Content, r = WriteFile(fs, p, v)
        PROVE  Tree(r.fs, Path) /\ Keeps(fs, r.fs, {})
    BY <1>2, <2>1, PathIsPathSet, WriteTree
  <2>2. ASSUME r = MkdirAll(fs, p) PROVE Tree(r.fs, Path) /\ Keeps(fs, r.fs, {})
    BY <1>2, <2>2, PathIsPathSet, MkdirTree
  <2>3. ASSUME r = Truncate(fs, p, Empty) PROVE Tree(r.fs, Path) /\ Keeps(fs, r.fs, {})
    BY <1>2, <2>3, TruncateTree
  <2>4. ASSUME NEW q \in Path, r = Link(fs, p, q)
        PROVE  Tree(r.fs, Path) /\ Keeps(fs, r.fs, {})
    BY <1>2, <2>4, PathIsPathSet, LinkTree
  <2> QED BY <1>1, <2>1, <2>2, <2>3, <2>4
<1>4. DOMAIN fs.files \subseteq DOMAIN r.fs.files
  BY <1>3 DEF Keeps
<1> QED BY <1>1, <1>3, <1>4, ApplyStep

\* Remove unbinds the handles of the files below p.
LEMMA RemoveStep ==
    ASSUME Inv, NEW p \in Path, NEW rec \in BOOLEAN, DoRemove(p, rec)
    PROVE  Inv'
<1>1. PICK r : r = Remove(fs, p, rec)
  OBVIOUS
<1>2. Apply(r, FilesUnder(p)) /\ Tree(fs, Path)
  BY <1>1 DEF DoRemove, Inv, Apply
<1>3. Tree(r.fs, Path) /\ Keeps(fs, r.fs, {x \in Names(fs) : Within(p, x)})
  BY <1>1, <1>2, PathIsPathSet, RemoveIsTree
<1>4. DOMAIN fs.files \ FilesUnder(p) \subseteq DOMAIN r.fs.files
  BY <1>3 DEF Keeps, FilesUnder, Names
<1>5. r.res # "ok" => r.fs = fs
  BY <1>1 DEF Remove, Done, Refuse
<1> QED BY <1>2, <1>3, <1>4, <1>5, ApplyStep

\* Rename unbinds the handles of the files below p and of the one replaced.
LEMMA RenameStep ==
    ASSUME Inv, NEW p \in Path, NEW q \in Path, ~Within(p, q), DoRename(p, q)
    PROVE  Inv'
<1>1. PICK r : r = Rename(fs, p, q)
  OBVIOUS
<1>2. PICK S : S = FilesUnder(p) \union ({q} \cap DOMAIN fs.files)
  OBVIOUS
<1>3. /\ Apply(r, S) /\ Tree(fs, Path)
      /\ \A x \in Names(fs) : Remap(p, q, x) \in Path
  BY <1>1, <1>2 DEF DoRename, Inv, Apply
<1>4. Tree(r.fs, Path) /\ Keeps(fs, r.fs, MovedOrReplaced(fs, p, q))
  BY <1>1, <1>3, PathIsPathSet, RenameTree
<1>5. DOMAIN fs.files \ S \subseteq DOMAIN r.fs.files
  BY <1>2, <1>4 DEF Keeps, MovedOrReplaced, FilesUnder, Names
<1>6. r.res # "ok" => r.fs = fs
  BY <1>1 DEF Rename, Done, Refuse
<1> QED BY <1>3, <1>4, <1>5, <1>6, ApplyStep

\* Storing through a bound handle changes a content and nothing else.
LEMMA StoreStep ==
    ASSUME Inv, ~torn, NEW h \in Handles, handle[h].open, NEW v, Store(h, v), ~torn'
    PROVE  Tree(fs, Path)' /\ DOMAIN fs'.files = DOMAIN fs.files
<1>1. Tree(fs, Path) /\ BoundIsThere
  BY DEF Inv
<1>2. PICK k : k = handle[h].key
  OBVIOUS
<1>3. k \in DOMAIN fs.files
  BY <1>1, <1>2 DEF BoundIsThere, Store
<1>4. fs' = [fs EXCEPT !.files = With(@, k, v)]
  BY <1>2 DEF Store
<1>5. fs' = [files |-> With(fs.files, k, v), dirs |-> fs.dirs, links |-> fs.links]
  BY <1>1, <1>4 DEF Tree, IsFs
<1>6. DOMAIN With(fs.files, k, v) = DOMAIN fs.files
  BY <1>3 DEF With
<1>7. DOMAIN fs'.files = DOMAIN fs.files /\ fs'.dirs = fs.dirs /\ fs'.links = fs.links
  BY <1>5, <1>6
<1>8. IsFs(fs')
  BY <1>5 DEF IsFs
<1>9. IsTree(fs', Path)
  BY <1>1, <1>7 DEF Tree, IsTree, Names
<1> QED BY <1>7, <1>8, <1>9 DEF Tree

\* One handle changes, to one that is closed or whose path holds a file.
LEMMA HandleChange ==
    ASSUME HandleShape, BoundIsThere, NEW h \in Handles, NEW c, IsHandle(c),
           handle' = [handle EXCEPT ![h] = c], Tree(fs', Path),
           DOMAIN fs.files \subseteq DOMAIN fs'.files,
           c.open /\ c.bound => c.key \in DOMAIN fs'.files
    PROVE  Inv'
<1>1. /\ handle' = [g \in Handles |-> handle'[g]] /\ handle'[h] = c
      /\ \A g \in Handles : g # h => handle'[g] = handle[g]
  BY DEF HandleShape
<1>2. HandleShape'
  BY <1>1 DEF HandleShape
<1>3. BoundIsThere'
  <2> SUFFICES ASSUME NEW g \in Handles, handle'[g].open, handle'[g].bound
               PROVE  handle'[g].key \in DOMAIN fs'.files
    BY DEF BoundIsThere
  <2>1. CASE g = h
    BY <1>1, <2>1
  <2>2. CASE g # h
    BY <1>1, <2>2 DEF BoundIsThere
  <2> QED BY <2>1, <2>2
<1> QED BY <1>2, <1>3 DEF Inv

\* Open, with what it may make or empty.
LEMMA OpenStep ==
    ASSUME Inv, NEW h \in Handles, NEW p \in Path, NEW o \in OpenOpts, DoOpen(h, p, o)
    PROVE  Inv'
<1>1. ~torn /\ Tree(fs, Path) /\ HandleShape /\ BoundIsThere
  BY DEF DoOpen, Inv
<1>2. CASE UNCHANGED <<fs, handle>>
  BY <1>1, <1>2 DEF Inv, HandleShape, BoundIsThere
<1>3. CASE ~UNCHANGED <<fs, handle>>
  <2>1. PICK c : c = Canon(fs, p)
    OBVIOUS
  <2>2. /\ Resolves(fs, p) /\ p \notin fs.dirs
        /\ handle' = [handle EXCEPT ![h] =
                        [open |-> TRUE, key |-> c, bound |-> TRUE, view |-> None]]
        /\ \/ fs' = WriteFile(fs, p, Empty).fs
           \/ fs' = fs /\ c \in DOMAIN fs.files
    BY <1>3, <2>1 DEF DoOpen
  <2>3. PICK n : n = [open |-> TRUE, key |-> c, bound |-> TRUE, view |-> None]
    OBVIOUS
  <2>4. IsHandle(n) /\ n.key = c
    BY <2>3 DEF IsHandle
  <2>5. CASE fs' = WriteFile(fs, p, Empty).fs
    <3>1. Tree(fs', Path) /\ Keeps(fs, fs', {})
      BY <1>1, <2>5, PathIsPathSet, WriteTree
    <3>2. fs'.files = With(fs.files, c, Empty)
      <4>1. PICK u : u = RecordDir(fs, Parent(p))
        OBVIOUS
      <4>2. Tree(u, Path) /\ u.files = fs.files
        BY <1>1, <2>2, <4>1, PathIsPathSet, RecordParents
      <4>3. fs' = [u EXCEPT !.files = With(@, c, Empty)]
        BY <2>1, <2>2, <2>5, <4>1 DEF WriteFile, Done
      <4> QED BY <4>2, <4>3 DEF Tree, IsFs
    <3>3. c \in DOMAIN fs'.files
      BY <3>2 DEF With
    <3>4. DOMAIN fs.files \subseteq DOMAIN fs'.files
      BY <3>1 DEF Keeps
    <3> QED BY <1>1, <2>2, <2>3, <2>4, <3>1, <3>3, <3>4, HandleChange
  <2>6. CASE fs' = fs /\ c \in DOMAIN fs.files
    BY <1>1, <2>2, <2>3, <2>4, <2>6, HandleChange
  <2> QED BY <2>2, <2>5, <2>6
<1> QED BY <1>2, <1>3

\* A map of a file that is there.
LEMMA MmapStep ==
    ASSUME Inv, NEW h \in Handles, NEW p \in Path, DoMmap(h, p)
    PROVE  Inv'
<1>1. ~torn /\ Tree(fs, Path) /\ HandleShape /\ BoundIsThere /\ fs' = fs
  BY DEF DoMmap, Inv
<1>2. PICK c : c = Canon(fs, p)
  OBVIOUS
<1>3. PICK n : n = [open |-> TRUE, key |-> c, bound |-> TRUE, view |-> ReadFile(fs, p)]
  OBVIOUS
<1>4. handle' = [handle EXCEPT ![h] = n] /\ c \in DOMAIN fs.files
  BY <1>2, <1>3 DEF DoMmap, Readable
<1>5. IsHandle(n) /\ n.key = c
  BY <1>3 DEF IsHandle
<1> QED BY <1>1, <1>4, <1>5, HandleChange

\* The program changes the bytes of a map.
LEMMA ViewStep ==
    ASSUME Inv, NEW h \in Handles, NEW v, StoreView(h, v)
    PROVE  Inv'
<1>1. ~torn /\ Tree(fs, Path) /\ HandleShape /\ BoundIsThere /\ fs' = fs
  BY DEF StoreView, Inv
<1>2. PICK n : n = [handle[h] EXCEPT !.view = v]
  OBVIOUS
<1>3. IsHandle(handle[h])
  BY <1>1 DEF HandleShape
<1>4. n = [open |-> handle[h].open, key |-> handle[h].key, bound |-> handle[h].bound, view |-> v]
  BY <1>2, <1>3 DEF IsHandle
<1>5. handle' = [handle EXCEPT ![h] = n]
  BY <1>2 DEF StoreView
<1>6. IsHandle(n) /\ (n.open /\ n.bound => n.key \in DOMAIN fs.files)
  BY <1>1, <1>4 DEF IsHandle, BoundIsThere
<1> QED BY <1>1, <1>5, <1>6, HandleChange

\* Writing through a handle and flushing a map.
LEMMA WriteBackStep ==
    ASSUME Inv, NEW h \in Handles, Flush(h) \/ \E v \in Content : HandleWrite(h, v)
    PROVE  Inv'
<1> SUFFICES ASSUME ~torn' PROVE Inv'
  BY DEF Inv
<1>1. PICK v : Store(h, v)
  BY DEF Flush, HandleWrite
<1>2. ~torn /\ handle[h].open /\ handle' = handle
  BY DEF Flush, HandleWrite
<1>3. Tree(fs, Path)' /\ DOMAIN fs'.files = DOMAIN fs.files
  BY <1>1, <1>2, StoreStep
<1>4. HandleShape /\ BoundIsThere
  BY <1>2 DEF Inv
<1>5. HandleShape' /\ BoundIsThere'
  BY <1>2, <1>3, <1>4 DEF HandleShape, BoundIsThere
<1> QED BY <1>3, <1>5 DEF Inv

\* Close, which writes a map back.
LEMMA CloseStep ==
    ASSUME Inv, NEW h \in Handles, DoClose(h)
    PROVE  Inv'
<1> SUFFICES ASSUME ~torn' PROVE Inv'
  BY DEF Inv
<1>1. /\ ~torn /\ handle[h].open /\ handle' = [handle EXCEPT ![h] = Closed]
      /\ Tree(fs, Path) /\ HandleShape /\ BoundIsThere
  BY DEF DoClose, Inv
<1>2. Tree(fs', Path) /\ DOMAIN fs'.files = DOMAIN fs.files
  <2>1. CASE handle[h].view # None
    <3>1. Store(h, handle[h].view)
      BY <2>1 DEF DoClose
    <3>2. Tree(fs, Path)' /\ DOMAIN fs'.files = DOMAIN fs.files
      BY <1>1, <3>1, StoreStep
    <3> QED BY <3>2
  <2>2. CASE handle[h].view = None
    BY <1>1, <2>2 DEF DoClose
  <2> QED BY <2>1, <2>2
<1>3. IsHandle(Closed) /\ ~Closed.open
  BY DEF IsHandle, Closed
<1> QED BY <1>1, <1>2, <1>3, HandleChange

\* Every step keeps the invariant, given that nothing is moved into itself.
LEMMA NextInv == NoSelfMove /\ Inv /\ [Next]_vars => Inv'
<1> SUFFICES ASSUME NoSelfMove, Inv, [Next]_vars PROVE Inv'
  OBVIOUS
<1>1. ASSUME NEW p \in Path, NEW v \in Content, DoWrite(p, v) PROVE Inv'
  BY <1>1, GrowingStep
<1>2. ASSUME NEW p \in Path, DoMkdir(p) \/ DoTruncate(p, Empty) PROVE Inv'
  BY <1>2, GrowingStep
<1>3. ASSUME NEW p \in Path, NEW rec \in BOOLEAN, DoRemove(p, rec) PROVE Inv'
  BY <1>3, RemoveStep
<1>4. ASSUME NEW p \in Path, NEW q \in Path, DoLink(p, q) PROVE Inv'
  BY <1>4, GrowingStep
<1>5. ASSUME NEW m \in Moves, DoRename(m[1], m[2]) PROVE Inv'
  <2>1. m[1] \in Path /\ m[2] \in Path /\ ~Within(m[1], m[2])
    BY MemFilesAssumption DEF NoSelfMove
  <2> QED BY <1>5, <2>1, RenameStep
<1>6. ASSUME NEW h \in Handles, NEW p \in Path, DoMmap(h, p) PROVE Inv'
  BY <1>6, MmapStep
<1>7. ASSUME NEW h \in Handles, NEW p \in Path, NEW o \in OpenOpts, DoOpen(h, p, o) PROVE Inv'
  BY <1>7, OpenStep
<1>8. ASSUME NEW h \in Handles, NEW v \in Content, HandleWrite(h, v) PROVE Inv'
  BY <1>8, WriteBackStep
<1>9. ASSUME NEW h \in Handles, NEW v \in Content, StoreView(h, v) PROVE Inv'
  BY <1>9, ViewStep
<1>10. ASSUME NEW h \in Handles, Flush(h) PROVE Inv'
  BY <1>10, WriteBackStep
<1>11. ASSUME NEW h \in Handles, DoClose(h) PROVE Inv'
  BY <1>11, CloseStep
<1>12. CASE UNCHANGED vars
  BY <1>12 DEF vars, Inv, HandleShape, BoundIsThere
<1> QED
  BY <1>1, <1>2, <1>3, <1>4, <1>5, <1>6, <1>7, <1>8, <1>9, <1>10, <1>11, <1>12 DEF Next

(***************************************************************************)
(* Files, directories and aliases stay one tree through any sequence of    *)
(* calls and any interleaving of handles, until a handle that has lost its *)
(* file writes - for any paths, contents, handles and renames of which     *)
(* none moves a path to itself or below itself (Rename then deletes it).   *)
(***************************************************************************)
THEOREM FilesStayATree ==
    ASSUME NoSelfMove
    PROVE  Spec => []WellFormed
<1>1. Inv => WellFormed
  BY DEF Inv, Tree, WellFormed
<1>2. Inv /\ [Next]_vars => Inv'
  BY NextInv
<1> QED BY <1>1, <1>2, InitInv, PTL DEF Spec

-----------------------------------------------------------------------------
(***************************************************************************)
(* The refinement.  The calls look at a tree as FileSystem looks at inodes *)
(* and directories, and each changes the inodes as FileSystem's does.      *)
(***************************************************************************)

\* Abstract!Above and Abstract!Under are Ancestors and Within.
LEMMA SameOrder ==
    /\ \A p : Abstract!Above(p) = Ancestors(p)
    /\ \A p, x : Abstract!Under(p, x) <=> Within(p, x)
BY DEF Abstract!Above, Abstract!Under, Ancestors, Within

\* An inode is the file at a canonical path.
LEMMA InodeMeans ==
    /\ \A t, c : /\ Inode(t, c).names = NamesOf(t, c) /\ Inode(t, c).data = t.files[c]
                 /\ Inode(t, c) = Abstract!File(NamesOf(t, c), t.files[c])
    /\ \A t : \A c \in DOMAIN t.files : Inode(t, c) \in InodesOf(t)
    /\ \A t : \A i \in InodesOf(t) : \E c \in DOMAIN t.files : i = Inode(t, c)
<1>1. \A t, c : /\ Inode(t, c).names = NamesOf(t, c) /\ Inode(t, c).data = t.files[c]
                /\ Inode(t, c) = Abstract!File(NamesOf(t, c), t.files[c])
  BY DEF Inode, Abstract!File
<1>2. /\ \A t : \A c \in DOMAIN t.files : Inode(t, c) \in InodesOf(t)
      /\ \A t : \A i \in InodesOf(t) : \E c \in DOMAIN t.files : i = Inode(t, c)
  BY DEF InodesOf
<1> QED BY <1>1, <1>2

\* What the inodes say of a path is what the maps say.
LEMMA Looking ==
    ASSUME Tree(fs, Path)
    PROVE  /\ Abstract!Named = DOMAIN fs.files \union DOMAIN fs.links
           /\ \A p : p \in Abstract!Named <=> IsFileEntry(fs, p)
           /\ \A p : p \in fs.dirs <=> IsDir(fs, p)
           /\ \A p : p \in fs.dirs => p \notin Abstract!Named
           /\ \A p : Abstract!There(p) <=> Exists(fs, p)
           /\ \A p : Abstract!Blocked(p) <=> ~Resolves(fs, p)
           /\ \A p \in Path : Abstract!Busy(p) /\ IsDir(fs, p) <=> IsDir(fs, p) /\ Children(fs, p) # {}
<1>1. Abstract!Named = DOMAIN fs.files \union DOMAIN fs.links
  <2>1. \A i \in InodesOf(fs) : \E c \in DOMAIN fs.files : i.names = NamesOf(fs, c)
    BY InodeMeans
  <2>2. \A c \in DOMAIN fs.files : \E i \in InodesOf(fs) : i.names = NamesOf(fs, c)
    BY InodeMeans
  <2>3. \A c \in DOMAIN fs.files : NamesOf(fs, c) \subseteq DOMAIN fs.files \union DOMAIN fs.links
    BY DEF NamesOf
  <2>4. \A c \in DOMAIN fs.files : c \in NamesOf(fs, c)
    BY DEF NamesOf
  <2>5. \A a \in DOMAIN fs.links : fs.links[a] \in DOMAIN fs.files /\ a \in NamesOf(fs, fs.links[a])
    BY DEF NamesOf, Tree, IsTree
  <2> QED BY <2>1, <2>2, <2>3, <2>4, <2>5 DEF Abstract!Named
<1>2. \A p : p \in Abstract!Named <=> IsFileEntry(fs, p)
  BY <1>1 DEF IsFileEntry
<1>3. \A p : p \in fs.dirs <=> IsDir(fs, p)
  BY DEF IsDir, IsFileEntry, Tree, IsTree
<1>4. \A p : p \in fs.dirs => p \notin Abstract!Named
  BY <1>2, <1>3 DEF IsDir
<1>5. \A p : Abstract!There(p) <=> Exists(fs, p)
  BY <1>2 DEF Abstract!There, Exists
<1>6. \A p : Abstract!Blocked(p) <=> ~Resolves(fs, p)
  BY <1>2, SameOrder DEF Abstract!Blocked, Resolves
<1>7. \A p : Abstract!Busy(p) <=> \E x \in Names(fs) : x # p /\ Within(p, x)
  BY <1>1, SameOrder DEF Abstract!Busy, Names
<1>8. ASSUME NEW p \in Path, IsDir(fs, p), Abstract!Busy(p) PROVE Children(fs, p) # {}
  BY <1>7, <1>8, NothingBelow, PathIsPathSet
<1>9. ASSUME NEW p \in Path, Children(fs, p) # {} PROVE Abstract!Busy(p)
  <2>1. PICK x \in Names(fs) : x # Root /\ x # p /\ Parent(x) = p
    BY <1>9 DEF Children
  <2>2. x \in Paths /\ p \in Paths /\ p # Root
    BY PathIsPathSet DEF Tree, IsTree, PathSet
  <2>3. p \in Ancestors(x)
    BY <2>1, <2>2, ParentFacts
  <2>4. Within(p, x)
    BY <2>2, <2>3, AncestorFacts
  <2> QED BY <1>7, <2>1, <2>4
<1> QED BY <1>1, <1>2, <1>3, <1>4, <1>5, <1>6, <1>8, <1>9

\* A content is stored where there is a file: one inode has new data.
LEMMA StoreInodes ==
    ASSUME NEW t, Tree(t, Path), NEW c \in DOMAIN t.files, NEW v, NEW u,
           u.files = With(t.files, c, v), u.links = t.links
    PROVE  /\ InodesOf(u) = {IF i.names = NamesOf(t, c) THEN Abstract!File(i.names, v) ELSE i
                               : i \in InodesOf(t)}
           /\ \A p \in NamesOf(t, c) :
                InodesOf(u) = {IF p \in i.names THEN Abstract!File(i.names, v) ELSE i
                                 : i \in InodesOf(t)}
           /\ InodesOf(u) = (InodesOf(t) \ {Inode(t, c)}) \union {Abstract!File(NamesOf(t, c), v)}
<1>1. /\ DOMAIN u.files = DOMAIN t.files /\ u.files[c] = v
      /\ \A x \in DOMAIN t.files : x # c => u.files[x] = t.files[x]
  BY DEF With
<1>2. \A x : NamesOf(u, x) = NamesOf(t, x)
  BY DEF NamesOf
<1>3. \A x \in DOMAIN t.files : x # c => Inode(u, x) = Inode(t, x)
  BY <1>1, <1>2, InodeMeans
<1>4. Inode(u, c) = Abstract!File(NamesOf(t, c), v)
  BY <1>1, <1>2, InodeMeans
<1>5. /\ \A x \in DOMAIN t.files : Inode(t, x).names = NamesOf(t, c) <=> x = c
      /\ \A p \in NamesOf(t, c) : \A x \in DOMAIN t.files : p \in Inode(t, x).names <=> x = c
      /\ \A x \in DOMAIN t.files : Inode(t, x) = Inode(t, c) => x = c
  BY OneFilePerName, InodeMeans
<1>6. InodesOf(u) = {IF i.names = NamesOf(t, c) THEN Abstract!File(i.names, v) ELSE i
                       : i \in InodesOf(t)}
  <2>1. ASSUME NEW i \in InodesOf(u)
        PROVE  \E j \in InodesOf(t) :
                 i = IF j.names = NamesOf(t, c) THEN Abstract!File(j.names, v) ELSE j
    <3>1. PICK x \in DOMAIN t.files : i = Inode(u, x)
      BY <1>1, InodeMeans
    <3>2. Inode(t, x) \in InodesOf(t)
      BY InodeMeans
    <3> QED BY <1>3, <1>4, <1>5, <3>1, <3>2
  <2>2. ASSUME NEW j \in InodesOf(t)
        PROVE  (IF j.names = NamesOf(t, c) THEN Abstract!File(j.names, v) ELSE j) \in InodesOf(u)
    <3>1. PICK x \in DOMAIN t.files : j = Inode(t, x)
      BY InodeMeans
    <3>2. Inode(u, x) \in InodesOf(u)
      BY <1>1, InodeMeans
    <3> QED BY <1>3, <1>4, <1>5, <3>1, <3>2
  <2> QED BY <2>1, <2>2
<1>7. ASSUME NEW p \in NamesOf(t, c)
      PROVE  InodesOf(u) = {IF p \in i.names THEN Abstract!File(i.names, v) ELSE i
                              : i \in InodesOf(t)}
  <2>1. \A i \in InodesOf(t) : p \in i.names <=> i.names = NamesOf(t, c)
    BY <1>5, InodeMeans
  <2> QED BY <1>6, <2>1
<1>8. InodesOf(u) = (InodesOf(t) \ {Inode(t, c)}) \union {Abstract!File(NamesOf(t, c), v)}
  <2>1. ASSUME NEW i \in InodesOf(u)
        PROVE  i = Abstract!File(NamesOf(t, c), v) \/ (i \in InodesOf(t) /\ i # Inode(t, c))
    <3>1. PICK x \in DOMAIN t.files : i = Inode(u, x)
      BY <1>1, InodeMeans
    <3>2. Inode(t, x) \in InodesOf(t)
      BY InodeMeans
    <3> QED BY <1>3, <1>4, <1>5, <3>1, <3>2
  <2>2. ASSUME NEW i \in InodesOf(t), i # Inode(t, c) PROVE i \in InodesOf(u)
    <3>1. PICK x \in DOMAIN t.files : i = Inode(t, x)
      BY InodeMeans
    <3>2. Inode(u, x) \in InodesOf(u)
      BY <1>1, InodeMeans
    <3> QED BY <1>3, <2>2, <3>1, <3>2
  <2>3. Abstract!File(NamesOf(t, c), v) \in InodesOf(u)
    BY <1>1, <1>4, InodeMeans
  <2> QED BY <2>1, <2>2, <2>3
<1> QED BY <1>6, <1>7, <1>8

\* Where there is none: a new inode with one name.
LEMMA CreateInode ==
    ASSUME NEW t, Tree(t, Path), NEW p, ~IsFileEntry(t, p), NEW v, NEW u,
           u.files = With(t.files, p, v), u.links = t.links
    PROVE  /\ InodesOf(u) = InodesOf(t) \union {Inode(u, p)}
           /\ Inode(u, p) = Abstract!File({p}, v)
           /\ NamesOf(u, p) = {p}
<1>1. /\ DOMAIN u.files = DOMAIN t.files \union {p} /\ u.files[p] = v
      /\ \A x \in DOMAIN t.files : x # p => u.files[x] = t.files[x]
  BY DEF With
<1>2. \A x : NamesOf(u, x) = NamesOf(t, x)
  BY DEF NamesOf
<1>3. p \notin DOMAIN t.files /\ NamesOf(t, p) = {p}
  BY DEF NamesOf, IsFileEntry, Tree, IsTree
<1>4. \A x \in DOMAIN t.files : Inode(u, x) = Inode(t, x)
  BY <1>1, <1>2, <1>3, InodeMeans
<1>5. Inode(u, p) = Abstract!File({p}, v)
  <2>1. NamesOf(u, p) = {p}
    BY <1>2, <1>3
  <2>2. Inode(u, p) = Abstract!File(NamesOf(u, p), u.files[p])
    BY InodeMeans
  <2> QED BY <1>1, <2>1, <2>2
<1>6. ASSUME NEW i \in InodesOf(u) PROVE i \in InodesOf(t) \/ i = Inode(u, p)
  <2>1. PICK x \in DOMAIN t.files \union {p} : i = Inode(u, x)
    BY <1>1, InodeMeans
  <2> QED BY <1>4, <2>1, InodeMeans
<1>7. ASSUME NEW i \in InodesOf(t) PROVE i \in InodesOf(u)
  BY <1>1, <1>4, InodeMeans
<1>8. Inode(u, p) \in InodesOf(u)
  BY <1>1, InodeMeans
<1> QED BY <1>2, <1>3, <1>5, <1>6, <1>7, <1>8

\* Files that are relabelled: the inodes, by canonical path.
LEMMA RelabelInodes ==
    ASSUME NEW t, NEW u, NEW n, Relabelled(t, u, n)
    PROVE  /\ \A c \in DOMAIN t.files : n[c] # {} => Abstract!File(n[c], t.files[c]) \in InodesOf(u)
           /\ \A i \in InodesOf(u) : \E c \in DOMAIN t.files :
                 n[c] # {} /\ i = Abstract!File(n[c], t.files[c])
<1>1. ASSUME NEW c \in DOMAIN t.files, n[c] # {}
      PROVE  Abstract!File(n[c], t.files[c]) \in InodesOf(u)
  <2>1. PICK k \in DOMAIN u.files : NamesOf(u, k) = n[c] /\ u.files[k] = t.files[c]
    BY <1>1 DEF Relabelled, Lives
  <2>2. Inode(u, k) = Abstract!File(n[c], t.files[c])
    BY <2>1, InodeMeans
  <2> QED BY <2>2, InodeMeans
<1>2. ASSUME NEW i \in InodesOf(u)
      PROVE  \E c \in DOMAIN t.files : n[c] # {} /\ i = Abstract!File(n[c], t.files[c])
  <2>1. PICK k \in DOMAIN u.files : i = Inode(u, k)
    BY InodeMeans
  <2>2. PICK c \in DOMAIN t.files : NamesOf(u, k) = n[c] /\ u.files[k] = t.files[c]
    BY DEF Relabelled
  <2>3. k \in NamesOf(u, k)
    BY DEF NamesOf
  <2>4. i = Abstract!File(n[c], t.files[c])
    BY <2>1, <2>2, InodeMeans
  <2> QED BY <2>2, <2>3, <2>4
<1> QED BY <1>1, <1>2

\* A handle is on its file, has lost it or is closed.
LEMMA HandleViews ==
    /\ DOMAIN OpenFiles = Handles /\ DOMAIN OpenFiles' = Handles
    /\ \A h \in Handles : OpenFiles[h] = OpenOn(fs, handle[h])
                          /\ OpenFiles'[h] = OpenOn(fs', handle'[h])
    /\ \A t, d : /\ ~d.open => OpenOn(t, d) = Abstract!Off("closed")
                 /\ d.open /\ ~d.bound => OpenOn(t, d) = Abstract!Off("lost")
                 /\ d.open /\ d.bound => OpenOn(t, d) = Abstract!On(NamesOf(t, d.key))
    /\ \A S : Abstract!On(S).st = "on" /\ Abstract!On(S).names = S
    /\ Abstract!Off("closed").st = "closed" /\ Abstract!Off("lost").st = "lost"
<1>1. /\ DOMAIN OpenFiles = Handles /\ DOMAIN OpenFiles' = Handles
      /\ \A h \in Handles : OpenFiles[h] = OpenOn(fs, handle[h])
                            /\ OpenFiles'[h] = OpenOn(fs', handle'[h])
  BY DEF OpenFiles
<1>2. ASSUME NEW t, NEW d
      PROVE  /\ ~d.open => OpenOn(t, d) = Abstract!Off("closed")
             /\ d.open /\ ~d.bound => OpenOn(t, d) = Abstract!Off("lost")
             /\ d.open /\ d.bound => OpenOn(t, d) = Abstract!On(NamesOf(t, d.key))
  BY DEF OpenOn, Abstract!Off, Abstract!On
<1>3. /\ \A S : Abstract!On(S).st = "on" /\ Abstract!On(S).names = S
      /\ Abstract!Off("closed").st = "closed" /\ Abstract!Off("lost").st = "lost"
  BY DEF Abstract!Off, Abstract!On
<1> QED BY <1>1, <1>2, <1>3

\* The handles on a file in S lose it, the others have the names it has now.
Follow(S) ==
    \A h \in Handles :
        \/ OpenFiles[h].st # "on" /\ OpenFiles'[h] = OpenFiles[h]
        \/ \E k \in DOMAIN fs.files :
             /\ OpenFiles[h] = Abstract!On(NamesOf(fs, k))
             /\ \/ k \in S /\ OpenFiles'[h] = Abstract!Off("lost")
                \/ k \notin S /\ OpenFiles'[h] = Abstract!On(NamesOf(fs', k))

\* A stateless call that succeeds, and one that fails and changes no file.
LEMMA ApplyHandles ==
    ASSUME Inv, NEW r, NEW S, Apply(r, S)
    PROVE  /\ fs' = r.fs /\ res' = r.res /\ torn' = torn /\ Tree(fs, Path)
           /\ r.res = "ok" => Follow(S)
           /\ r.res # "ok" /\ (\A c : NamesOf(r.fs, c) = NamesOf(fs, c)) => OpenFiles' = OpenFiles
<1>1. /\ fs' = r.fs /\ res' = r.res /\ torn' = torn
      /\ Tree(fs, Path) /\ HandleShape /\ BoundIsThere
      /\ handle' = [h \in Handles |->
                     IF r.res = "ok" /\ handle[h].open /\ handle[h].key \in S
                     THEN [handle[h] EXCEPT !.bound = FALSE] ELSE handle[h]]
  BY DEF Apply, Inv
<1>2. ASSUME NEW h \in Handles, r.res = "ok"
      PROVE  \/ OpenFiles[h].st # "on" /\ OpenFiles'[h] = OpenFiles[h]
             \/ \E k \in DOMAIN fs.files :
                  /\ OpenFiles[h] = Abstract!On(NamesOf(fs, k))
                  /\ \/ k \in S /\ OpenFiles'[h] = Abstract!Off("lost")
                     \/ k \notin S /\ OpenFiles'[h] = Abstract!On(NamesOf(fs', k))
  <2>1. PICK d : d = handle[h]
    OBVIOUS
  <2>2. PICK e : e = handle'[h]
    OBVIOUS
  <2>3. IsHandle(d) /\ OpenFiles[h] = OpenOn(fs, d) /\ OpenFiles'[h] = OpenOn(fs', e)
    BY <1>1, <2>1, <2>2, HandleViews DEF HandleShape
  <2>4. CASE d.open /\ d.key \in S
    <3>1. e = [d EXCEPT !.bound = FALSE]
      BY <1>1, <1>2, <2>1, <2>2, <2>4
    <3>2. e = [open |-> d.open, key |-> d.key, bound |-> FALSE, view |-> d.view]
      BY <2>3, <3>1, SetBound
    <3>3. e.open /\ ~e.bound
      BY <2>4, <3>2
    <3>4. OpenFiles'[h] = Abstract!Off("lost")
      BY <2>3, <3>3, HandleViews
    <3>5. CASE d.bound
      BY <1>1, <2>1, <2>3, <2>4, <3>4, <3>5, HandleViews DEF BoundIsThere
    <3>6. CASE ~d.bound
      BY <2>3, <2>4, <3>4, <3>6, HandleViews
    <3> QED BY <3>5, <3>6
  <2>5. CASE ~(d.open /\ d.key \in S)
    <3>1. e = d
      BY <1>1, <2>1, <2>2, <2>5
    <3>2. CASE d.open /\ d.bound
      BY <1>1, <2>1, <2>3, <2>5, <3>1, <3>2, HandleViews DEF BoundIsThere
    <3>3. CASE ~(d.open /\ d.bound)
      BY <2>3, <3>1, <3>3, HandleViews
    <3> QED BY <3>2, <3>3
  <2> QED BY <2>4, <2>5
<1>3. ASSUME r.res # "ok", \A c : NamesOf(r.fs, c) = NamesOf(fs, c)
      PROVE  OpenFiles' = OpenFiles
  <2>1. \A h \in Handles : handle'[h] = handle[h]
    BY <1>1, <1>3
  <2>2. \A d : OpenOn(fs', d) = OpenOn(fs, d)
    BY <1>1, <1>3 DEF OpenOn
  <2> QED BY <2>1, <2>2 DEF OpenFiles
<1> QED BY <1>1, <1>2, <1>3 DEF Follow

\* No handle loses its file and no file a name: the handles are what they were.
LEMMA StillOpen ==
    ASSUME Follow({}), \A c : NamesOf(fs', c) = NamesOf(fs, c)
    PROVE  OpenFiles' = OpenFiles
<1>1. \A h \in Handles : OpenFiles'[h] = OpenFiles[h]
  BY DEF Follow
<1> QED BY <1>1 DEF OpenFiles

\* A call that refuses changes nothing.
LEMMA RefuseStep ==
    ASSUME Inv, NEW class, class # "ok", NEW S, Apply(Refuse(fs, class), S)
    PROVE  Abstract!Fail(class)
<1>1. PICK r : r = Refuse(fs, class)
  OBVIOUS
<1>2. r.fs = fs /\ r.res = class
  BY <1>1 DEF Refuse
<1>3. fs' = fs /\ res' = class /\ torn' = torn /\ OpenFiles' = OpenFiles
  BY <1>1, <1>2, ApplyHandles
<1> QED BY <1>3 DEF Abstract!Fail

\* What a write that is not refused does to the maps.
LEMMA WriteMaps ==
    ASSUME Tree(fs, Path), NEW p \in Path, NEW v, Resolves(fs, p), p \notin fs.dirs,
           NEW u, u = WriteFile(fs, p, v).fs
    PROVE  /\ u.files = With(fs.files, Canon(fs, p), v) /\ u.links = fs.links
           /\ u.dirs = fs.dirs \union Ancestors(p)
           /\ WriteFile(fs, p, v).res = "ok"
<1>1. PICK w : w = RecordDir(fs, Parent(p))
  OBVIOUS
<1>2. /\ Tree(w, Path) /\ w.files = fs.files /\ w.links = fs.links
      /\ w.dirs = fs.dirs \union Ancestors(p)
  BY <1>1, PathIsPathSet, RecordParents
<1>3. WriteFile(fs, p, v) = [fs |-> [w EXCEPT !.files = With(@, Canon(fs, p), v)], res |-> "ok"]
  BY <1>1 DEF WriteFile, Done
<1>4. u = [w EXCEPT !.files = With(@, Canon(fs, p), v)]
  BY <1>3
<1> QED BY <1>2, <1>3, <1>4 DEF Tree, IsFs

\* Writing a file, for WriteFile and for Truncate.
LEMMA WriteAction ==
    ASSUME Tree(fs, Path), NEW p \in Path, NEW v, Resolves(fs, p), p \notin fs.dirs,
           fs'.files = With(fs.files, Canon(fs, p), v), fs'.links = fs.links,
           fs'.dirs = fs.dirs \union Ancestors(p),
           res' = "ok", torn' = torn, OpenFiles' = OpenFiles
    PROVE  Abstract!Write(p, v)
<1>1. ~Abstract!Blocked(p) /\ (p \in Abstract!Named <=> IsFileEntry(fs, p))
  BY Looking
<1>2. CASE IsFileEntry(fs, p)
  <2>1. Canon(fs, p) \in DOMAIN fs.files /\ p \in NamesOf(fs, Canon(fs, p))
    BY <1>2, OneFilePerName
  <2>2. InodesOf(fs') = {IF p \in i.names THEN Abstract!File(i.names, v) ELSE i : i \in InodesOf(fs)}
    BY <2>1, StoreInodes
  <2> QED BY <1>1, <1>2, <2>2, SameOrder DEF Abstract!Write, Abstract!Succeed
<1>3. CASE ~IsFileEntry(fs, p)
  <2>1. Canon(fs, p) = p
    BY <1>3 DEF Canon, IsFileEntry
  <2>2. fs'.files = With(fs.files, p, v)
    BY <2>1
  <2>3. PICK u : u = fs'
    OBVIOUS
  <2>4. u.files = With(fs.files, p, v) /\ u.links = fs.links
    BY <2>2, <2>3
  <2>5. InodesOf(u) = InodesOf(fs) \union {Inode(u, p)} /\ Inode(u, p) = Abstract!File({p}, v)
    BY <1>3, <2>4, CreateInode
  <2>6. InodesOf(fs') = InodesOf(fs) \union {Abstract!File({p}, v)}
    BY <2>3, <2>5
  <2> QED BY <1>1, <1>3, <2>6, SameOrder DEF Abstract!Write, Abstract!Succeed
<1> QED BY <1>2, <1>3

\* WriteFile.
LEMMA WriteRefines ==
    ASSUME Inv, NEW p \in Path, NEW v, DoWrite(p, v)
    PROVE  Abstract!Write(p, v)
<1>1. PICK r : r = WriteFile(fs, p, v)
  OBVIOUS
<1>2. Apply(r, {}) /\ Tree(fs, Path)
  BY <1>1 DEF DoWrite, Apply, Inv
<1>3. CASE ~Resolves(fs, p)
  <2>1. Abstract!Fail("notdir")
    BY <1>1, <1>2, <1>3, RefuseStep DEF WriteFile
  <2>2. Abstract!Blocked(p)
    BY <1>2, <1>3, Looking
  <2> QED BY <2>1, <2>2 DEF Abstract!Write
<1>4. CASE Resolves(fs, p) /\ p \in fs.dirs
  <2>1. Abstract!Fail("isdir")
    BY <1>1, <1>2, <1>4, RefuseStep DEF WriteFile
  <2>2. ~Abstract!Blocked(p)
    BY <1>2, <1>4, Looking
  <2> QED BY <1>4, <2>1, <2>2 DEF Abstract!Write
<1>5. CASE Resolves(fs, p) /\ p \notin fs.dirs
  <2>1. /\ r.fs.files = With(fs.files, Canon(fs, p), v) /\ r.fs.links = fs.links
        /\ r.fs.dirs = fs.dirs \union Ancestors(p) /\ r.res = "ok"
    BY <1>1, <1>2, <1>5, WriteMaps
  <2>2. fs' = r.fs /\ res' = "ok" /\ torn' = torn /\ Follow({})
    BY <1>2, <2>1, ApplyHandles
  <2>3. \A c : NamesOf(fs', c) = NamesOf(fs, c)
    BY <2>1, <2>2 DEF NamesOf
  <2>4. OpenFiles' = OpenFiles
    BY <2>2, <2>3, StillOpen
  <2> QED BY <1>2, <1>5, <2>1, <2>2, <2>4, WriteAction
<1> QED BY <1>3, <1>4, <1>5

\* MkdirAll.
LEMMA MkdirRefines ==
    ASSUME Inv, NEW p \in Path, DoMkdir(p)
    PROVE  Abstract!Mkdir(p)
<1>1. PICK r : r = MkdirAll(fs, p)
  OBVIOUS
<1>2. Apply(r, {}) /\ Tree(fs, Path)
  BY <1>1 DEF DoMkdir, Apply, Inv
<1>3. CASE ~Resolves(fs, p) \/ IsFileEntry(fs, p)
  <2>1. Abstract!Fail("notdir")
    BY <1>1, <1>2, <1>3, RefuseStep DEF MkdirAll
  <2>2. Abstract!Blocked(p) \/ p \in Abstract!Named
    BY <1>2, <1>3, Looking
  <2> QED BY <2>1, <2>2 DEF Abstract!Mkdir
<1>4. CASE Resolves(fs, p) /\ ~IsFileEntry(fs, p)
  <2>1. (Ancestors(p) \union {p}) \ {Root} = Ancestors(p) \union {p}
    BY PathIsPathSet, AncestorFacts DEF PathSet
  <2>2. r = [fs |-> [fs EXCEPT !.dirs = @ \union (Ancestors(p) \union {p})], res |-> "ok"]
    BY <1>1, <1>4, <2>1 DEF MkdirAll, Done, RecordDir
  <2>3. r.res = "ok" /\ r.fs = [fs EXCEPT !.dirs = @ \union (Ancestors(p) \union {p})]
    BY <2>2
  <2>4. /\ r.fs.files = fs.files /\ r.fs.links = fs.links
        /\ r.fs.dirs = fs.dirs \union Ancestors(p) \union {p}
    BY <1>2, <2>3 DEF Tree, IsFs
  <2>5. fs' = r.fs /\ res' = "ok" /\ torn' = torn /\ Follow({})
    BY <1>2, <2>3, ApplyHandles
  <2>6. \A c : NamesOf(fs', c) = NamesOf(fs, c) /\ Inode(fs', c) = Inode(fs, c)
    BY <2>4, <2>5 DEF NamesOf, Inode
  <2>7. OpenFiles' = OpenFiles
    BY <2>5, <2>6, StillOpen
  <2>8. InodesOf(fs') = InodesOf(fs)
    BY <2>4, <2>5, <2>6 DEF InodesOf
  <2>9. ~Abstract!Blocked(p) /\ p \notin Abstract!Named
    BY <1>2, <1>4, Looking
  <2> QED BY <2>4, <2>5, <2>7, <2>8, <2>9, SameOrder DEF Abstract!Mkdir, Abstract!Succeed
<1> QED BY <1>3, <1>4

\* Truncate.
LEMMA TruncateRefines ==
    ASSUME Inv, NEW p \in Path, NEW v, DoTruncate(p, v)
    PROVE  Abstract!Truncate(p, v)
<1>1. PICK r : r = Truncate(fs, p, v)
  OBVIOUS
<1>2. Apply(r, {}) /\ Tree(fs, Path)
  BY <1>1 DEF DoTruncate, Apply, Inv
<1>3. CASE ~Resolves(fs, p)
  <2>1. Abstract!Fail("notdir")
    BY <1>1, <1>2, <1>3, RefuseStep DEF Truncate
  <2>2. Abstract!Blocked(p)
    BY <1>2, <1>3, Looking
  <2> QED BY <2>1, <2>2 DEF Abstract!Truncate
<1>4. CASE Resolves(fs, p) /\ p \in fs.dirs
  <2>1. Abstract!Fail("isdir")
    BY <1>1, <1>2, <1>4, RefuseStep DEF Truncate
  <2>2. ~Abstract!Blocked(p)
    BY <1>2, <1>4, Looking
  <2> QED BY <1>4, <2>1, <2>2 DEF Abstract!Truncate
<1>5. CASE Resolves(fs, p) /\ p \notin fs.dirs /\ Canon(fs, p) \notin DOMAIN fs.files
  <2>1. Abstract!Fail("notexist")
    BY <1>1, <1>2, <1>5, RefuseStep DEF Truncate
  <2>2. ~Exists(fs, p)
    BY <1>2, <1>5, OneFilePerName DEF Exists
  <2>3. ~Abstract!Blocked(p) /\ ~Abstract!There(p)
    BY <1>2, <1>5, <2>2, Looking
  <2> QED BY <2>1, <2>3 DEF Abstract!Truncate
<1>6. CASE Resolves(fs, p) /\ p \notin fs.dirs /\ Canon(fs, p) \in DOMAIN fs.files
  <2>1. PICK c : c = Canon(fs, p)
    OBVIOUS
  <2>2. r.res = "ok" /\ r.fs = [fs EXCEPT !.files[c] = v]
    BY <1>1, <1>6, <2>1 DEF Truncate, Done
  <2>3. PICK f : f = [fs.files EXCEPT ![c] = v]
    OBVIOUS
  <2>4. r.fs = [files |-> f, dirs |-> fs.dirs, links |-> fs.links]
    BY <1>2, <2>2, <2>3 DEF Tree, IsFs
  <2>5. r.fs.files = f /\ r.fs.links = fs.links /\ r.fs.dirs = fs.dirs
    BY <2>4
  <2>6. f = With(fs.files, c, v)
    BY <1>6, <2>1, <2>3 DEF With
  <2>7. IsFileEntry(fs, p)
    BY <1>2, <1>6, OneFilePerName
  <2>8. Ancestors(p) \subseteq fs.dirs
    BY <1>2, <2>7 DEF Tree, IsTree, Names, IsFileEntry
  <2>9. fs' = r.fs /\ res' = "ok" /\ torn' = torn /\ Follow({})
    BY <1>2, <2>2, ApplyHandles
  <2>10. \A x : NamesOf(fs', x) = NamesOf(fs, x)
    BY <2>5, <2>9 DEF NamesOf
  <2>11. OpenFiles' = OpenFiles
    BY <2>9, <2>10, StillOpen
  <2>12. fs'.dirs = fs.dirs \union Ancestors(p)
    BY <2>5, <2>8, <2>9
  <2>13. Abstract!Write(p, v)
    BY <1>2, <1>6, <2>1, <2>5, <2>6, <2>9, <2>11, <2>12, WriteAction
  <2>14. p \in Abstract!Named
    BY <1>2, <2>7, Looking
  <2> QED BY <2>13, <2>14 DEF Abstract!Truncate
<1> QED BY <1>3, <1>4, <1>5, <1>6

\* Names taken away: the inodes ...
LEMMA LoseInodes ==
    ASSUME NEW t, NEW u, NEW S, LosesNames(t, u, S)
    PROVE  InodesOf(u) = {Abstract!File(i.names \ S, i.data)
                            : i \in {j \in InodesOf(t) : j.names \ S # {}}}
<1>1. PICK n : n = [c \in DOMAIN t.files |-> NamesOf(t, c) \ S]
  OBVIOUS
<1>2. Relabelled(t, u, n) /\ \A c \in DOMAIN t.files : n[c] = Inode(t, c).names \ S
  BY <1>1, InodeMeans DEF LosesNames
<1>3. ASSUME NEW j \in InodesOf(t), j.names \ S # {}
      PROVE  Abstract!File(j.names \ S, j.data) \in InodesOf(u)
  <2>1. PICK c \in DOMAIN t.files : j = Inode(t, c)
    BY InodeMeans
  <2>2. j.data = t.files[c] /\ n[c] = j.names \ S
    BY <1>2, <2>1, InodeMeans
  <2>3. Abstract!File(n[c], t.files[c]) \in InodesOf(u)
    BY <1>2, <1>3, <2>2, RelabelInodes
  <2> QED BY <2>2, <2>3
<1>4. ASSUME NEW i \in InodesOf(u)
      PROVE  \E j \in InodesOf(t) : j.names \ S # {} /\ i = Abstract!File(j.names \ S, j.data)
  <2>1. PICK c \in DOMAIN t.files : n[c] # {} /\ i = Abstract!File(n[c], t.files[c])
    BY <1>2, RelabelInodes
  <2>2. Inode(t, c) \in InodesOf(t) /\ Inode(t, c).data = t.files[c]
    BY InodeMeans
  <2> QED BY <1>2, <2>1, <2>2
<1> QED BY <1>3, <1>4

\* ... and the handles, which may lose their file.
LEMMA LoseHandles ==
    ASSUME NEW V, Follow(V), NEW S, LosesNames(fs, fs', S),
           \A c \in DOMAIN fs.files : c \in V <=> c \in S,
           NEW h \in Handles
    PROVE  IF OpenFiles[h].st # "on" THEN OpenFiles'[h] = OpenFiles[h]
           ELSE \/ OpenFiles'[h] = Abstract!On(OpenFiles[h].names \ S)
                \/ OpenFiles'[h] = Abstract!Off("lost") /\ OpenFiles[h].names \cap S # {}
<1>1. CASE OpenFiles[h].st # "on"
  BY <1>1, HandleViews DEF Follow
<1>2. CASE OpenFiles[h].st = "on"
  <2>1. PICK k \in DOMAIN fs.files :
             /\ OpenFiles[h] = Abstract!On(NamesOf(fs, k))
             /\ \/ k \in V /\ OpenFiles'[h] = Abstract!Off("lost")
                \/ k \notin V /\ OpenFiles'[h] = Abstract!On(NamesOf(fs', k))
    BY <1>2 DEF Follow
  <2>2. OpenFiles[h].names = NamesOf(fs, k) /\ k \in NamesOf(fs, k)
    BY <2>1, HandleViews DEF NamesOf
  <2>3. CASE k \in S
    BY <1>2, <2>1, <2>2, <2>3
  <2>4. CASE k \notin S
    <3>1. NamesOf(fs', k) = NamesOf(fs, k) \ S
      BY <2>4 DEF LosesNames
    <3> QED BY <1>2, <2>1, <2>2, <2>4, <3>1
  <2> QED BY <2>3, <2>4
<1> QED BY <1>1, <1>2

\* What Remove does when it removes something.
LEMMA RemoveMaps ==
    ASSUME Tree(fs, Path), NEW p \in Path, NEW rec \in BOOLEAN, Exists(fs, p), Resolves(fs, p),
           ~(IsDir(fs, p) /\ Children(fs, p) # {} /\ ~rec),
           NEW S, S = {x \in Names(fs) : Within(p, x)},
           NEW r, r = Remove(fs, p, rec)
    PROVE  r.res = "ok" /\ r.fs.dirs = fs.dirs \ S /\ LosesNames(fs, r.fs, S)
<1>1. p \in Paths /\ Within(p, p)
  BY PathIsPathSet, WithinOrder
<1>2. CASE IsDir(fs, p)
  <2>1. r.res = "ok" /\ r.fs = RemoveTree(fs, p)
    BY <1>2 DEF Remove, Done
  <2> QED BY <1>1, <2>1, PathIsPathSet, RemoveTreeTree, RemoveTreeNames
<1>3. CASE ~IsDir(fs, p)
  <2>1. r.res = "ok" /\ r.fs = Unlink(fs, {p})
    BY <1>3 DEF Remove, Done
  <2>2. p \in Names(fs) /\ p \notin fs.dirs
    BY <1>3, Looking DEF Exists, IsFileEntry, Names
  <2>3. \A x \in Names(fs) : Within(p, x) => x = p
    BY <1>3, PathIsPathSet, NothingBelow
  <2>4. S = {p}
    BY <1>1, <2>2, <2>3
  <2>5. r.fs.dirs = fs.dirs /\ LosesNames(fs, r.fs, {p})
    BY <2>1, UnlinkTree, UnlinkNames
  <2> QED BY <2>1, <2>2, <2>4, <2>5
<1> QED BY <1>2, <1>3

\* Remove and RemoveAll.
LEMMA RemoveRefines ==
    ASSUME Inv, NEW p \in Path, NEW rec \in BOOLEAN, DoRemove(p, rec)
    PROVE  Abstract!Remove(p, rec)
<1>1. PICK r : r = Remove(fs, p, rec)
  OBVIOUS
<1>2. Apply(r, FilesUnder(p)) /\ Tree(fs, Path)
  BY <1>1 DEF DoRemove, Apply, Inv
<1>3. CASE ~Resolves(fs, p)
  <2>1. Abstract!Fail("notdir")
    BY <1>1, <1>2, <1>3, RefuseStep DEF Remove
  <2>2. Abstract!Blocked(p)
    BY <1>2, <1>3, Looking
  <2> QED BY <2>1, <2>2 DEF Abstract!Remove, Abstract!Relabel
<1>4. CASE Resolves(fs, p) /\ ~Exists(fs, p)
  <2>1. ~Abstract!Blocked(p) /\ ~Abstract!There(p)
    BY <1>2, <1>4, Looking
  <2>2. CASE ~rec
    <3>1. Abstract!Fail("notexist")
      BY <1>1, <1>2, <1>4, <2>2, RefuseStep DEF Remove
    <3> QED BY <2>1, <2>2, <3>1 DEF Abstract!Remove, Abstract!Relabel
  <2>3. CASE rec
    <3>1. r.fs = fs /\ r.res = "ok"
      BY <1>1, <1>4, <2>3 DEF Remove, Done
    <3>2. p \notin Names(fs) /\ ~IsDir(fs, p)
      BY <1>4 DEF Exists, IsDir, IsFileEntry, Names
    <3>3. FilesUnder(p) = {}
      <4>1. \A x \in Names(fs) : ~Within(p, x)
        BY <1>2, <3>2, PathIsPathSet, NothingBelow
      <4> QED BY <4>1 DEF FilesUnder, Names
    <3>4. fs' = fs /\ res' = "ok" /\ torn' = torn /\ Follow({})
      BY <1>2, <3>1, <3>3, ApplyHandles
    <3>5. OpenFiles' = OpenFiles
      BY <3>4, StillOpen
    <3>6. Abstract!Fail("ok")
      BY <3>4, <3>5 DEF Abstract!Fail
    <3> QED BY <2>1, <2>3, <3>6 DEF Abstract!Remove, Abstract!Relabel
  <2> QED BY <2>2, <2>3
<1>5. CASE Resolves(fs, p) /\ Exists(fs, p) /\ IsDir(fs, p) /\ Children(fs, p) # {} /\ ~rec
  <2>1. Abstract!Fail("notempty")
    BY <1>1, <1>2, <1>5, RefuseStep DEF Remove
  <2>2. p \in fs.dirs /\ Abstract!Busy(p)
    BY <1>2, <1>5, Looking
  <2> QED BY <1>5, <2>1, <2>2 DEF Abstract!Remove, Abstract!Relabel
<1>6. CASE /\ Resolves(fs, p) /\ Exists(fs, p)
           /\ ~(IsDir(fs, p) /\ Children(fs, p) # {} /\ ~rec)
  <2>1. PICK S : S = {x \in Names(fs) : Within(p, x)}
    OBVIOUS
  <2>2. r.res = "ok" /\ r.fs.dirs = fs.dirs \ S /\ LosesNames(fs, r.fs, S)
    BY <1>1, <1>2, <1>6, <2>1, RemoveMaps
  <2>3. fs' = r.fs /\ res' = "ok" /\ torn' = torn /\ Follow(FilesUnder(p))
    BY <1>2, <2>2, ApplyHandles
  <2>4. S = {x \in fs.dirs \union Abstract!Named : Abstract!Under(p, x)}
    BY <1>2, <2>1, Looking, SameOrder DEF Names
  <2>5. \A c \in DOMAIN fs.files : c \in FilesUnder(p) <=> c \in S
    BY <2>1 DEF FilesUnder, Names
  <2>6. InodesOf(fs') = {Abstract!File(i.names \ S, i.data)
                           : i \in {j \in InodesOf(fs) : j.names \ S # {}}}
    BY <2>2, <2>3, LoseInodes
  <2>7. ASSUME NEW h \in Handles
        PROVE  IF OpenFiles[h].st # "on" THEN OpenFiles'[h] = OpenFiles[h]
               ELSE \/ OpenFiles'[h] = Abstract!On(OpenFiles[h].names \ S)
                    \/ OpenFiles'[h] = Abstract!Off("lost") /\ OpenFiles[h].names \cap S # {}
    BY <2>2, <2>3, <2>5, LoseHandles
  <2>8. Abstract!There(p) /\ (p \in fs.dirs /\ Abstract!Busy(p) => rec)
    BY <1>2, <1>6, Looking
  <2>9. DOMAIN OpenFiles' = Handles
    BY HandleViews
  <2> QED BY <2>2, <2>3, <2>4, <2>6, <2>7, <2>8, <2>9
          DEF Abstract!Remove, Abstract!Relabel, Abstract!Succeed
<1> QED BY <1>3, <1>4, <1>5, <1>6

\* A further name for the file of p: its inode has it, the others stay.
Linked(p, q, S) == IF p \in S THEN S \union {q} ELSE S
LinksName(t, u, p, q) ==
    /\ \A c \in DOMAIN t.files : NamesOf(u, c) = Linked(p, q, NamesOf(t, c))
    /\ InodesOf(u) = {Abstract!File(Linked(p, q, i.names), i.data)
                        : i \in {j \in InodesOf(t) : Linked(p, q, j.names) # {}}}

\* A new link names an inode there is.
LEMMA LinkInodes ==
    ASSUME NEW t, Tree(t, Path), NEW p, IsFileEntry(t, p), NEW q, ~IsFileEntry(t, q),
           NEW u, u.files = t.files, u.links = With(t.links, q, Canon(t, p))
    PROVE  LinksName(t, u, p, q)
<1>1. PICK k : k = Canon(t, p)
  OBVIOUS
<1>2. /\ k \in DOMAIN t.files
      /\ \A c \in DOMAIN t.files : p \in NamesOf(t, c) <=> c = k
  BY <1>1, OneFilePerName
<1>3. /\ DOMAIN u.links = DOMAIN t.links \union {q} /\ u.links[q] = k
      /\ q \notin DOMAIN t.links /\ \A a \in DOMAIN t.links : u.links[a] = t.links[a]
  BY <1>1 DEF With, IsFileEntry
<1>4. ASSUME NEW c \in DOMAIN t.files PROVE NamesOf(u, c) = Linked(p, q, NamesOf(t, c))
  <2>1. CASE c = k
    BY <1>2, <1>3, <2>1 DEF NamesOf, Linked
  <2>2. CASE c # k
    <3>1. NamesOf(u, c) = NamesOf(t, c)
      BY <1>3, <2>2 DEF NamesOf
    <3> QED BY <1>2, <2>2, <3>1 DEF Linked
  <2> QED BY <2>1, <2>2
<1>5. ASSUME NEW c \in DOMAIN t.files
      PROVE  /\ Linked(p, q, Inode(t, c).names) # {}
             /\ Inode(u, c) = Abstract!File(Linked(p, q, Inode(t, c).names), Inode(t, c).data)
  <2>1. c \in NamesOf(u, c)
    BY DEF NamesOf
  <2> QED BY <1>4, <2>1, InodeMeans
<1>6. ASSUME NEW i \in InodesOf(u)
      PROVE  \E j \in InodesOf(t) :
               /\ Linked(p, q, j.names) # {}
               /\ i = Abstract!File(Linked(p, q, j.names), j.data)
  <2>1. PICK c \in DOMAIN t.files : i = Inode(u, c)
    BY InodeMeans
  <2>2. Inode(t, c) \in InodesOf(t)
    BY InodeMeans
  <2> QED BY <1>5, <2>1, <2>2
<1>7. ASSUME NEW j \in InodesOf(t), Linked(p, q, j.names) # {}
      PROVE  Abstract!File(Linked(p, q, j.names), j.data) \in InodesOf(u)
  <2>1. PICK c \in DOMAIN t.files : j = Inode(t, c)
    BY InodeMeans
  <2>2. Inode(u, c) \in InodesOf(u)
    BY InodeMeans
  <2> QED BY <1>5, <2>1, <2>2
<1> QED BY <1>4, <1>6, <1>7 DEF LinksName

\* What Link does when it is not refused for a path.
LEMMA LinkMaps ==
    ASSUME Tree(fs, Path), NEW p \in Path, NEW q \in Path, Resolves(fs, p), Resolves(fs, q),
           Exists(fs, p), ~Exists(fs, q), NEW r, r = Link(fs, p, q)
    PROVE  /\ r.fs.files = fs.files /\ r.fs.dirs = fs.dirs \union Ancestors(q)
           /\ IsDir(fs, p) => r.res = "perm" /\ r.fs.links = fs.links
           /\ ~IsDir(fs, p) => r.res = "ok" /\ r.fs.links = With(fs.links, q, Canon(fs, p))
<1>1. PICK w : w = RecordDir(fs, Parent(q))
  OBVIOUS
<1>2. /\ Tree(w, Path) /\ w.files = fs.files /\ w.links = fs.links
      /\ w.dirs = fs.dirs \union Ancestors(q)
  BY <1>1, PathIsPathSet, RecordParents
<1>3. CASE IsDir(fs, p)
  <2>1. r = [fs |-> w, res |-> "perm"]
    BY <1>1, <1>3 DEF Link, Refuse
  <2> QED BY <1>2, <1>3, <2>1
<1>4. CASE ~IsDir(fs, p)
  <2>1. r = [fs |-> [w EXCEPT !.links = With(@, q, Canon(fs, p))], res |-> "ok"]
    BY <1>1, <1>4 DEF Link, Done
  <2>2. r.res = "ok" /\ r.fs = [w EXCEPT !.links = With(@, q, Canon(fs, p))]
    BY <2>1
  <2> QED BY <1>2, <1>4, <2>2 DEF Tree, IsFs
<1> QED BY <1>3, <1>4

\* Link.
LEMMA LinkRefines ==
    ASSUME Inv, NEW p \in Path, NEW q \in Path, DoLink(p, q)
    PROVE  Abstract!Link(p, q)
<1>1. PICK r : r = Link(fs, p, q)
  OBVIOUS
<1>2. Apply(r, {}) /\ Tree(fs, Path)
  BY <1>1 DEF DoLink, Apply, Inv
<1>3. CASE ~Resolves(fs, p) \/ ~Resolves(fs, q)
  <2>1. Abstract!Fail("notdir")
    BY <1>1, <1>2, <1>3, RefuseStep DEF Link
  <2>2. Abstract!Blocked(p) \/ Abstract!Blocked(q)
    BY <1>2, <1>3, Looking
  <2> QED BY <2>1, <2>2 DEF Abstract!Link, Abstract!Relabel
<1>4. CASE Resolves(fs, p) /\ Resolves(fs, q) /\ ~Exists(fs, p)
  <2>1. Abstract!Fail("notexist")
    BY <1>1, <1>2, <1>4, RefuseStep DEF Link
  <2>2. ~Abstract!Blocked(p) /\ ~Abstract!Blocked(q) /\ ~Abstract!There(p)
    BY <1>2, <1>4, Looking
  <2> QED BY <2>1, <2>2 DEF Abstract!Link, Abstract!Relabel
<1>5. CASE Resolves(fs, p) /\ Resolves(fs, q) /\ Exists(fs, p) /\ Exists(fs, q)
  <2>1. Abstract!Fail("exist")
    BY <1>1, <1>2, <1>5, RefuseStep DEF Link
  <2>2. ~Abstract!Blocked(p) /\ ~Abstract!Blocked(q) /\ Abstract!There(p) /\ Abstract!There(q)
    BY <1>2, <1>5, Looking
  <2> QED BY <2>1, <2>2 DEF Abstract!Link, Abstract!Relabel
<1>6. CASE Resolves(fs, p) /\ Resolves(fs, q) /\ Exists(fs, p) /\ ~Exists(fs, q)
  <2>1. /\ r.fs.files = fs.files /\ r.fs.dirs = fs.dirs \union Ancestors(q)
        /\ IsDir(fs, p) => r.res = "perm" /\ r.fs.links = fs.links
        /\ ~IsDir(fs, p) => r.res = "ok" /\ r.fs.links = With(fs.links, q, Canon(fs, p))
    BY <1>1, <1>2, <1>6, LinkMaps
  <2>2. /\ ~Abstract!Blocked(q) /\ ~Abstract!There(q)
        /\ p \in fs.dirs <=> IsDir(fs, p)
        /\ p \in Abstract!Named <=> IsFileEntry(fs, p)
    BY <1>2, <1>6, Looking
  <2>3. fs' = r.fs /\ res' = r.res /\ torn' = torn /\ fs'.dirs = fs.dirs \union Abstract!Above(q)
    BY <1>2, <2>1, ApplyHandles, SameOrder
  <2>4. CASE IsDir(fs, p)
    <3>1. \A c : NamesOf(r.fs, c) = NamesOf(fs, c) /\ Inode(r.fs, c) = Inode(fs, c)
      BY <2>1, <2>4 DEF NamesOf, Inode
    <3>2. OpenFiles' = OpenFiles
      BY <1>2, <2>1, <2>4, <3>1, ApplyHandles
    <3>3. InodesOf(fs') = InodesOf(fs)
      BY <2>1, <2>3, <3>1 DEF InodesOf
    <3> QED BY <2>1, <2>2, <2>3, <2>4, <3>2, <3>3 DEF Abstract!Link, Abstract!Relabel
  <2>5. CASE ~IsDir(fs, p)
    <3>1. IsFileEntry(fs, p) /\ ~IsFileEntry(fs, q)
      BY <1>6, <2>2, <2>5 DEF Exists
    <3>2. PICK u : u = fs'
      OBVIOUS
    <3>3. u.files = fs.files /\ u.links = With(fs.links, q, Canon(fs, p)) /\ r.res = "ok"
      BY <2>1, <2>3, <2>5, <3>2
    <3>4. LinksName(fs, u, p, q)
      BY <1>2, <3>1, <3>3, LinkInodes
    <3>5. Follow({})
      BY <1>2, <3>3, ApplyHandles
    <3>6. ASSUME NEW h \in Handles
          PROVE  IF OpenFiles[h].st # "on" THEN OpenFiles'[h] = OpenFiles[h]
                 ELSE OpenFiles'[h] = Abstract!On(Linked(p, q, OpenFiles[h].names))
      <4>1. CASE OpenFiles[h].st # "on"
        BY <3>5, <4>1, HandleViews DEF Follow
      <4>2. CASE OpenFiles[h].st = "on"
        <5>1. PICK k \in DOMAIN fs.files : /\ OpenFiles[h] = Abstract!On(NamesOf(fs, k))
                                           /\ OpenFiles'[h] = Abstract!On(NamesOf(fs', k))
          BY <3>5, <4>2 DEF Follow
        <5>2. OpenFiles[h].names = NamesOf(fs, k) /\ NamesOf(fs', k) = Linked(p, q, NamesOf(fs, k))
          BY <3>2, <3>4, <5>1, HandleViews DEF LinksName
        <5> QED BY <4>2, <5>1, <5>2
      <4> QED BY <4>1, <4>2
    <3>7. DOMAIN OpenFiles' = Handles
      BY HandleViews
    <3>8. Abstract!Succeed
      BY <2>3, <3>3 DEF Abstract!Succeed
    <3>9. InodesOf(fs') = {Abstract!File(Linked(p, q, i.names), i.data)
                              : i \in {j \in InodesOf(fs) : Linked(p, q, j.names) # {}}}
      BY <3>2, <3>4 DEF LinksName
    <3> QED BY <2>2, <2>3, <3>1, <3>6, <3>7, <3>8, <3>9 DEF Linked, Abstract!Link, Abstract!Relabel
  <2> QED BY <2>4, <2>5
<1> QED BY <1>3, <1>4, <1>5, <1>6

\* Names moved: the inodes ...
MovesInodes(t, u, p, q) ==
    InodesOf(u) = {Abstract!File(MoveAll(p, q, i.names \ {q}), i.data)
                     : i \in {j \in InodesOf(t) : MoveAll(p, q, j.names \ {q}) # {}}}

\* A rename keeps the inodes.
LEMMA MoveInodes ==
    ASSUME NEW t, NEW u, NEW p, NEW q, RenamesFiles(t, u, p, q)
    PROVE  MovesInodes(t, u, p, q)
<1>1. PICK n : n = [c \in DOMAIN t.files |-> MoveAll(p, q, NamesOf(t, c) \ {q})]
  OBVIOUS
<1>2. Relabelled(t, u, n) /\ \A c \in DOMAIN t.files : n[c] = MoveAll(p, q, Inode(t, c).names \ {q})
  BY <1>1, InodeMeans DEF RenamesFiles
<1>3. ASSUME NEW j \in InodesOf(t), MoveAll(p, q, j.names \ {q}) # {}
      PROVE  Abstract!File(MoveAll(p, q, j.names \ {q}), j.data) \in InodesOf(u)
  <2>1. PICK c \in DOMAIN t.files : j = Inode(t, c)
    BY InodeMeans
  <2>2. j.data = t.files[c] /\ n[c] = MoveAll(p, q, j.names \ {q})
    BY <1>2, <2>1, InodeMeans
  <2>3. Abstract!File(n[c], t.files[c]) \in InodesOf(u)
    BY <1>2, <1>3, <2>2, RelabelInodes
  <2> QED BY <2>2, <2>3
<1>4. ASSUME NEW i \in InodesOf(u)
      PROVE  \E j \in InodesOf(t) : /\ MoveAll(p, q, j.names \ {q}) # {}
                                    /\ i = Abstract!File(MoveAll(p, q, j.names \ {q}), j.data)
  <2>1. PICK c \in DOMAIN t.files : n[c] # {} /\ i = Abstract!File(n[c], t.files[c])
    BY <1>2, RelabelInodes
  <2>2. Inode(t, c) \in InodesOf(t) /\ Inode(t, c).data = t.files[c]
    BY InodeMeans
  <2> QED BY <1>2, <2>1, <2>2
<1> QED BY <1>3, <1>4 DEF MovesInodes

\* ... and the handles, which may lose their file.
LEMMA MoveHandles ==
    ASSUME NEW V, Follow(V), NEW p, NEW q, RenamesFiles(fs, fs', p, q), NEW S,
           \A c \in DOMAIN fs.files : c \in V => c \in S,
           \A c \in DOMAIN fs.files : c \notin V => c # q /\ ~Within(p, c),
           NEW h \in Handles
    PROVE  IF OpenFiles[h].st # "on" THEN OpenFiles'[h] = OpenFiles[h]
           ELSE \/ OpenFiles'[h] = Abstract!On(MoveAll(p, q, OpenFiles[h].names \ {q}))
                \/ OpenFiles'[h] = Abstract!Off("lost") /\ OpenFiles[h].names \cap S # {}
<1>1. CASE OpenFiles[h].st # "on"
  BY <1>1, HandleViews DEF Follow
<1>2. CASE OpenFiles[h].st = "on"
  <2>1. PICK k \in DOMAIN fs.files :
             /\ OpenFiles[h] = Abstract!On(NamesOf(fs, k))
             /\ \/ k \in V /\ OpenFiles'[h] = Abstract!Off("lost")
                \/ k \notin V /\ OpenFiles'[h] = Abstract!On(NamesOf(fs', k))
    BY <1>2 DEF Follow
  <2>2. OpenFiles[h].names = NamesOf(fs, k) /\ k \in NamesOf(fs, k)
    BY <2>1, HandleViews DEF NamesOf
  <2>3. CASE k \in V
    BY <1>2, <2>1, <2>2, <2>3
  <2>4. CASE k \notin V
    <3>1. NamesOf(fs', k) = MoveAll(p, q, NamesOf(fs, k) \ {q})
      BY <2>4 DEF RenamesFiles
    <3> QED BY <1>2, <2>1, <2>2, <2>4, <3>1
  <2> QED BY <2>3, <2>4
<1> QED BY <1>1, <1>2

\* Rename, which drops a name where the other is of the same file.
LEMMA MoveRefines ==
    ASSUME Inv, NEW p \in Path, NEW q \in Path, ~Within(p, q), DoRename(p, q)
    PROVE  Abstract!Move(p, q) \/ DropsLink(p, q)
<1>1. PICK r : r = Rename(fs, p, q)
  OBVIOUS
<1>2. PICK V : V = FilesUnder(p) \union ({q} \cap DOMAIN fs.files)
  OBVIOUS
<1>3. Apply(r, V) /\ Tree(fs, Path)
  BY <1>1, <1>2 DEF DoRename, Apply, Inv
<1>4. CASE ~Resolves(fs, p) \/ ~Resolves(fs, q)
  <2>1. Abstract!Fail("notdir")
    BY <1>1, <1>3, <1>4, RefuseStep DEF Rename
  <2>2. Abstract!Blocked(p) \/ Abstract!Blocked(q)
    BY <1>3, <1>4, Looking
  <2> QED BY <2>1, <2>2 DEF Abstract!Move
<1>5. CASE Resolves(fs, p) /\ Resolves(fs, q) /\ ~Exists(fs, p)
  <2>1. Abstract!Fail("notexist")
    BY <1>1, <1>3, <1>5, RefuseStep DEF Rename
  <2>2. ~Abstract!Blocked(p) /\ ~Abstract!Blocked(q) /\ ~Abstract!There(p)
    BY <1>3, <1>5, Looking
  <2> QED BY <2>1, <2>2 DEF Abstract!Move
<1>6. CASE /\ Resolves(fs, p) /\ Resolves(fs, q) /\ Exists(fs, p)
           /\ Exists(fs, q) /\ IsDir(fs, p) /\ ~IsDir(fs, q)
  <2>1. Abstract!Fail("notdir")
    BY <1>1, <1>3, <1>6, RefuseStep DEF Rename
  <2>2. p \in fs.dirs /\ q \in Abstract!Named
    BY <1>3, <1>6, Looking DEF Exists
  <2> QED BY <2>1, <2>2 DEF Abstract!Move
<1>7. CASE /\ Resolves(fs, p) /\ Resolves(fs, q) /\ Exists(fs, p)
           /\ Exists(fs, q) /\ ~IsDir(fs, p) /\ IsDir(fs, q)
  <2>1. Abstract!Fail("isdir")
    BY <1>1, <1>3, <1>7, RefuseStep DEF Rename
  <2>2. p \in Abstract!Named /\ q \in fs.dirs
    BY <1>3, <1>7, Looking DEF Exists
  <2> QED BY <2>1, <2>2 DEF Abstract!Move
<1>8. CASE /\ Resolves(fs, p) /\ Resolves(fs, q) /\ Exists(fs, p)
           /\ IsDir(fs, p) /\ IsDir(fs, q) /\ Children(fs, q) # {}
  <2>1. Abstract!Fail("notempty")
    BY <1>1, <1>3, <1>8, RefuseStep DEF Rename
  <2>2. p \in fs.dirs /\ q \in fs.dirs /\ Abstract!Busy(q)
    BY <1>3, <1>8, Looking
  <2>3. Within(p, p)
    BY PathIsPathSet, WithinOrder
  <2> QED BY <2>1, <2>2, <2>3 DEF Abstract!Move
<1>9. CASE /\ Resolves(fs, p) /\ Resolves(fs, q) /\ Exists(fs, p)
           /\ Exists(fs, q) => (IsDir(fs, p) <=> IsDir(fs, q))
           /\ ~(IsDir(fs, q) /\ Children(fs, q) # {})
  <2>1. r.res = "ok" /\ r.fs = MoveTree(RecordDir(Cleared(fs, q), Parent(q)), p, q)
    BY <1>1, <1>9 DEF Rename, Done, Cleared
  <2>2. RenamesFiles(fs, r.fs, p, q)
    BY <1>3, <1>9, <2>1, PathIsPathSet, RenameNames
  <2>3. fs' = r.fs /\ res' = "ok" /\ torn' = torn /\ Follow(V)
    BY <1>3, <2>1, ApplyHandles
  <2>4. PICK S : S = {q} \union {x \in Abstract!Named : Abstract!Under(p, x)}
    OBVIOUS
  <2>5. /\ \A c \in DOMAIN fs.files : c \in V => c \in S
        /\ \A c \in DOMAIN fs.files : c \notin V => c # q /\ ~Within(p, c)
    BY <1>2, <1>3, <2>4, Looking, SameOrder DEF FilesUnder
  <2>6. InodesOf(fs') = {Abstract!File(MoveAll(p, q, i.names \ {q}), i.data)
                           : i \in {j \in InodesOf(fs) : MoveAll(p, q, j.names \ {q}) # {}}}
    <3>1. MovesInodes(fs, r.fs, p, q)
      BY <2>2, MoveInodes
    <3> QED BY <2>3, <3>1 DEF MovesInodes
  <2>7. ASSUME NEW h \in Handles
        PROVE  IF OpenFiles[h].st # "on" THEN OpenFiles'[h] = OpenFiles[h]
               ELSE \/ OpenFiles'[h] = Abstract!On(MoveAll(p, q, OpenFiles[h].names \ {q}))
                    \/ OpenFiles'[h] = Abstract!Off("lost") /\ OpenFiles[h].names \cap S # {}
    BY <2>2, <2>3, <2>5, MoveHandles
  <2>8. /\ Abstract!There(p) /\ ~Abstract!Blocked(q) /\ ~Abstract!Under(p, q)
        /\ Abstract!There(q) => (p \in fs.dirs <=> q \in fs.dirs) /\ (q \in fs.dirs => ~Abstract!Busy(q))
    BY <1>3, <1>9, Looking, SameOrder
  <2>9. DOMAIN OpenFiles' = Handles
    BY HandleViews
  <2>10. fs'.dirs = MoveAll(p, q, (fs.dirs \ {q}) \union Abstract!Above(q))
    BY <2>2, <2>3, SameOrder DEF RenamesFiles
  <2>11. Abstract!Succeed
    BY <2>3 DEF Abstract!Succeed
  <2>12. Abstract!Replace(p, q)
    BY <2>4, <2>6, <2>7, <2>8, <2>9, <2>10, <2>11
       DEF Abstract!Replace, Abstract!Relabel, MoveAll, Remap, Within, Abstract!Under
  <2> QED BY <2>12 DEF Abstract!Move, DropsLink
<1>10. IsDir(fs, q) => Exists(fs, q)
  BY DEF IsDir, Exists
<1> QED BY <1>4, <1>5, <1>6, <1>7, <1>8, <1>9, <1>10

\* One handle changes, and no file has another name.
LEMMA OneHandle ==
    ASSUME HandleShape, NEW h \in Handles, NEW d, handle' = [handle EXCEPT ![h] = d],
           fs'.links = fs.links
    PROVE  OpenFiles' = [OpenFiles EXCEPT ![h] = OpenOn(fs', d)]
<1>1. \A c : NamesOf(fs', c) = NamesOf(fs, c)
  BY DEF NamesOf
<1>2. \A e : OpenOn(fs', e) = OpenOn(fs, e)
  BY <1>1 DEF OpenOn
<1>3. handle'[h] = d /\ \A g \in Handles : g # h => handle'[g] = handle[g]
  BY DEF HandleShape
<1>4. OpenFiles'[h] = OpenOn(fs', d) /\ \A g \in Handles : g # h => OpenFiles'[g] = OpenFiles[g]
  BY <1>2, <1>3, HandleViews
<1>5. /\ OpenFiles = [g \in Handles |-> OpenFiles[g]]
      /\ OpenFiles' = [g \in Handles |-> OpenFiles'[g]]
  BY DEF OpenFiles
<1> QED BY <1>4, <1>5

\* Opening the file at p, as it is or with a content stored.
LEMMA OpenAction ==
    ASSUME Tree(fs, Path), HandleShape, NEW h \in Handles, NEW p \in Path,
           Resolves(fs, p), p \notin fs.dirs, NEW c, c = Canon(fs, p),
           fs'.links = fs.links, fs'.dirs = fs.dirs \union Ancestors(p),
           \/ c \in DOMAIN fs.files /\ fs'.files = fs.files
           \/ \E v \in Content : fs'.files = With(fs.files, c, v),
           NEW d, d.open, d.bound, d.key = c, handle' = [handle EXCEPT ![h] = d],
           res' = "ok", torn' = torn
    PROVE  Abstract!Open(h, p)
<1>1. ~Abstract!Blocked(p) /\ (p \in Abstract!Named <=> IsFileEntry(fs, p))
  BY Looking
<1>2. fs'.dirs = fs.dirs \union Abstract!Above(p)
  BY SameOrder
<1>3. \A x : NamesOf(fs', x) = NamesOf(fs, x)
  BY DEF NamesOf
<1>4. p \in NamesOf(fs, c) /\ (IsFileEntry(fs, p) <=> c \in DOMAIN fs.files)
  <2>1. p \in NamesOf(fs, c)
    BY DEF NamesOf, Canon
  <2> QED BY <2>1, OneFilePerName
<1>5. c \in DOMAIN fs'.files
  BY DEF With
<1>6. \E i \in InodesOf(fs') :
        p \in i.names /\ OpenFiles' = [OpenFiles EXCEPT ![h] = Abstract!On(i.names)]
  <2>1. PICK i : i = Inode(fs', c)
    OBVIOUS
  <2>2. i \in InodesOf(fs') /\ i.names = NamesOf(fs', c)
    BY <1>5, <2>1, InodeMeans
  <2>3. OpenOn(fs', d) = Abstract!On(i.names)
    BY <2>2, HandleViews
  <2>4. OpenFiles' = [OpenFiles EXCEPT ![h] = Abstract!On(i.names)]
    BY <2>3, OneHandle
  <2> QED BY <1>3, <1>4, <2>2, <2>4
<1>7. \/ p \in Abstract!Named /\ InodesOf(fs') = InodesOf(fs)
      \/ \E v \in Content : \E i \in InodesOf(fs) : p \in i.names /\
           InodesOf(fs') = (InodesOf(fs) \ {i}) \union {Abstract!File(i.names, v)}
      \/ \E v \in Content : p \notin Abstract!Named /\
           InodesOf(fs') = InodesOf(fs) \union {Abstract!File({p}, v)}
  <2>1. PICK u : u = fs'
    OBVIOUS
  <2>2. CASE c \in DOMAIN fs.files /\ fs'.files = fs.files
    <3>1. \A x : Inode(fs', x) = Inode(fs, x)
      BY <1>3, <2>2 DEF Inode
    <3> QED BY <1>1, <1>4, <2>2, <3>1 DEF InodesOf
  <2>3. ASSUME NEW v \in Content, fs'.files = With(fs.files, c, v), c \in DOMAIN fs.files
        PROVE  \E i \in InodesOf(fs) : p \in i.names /\
                 InodesOf(fs') = (InodesOf(fs) \ {i}) \union {Abstract!File(i.names, v)}
    <3>1. PICK i : i = Inode(fs, c)
      OBVIOUS
    <3>2. i \in InodesOf(fs) /\ i.names = NamesOf(fs, c)
      BY <2>3, <3>1, InodeMeans
    <3>3. u.files = With(fs.files, c, v) /\ u.links = fs.links
      BY <2>1, <2>3
    <3>4. InodesOf(u) = (InodesOf(fs) \ {Inode(fs, c)}) \union {Abstract!File(NamesOf(fs, c), v)}
      BY <2>3, <3>3, StoreInodes
    <3> QED BY <1>4, <2>1, <3>1, <3>2, <3>4
  <2>4. ASSUME NEW v \in Content, fs'.files = With(fs.files, c, v), c \notin DOMAIN fs.files
        PROVE  /\ p \notin Abstract!Named
               /\ InodesOf(fs') = InodesOf(fs) \union {Abstract!File({p}, v)}
    <3>1. ~IsFileEntry(fs, p)
      BY <1>4, <2>4
    <3>2. c = p
      BY <3>1 DEF Canon, IsFileEntry
    <3>3. u.files = With(fs.files, p, v) /\ u.links = fs.links
      BY <2>1, <2>4, <3>2
    <3>4. InodesOf(u) = InodesOf(fs) \union {Inode(u, p)} /\ Inode(u, p) = Abstract!File({p}, v)
      BY <3>1, <3>3, CreateInode
    <3> QED BY <1>1, <2>1, <3>1, <3>4
  <2> QED BY <2>2, <2>3, <2>4
<1> QED BY <1>1, <1>2, <1>6, <1>7 DEF Abstract!Open, Abstract!Succeed

\* OpenFile.
LEMMA OpenRefines ==
    ASSUME Inv, NEW h \in Handles, NEW p \in Path, NEW o \in OpenOpts, DoOpen(h, p, o)
    PROVE  Abstract!Open(h, p)
<1>1. ~torn /\ Tree(fs, Path) /\ HandleShape /\ torn' = torn
  BY DEF DoOpen, Inv
<1>2. PICK c : c = Canon(fs, p)
  OBVIOUS
<1>3. CASE res' # "ok"
  <2>1. /\ fs' = fs /\ handle' = handle
        /\ \/ res' = "notdir" /\ ~Resolves(fs, p)
           \/ res' = "isdir" /\ p \in fs.dirs
           \/ res' = "exist" /\ c \in DOMAIN fs.files
           \/ res' = "notexist" /\ p \notin fs.dirs /\ c \notin DOMAIN fs.files
    BY <1>2, <1>3 DEF DoOpen
  <2>2. OpenFiles' = OpenFiles
    BY <2>1 DEF OpenFiles
  <2>3. \A class : res' = class => Abstract!Fail(class)
    BY <1>1, <2>1, <2>2 DEF Abstract!Fail
  <2>4. CASE res' = "notdir" /\ ~Resolves(fs, p)
    <3>1. Abstract!Blocked(p)
      BY <1>1, <2>4, Looking
    <3> QED BY <2>3, <2>4, <3>1 DEF Abstract!Open
  <2>5. CASE res' = "isdir" /\ p \in fs.dirs
    BY <2>3, <2>5 DEF Abstract!Open
  <2>6. CASE res' = "exist" /\ c \in DOMAIN fs.files
    <3>1. IsFileEntry(fs, p)
      BY <1>1, <1>2, <2>6, OneFilePerName
    <3>2. p \in Abstract!Named
      BY <1>1, <3>1, Looking
    <3> QED BY <2>3, <2>6, <3>2 DEF Abstract!Open
  <2>7. CASE res' = "notexist" /\ p \notin fs.dirs /\ c \notin DOMAIN fs.files
    <3>1. ~Exists(fs, p)
      BY <1>1, <1>2, <2>7, OneFilePerName DEF Exists
    <3>2. ~Abstract!There(p)
      BY <1>1, <3>1, Looking
    <3> QED BY <2>3, <2>7, <3>2 DEF Abstract!Open
  <2> QED BY <2>1, <2>4, <2>5, <2>6, <2>7
<1>4. CASE res' = "ok"
  <2>1. PICK d : d = [open |-> TRUE, key |-> c, bound |-> TRUE, view |-> None]
    OBVIOUS
  <2>2. d.open /\ d.bound /\ d.key = c
    BY <2>1
  <2>3. /\ Resolves(fs, p) /\ p \notin fs.dirs /\ handle' = [handle EXCEPT ![h] = d]
        /\ \/ fs' = WriteFile(fs, p, Empty).fs
           \/ fs' = fs /\ c \in DOMAIN fs.files
    BY <1>2, <1>4, <2>1 DEF DoOpen
  <2>4. /\ fs'.links = fs.links /\ fs'.dirs = fs.dirs \union Ancestors(p)
        /\ \/ c \in DOMAIN fs.files /\ fs'.files = fs.files
           \/ \E v \in Content : fs'.files = With(fs.files, c, v)
    <3>1. CASE fs' = WriteFile(fs, p, Empty).fs
      <4>1. PICK u : u = WriteFile(fs, p, Empty).fs
        OBVIOUS
      <4>2. /\ u.files = With(fs.files, c, Empty) /\ u.links = fs.links
            /\ u.dirs = fs.dirs \union Ancestors(p)
        BY <1>1, <1>2, <2>3, <4>1, WriteMaps
      <4> QED BY <3>1, <4>1, <4>2, MemFilesAssumption
    <3>2. CASE fs' = fs /\ c \in DOMAIN fs.files
      <4>1. IsFileEntry(fs, p)
        BY <1>1, <1>2, <3>2, OneFilePerName
      <4>2. Ancestors(p) \subseteq fs.dirs
        BY <1>1, <4>1 DEF Tree, IsTree, Names, IsFileEntry
      <4> QED BY <3>2, <4>2
    <3> QED BY <2>3, <3>1, <3>2
  <2> QED BY <1>1, <1>2, <1>4, <2>2, <2>3, <2>4, OpenAction
<1> QED BY <1>3, <1>4

\* Mmap.
LEMMA MmapRefines ==
    ASSUME Inv, NEW h \in Handles, NEW p \in Path, DoMmap(h, p)
    PROVE  Abstract!Open(h, p)
<1>1. ~torn /\ Tree(fs, Path) /\ HandleShape /\ torn' = torn /\ fs' = fs /\ res' = "ok"
  BY DEF DoMmap, Inv
<1>2. PICK c : c = Canon(fs, p)
  OBVIOUS
<1>3. PICK d : d = [open |-> TRUE, key |-> c, bound |-> TRUE, view |-> ReadFile(fs, p)]
  OBVIOUS
<1>4. /\ handle' = [handle EXCEPT ![h] = d] /\ c \in DOMAIN fs.files
      /\ Resolves(fs, p) /\ p \notin fs.dirs
  BY <1>2, <1>3 DEF DoMmap, Readable
<1>5. d.open /\ d.bound /\ d.key = c
  BY <1>3
<1>6. IsFileEntry(fs, p)
  BY <1>1, <1>2, <1>4, OneFilePerName
<1>7. Ancestors(p) \subseteq fs.dirs
  BY <1>1, <1>6 DEF Tree, IsTree, Names, IsFileEntry
<1> QED BY <1>1, <1>2, <1>4, <1>5, <1>7, OpenAction

\* What a store through a handle does: on its file, or through a lost handle.
LEMMA StoreRefines ==
    ASSUME Inv, ~torn, torn \in BOOLEAN, NEW h \in Handles, handle[h].open, NEW v, Store(h, v)
    PROVE  Abstract!HandleStore(h, v) /\ fs'.links = fs.links
<1>1. Tree(fs, Path) /\ HandleShape /\ BoundIsThere
  BY DEF Inv
<1>2. PICK d : d = handle[h]
  OBVIOUS
<1>3. fs' = [fs EXCEPT !.files = With(@, d.key, v)] /\ torn' = ~d.bound /\ d.open
  BY <1>2 DEF Store
<1>4. PICK f : f = With(fs.files, d.key, v)
  OBVIOUS
<1>5. fs' = [files |-> f, dirs |-> fs.dirs, links |-> fs.links]
  BY <1>1, <1>3, <1>4 DEF Tree, IsFs
<1>6. PICK u : u = fs'
  OBVIOUS
<1>7. u.files = f /\ u.dirs = fs.dirs /\ u.links = fs.links
  BY <1>5, <1>6
<1>8. OpenFiles[h] = OpenOn(fs, d)
  BY <1>2, HandleViews
<1>9. CASE d.bound
  <2>1. d.key \in DOMAIN fs.files
    BY <1>1, <1>2, <1>3, <1>9 DEF BoundIsThere
  <2>2. OpenFiles[h].st = "on" /\ OpenFiles[h].names = NamesOf(fs, d.key)
    BY <1>3, <1>8, <1>9, HandleViews
  <2>3. u.files = With(fs.files, d.key, v)
    BY <1>4, <1>7
  <2>4. InodesOf(u) = {IF i.names = NamesOf(fs, d.key) THEN Abstract!File(i.names, v) ELSE i
                         : i \in InodesOf(fs)}
    BY <1>1, <1>7, <2>1, <2>3, StoreInodes
  <2>5. torn' = torn
    BY <1>3, <1>9
  <2> QED BY <1>6, <1>7, <2>2, <2>4, <2>5 DEF Abstract!HandleStore
<1>10. CASE ~d.bound
  <2>1. OpenFiles[h].st = "lost"
    BY <1>3, <1>8, <1>10, HandleViews
  <2>2. torn'
    BY <1>3, <1>10
  <2> QED BY <1>6, <1>7, <2>1, <2>2 DEF Abstract!HandleStore
<1> QED BY <1>9, <1>10

\* Writing through a handle and flushing a map.
LEMMA WriteBackRefines ==
    ASSUME Inv, torn \in BOOLEAN, NEW h \in Handles, NEW v, Store(h, v),
           ~torn, handle[h].open, res' = "ok", handle' = handle
    PROVE  Abstract!HandleWrite(h, v)
<1>1. Abstract!HandleStore(h, v) /\ fs'.links = fs.links
  BY StoreRefines
<1>2. \A c : NamesOf(fs', c) = NamesOf(fs, c)
  BY <1>1 DEF NamesOf
<1>3. OpenFiles' = OpenFiles
  BY <1>2 DEF OpenFiles, OpenOn
<1> QED BY <1>1, <1>3 DEF Abstract!HandleWrite

\* The bytes of a map are no part of the files.
LEMMA ViewRefines ==
    ASSUME Inv, NEW h \in Handles, NEW v, StoreView(h, v)
    PROVE  UNCHANGED Abstract!vars
<1>1. ~torn /\ HandleShape /\ fs' = fs /\ res' = res /\ torn' = torn
  BY DEF StoreView, Inv
<1>2. PICK d : d = handle[h]
  OBVIOUS
<1>3. PICK n : n = [d EXCEPT !.view = v]
  OBVIOUS
<1>4. IsHandle(d)
  BY <1>1, <1>2 DEF HandleShape
<1>5. n = [open |-> d.open, key |-> d.key, bound |-> d.bound, view |-> v]
  BY <1>3, <1>4 DEF IsHandle
<1>6. handle' = [handle EXCEPT ![h] = n]
  BY <1>2, <1>3 DEF StoreView
<1>7. OpenOn(fs, n) = OpenOn(fs, d)
  BY <1>5 DEF OpenOn
<1>8. OpenFiles' = [OpenFiles EXCEPT ![h] = OpenOn(fs', n)]
  BY <1>1, <1>6, OneHandle
<1>9. OpenFiles[h] = OpenOn(fs, d) /\ OpenFiles = [g \in Handles |-> OpenFiles[g]]
  BY <1>2 DEF OpenFiles
<1>10. OpenFiles' = OpenFiles
  BY <1>1, <1>7, <1>8, <1>9
<1> QED BY <1>1, <1>10 DEF Abstract!vars

\* Contents and mapped bytes are contents.
Holds(t) == \A c \in DOMAIN t.files : t.files[c] \in Content
DataInv ==
    /\ torn \in BOOLEAN
    /\ ~torn => Holds(fs) /\ \A h \in Handles : handle[h].view \in Content \union {None}

\* Close.
LEMMA CloseRefines ==
    ASSUME Inv, DataInv, NEW h \in Handles, DoClose(h)
    PROVE  Abstract!Close(h)
<1>1. /\ ~torn /\ handle[h].open /\ handle' = [handle EXCEPT ![h] = Closed] /\ res' = res
      /\ HandleShape /\ torn \in BOOLEAN /\ handle[h].view \in Content \union {None}
  BY DEF DoClose, Inv, DataInv
<1>2. /\ fs'.links = fs.links
      /\ \/ UNCHANGED <<fs.dirs, InodesOf(fs), torn>>
         \/ \E v \in Content : Abstract!HandleStore(h, v)
  <2>1. CASE handle[h].view # None
    <3>1. Store(h, handle[h].view) /\ handle[h].view \in Content
      BY <1>1, <2>1 DEF DoClose
    <3> QED BY <1>1, <3>1, StoreRefines
  <2>2. CASE handle[h].view = None
    <3>1. fs' = fs /\ torn' = torn
      BY <2>2 DEF DoClose
    <3> QED BY <3>1
  <2> QED BY <2>1, <2>2
<1>3. OpenOn(fs', Closed) = Abstract!Off("closed")
  BY HandleViews DEF Closed
<1>4. OpenFiles' = [OpenFiles EXCEPT ![h] = Abstract!Off("closed")]
  BY <1>1, <1>2, <1>3, OneHandle
<1> QED BY <1>1, <1>2, <1>4 DEF Abstract!Close

\* Storing a content, relabelling files.
LEMMA HoldsFacts ==
    /\ \A t, u : Holds(t) /\ u.files = t.files => Holds(u)
    /\ \A t, u, c : \A v \in Content : Holds(t) /\ u.files = With(t.files, c, v) => Holds(u)
    /\ \A t, u, n : Holds(t) /\ Relabelled(t, u, n) => Holds(u)
<1>1. \A t, u : Holds(t) /\ u.files = t.files => Holds(u)
  BY DEF Holds
<1>2. \A t, u, c : \A v \in Content : Holds(t) /\ u.files = With(t.files, c, v) => Holds(u)
  BY DEF Holds, With
<1>3. \A t, u, n : Holds(t) /\ Relabelled(t, u, n) => Holds(u)
  BY DEF Holds, Relabelled
<1> QED BY <1>1, <1>2, <1>3

\* A stateless call changes no mapped bytes.
LEMMA ApplyData ==
    ASSUME Inv, DataInv, NEW r, NEW S, Apply(r, S), Holds(r.fs)
    PROVE  DataInv'
<1>1. /\ HandleShape /\ fs' = r.fs /\ torn' = torn /\ torn \in BOOLEAN
      /\ \A h \in Handles : handle[h].view \in Content \union {None}
      /\ handle' = [h \in Handles |->
                     IF r.res = "ok" /\ handle[h].open /\ handle[h].key \in S
                     THEN [handle[h] EXCEPT !.bound = FALSE] ELSE handle[h]]
  BY DEF Apply, Inv, DataInv
<1>2. ASSUME NEW h \in Handles PROVE handle'[h].view = handle[h].view
  <2>1. PICK d : d = handle[h]
    OBVIOUS
  <2>2. IsHandle(d) /\ (handle'[h] = [d EXCEPT !.bound = FALSE] \/ handle'[h] = d)
    BY <1>1, <2>1 DEF HandleShape
  <2>3. [d EXCEPT !.bound = FALSE].view = d.view
    BY <2>2, SetBound
  <2> QED BY <2>1, <2>2, <2>3
<1> QED BY <1>1, <1>2 DEF DataInv

\* The calls that only add, for GrowingStep's four.
LEMMA GrowingData ==
    ASSUME Inv, DataInv, NEW p \in Path,
           \/ \E v \in Content : DoWrite(p, v)
           \/ DoMkdir(p)
           \/ DoTruncate(p, Empty)
           \/ \E q \in Path : DoLink(p, q)
    PROVE  DataInv'
<1>1. PICK r : /\ Apply(r, {})
               /\ \/ \E v \in Content : r = WriteFile(fs, p, v)
                  \/ r = MkdirAll(fs, p)
                  \/ r = Truncate(fs, p, Empty)
                  \/ \E q \in Path : r = Link(fs, p, q)
  BY DEF DoWrite, DoMkdir, DoTruncate, DoLink
<1>2. Tree(fs, Path) /\ Holds(fs)
  BY <1>1 DEF Inv, DataInv, Apply
<1>3. CASE r.fs = fs
  BY <1>1, <1>2, <1>3, ApplyData
<1>4. ASSUME NEW v \in Content, r = WriteFile(fs, p, v), Resolves(fs, p), p \notin fs.dirs
      PROVE  DataInv'
  <2>1. r.fs.files = With(fs.files, Canon(fs, p), v)
    BY <1>2, <1>4, WriteMaps
  <2>2. Holds(r.fs)
    BY <1>2, <2>1, HoldsFacts
  <2> QED BY <1>1, <2>2, ApplyData
<1>5. ASSUME r.fs = RecordDir(fs, p) PROVE DataInv'
  <2>1. r.fs.files = fs.files
    BY <1>2, <1>5 DEF RecordDir, Tree, IsFs
  <2>2. Holds(r.fs)
    BY <1>2, <2>1, HoldsFacts
  <2> QED BY <1>1, <2>2, ApplyData
<1>6. ASSUME Canon(fs, p) \in DOMAIN fs.files, r.fs = [fs EXCEPT !.files[Canon(fs, p)] = Empty]
      PROVE  DataInv'
  <2>1. PICK c : c = Canon(fs, p)
    OBVIOUS
  <2>2. PICK f : f = [fs.files EXCEPT ![c] = Empty]
    OBVIOUS
  <2>3. r.fs = [files |-> f, dirs |-> fs.dirs, links |-> fs.links]
    BY <1>2, <1>6, <2>1, <2>2 DEF Tree, IsFs
  <2>4. r.fs.files = With(fs.files, c, Empty)
    BY <1>6, <2>1, <2>2, <2>3 DEF With
  <2>5. Holds(r.fs)
    BY <1>2, <2>4, MemFilesAssumption, HoldsFacts
  <2> QED BY <1>1, <2>5, ApplyData
<1>7. ASSUME NEW q \in Path, r = Link(fs, p, q), Resolves(fs, p), Resolves(fs, q),
             Exists(fs, p), ~Exists(fs, q)
      PROVE  DataInv'
  <2>1. r.fs.files = fs.files
    BY <1>2, <1>7, LinkMaps
  <2>2. Holds(r.fs)
    BY <1>2, <2>1, HoldsFacts
  <2> QED BY <1>1, <2>2, ApplyData
<1>8. \A v \in Content : r = WriteFile(fs, p, v) => DataInv'
  BY <1>3, <1>4 DEF WriteFile, Refuse
<1>9. r = MkdirAll(fs, p) => DataInv'
  BY <1>3, <1>5 DEF MkdirAll, Refuse, Done
<1>10. r = Truncate(fs, p, Empty) => DataInv'
  BY <1>3, <1>6 DEF Truncate, Refuse, Done
<1>11. \A q \in Path : r = Link(fs, p, q) => DataInv'
  BY <1>3, <1>7 DEF Link, Refuse
<1> QED BY <1>1, <1>8, <1>9, <1>10, <1>11

\* The two that take names away or move them.
LEMMA RemoveData ==
    ASSUME Inv, DataInv, NEW p \in Path, NEW rec \in BOOLEAN, DoRemove(p, rec)
    PROVE  DataInv'
<1>1. PICK r : r = Remove(fs, p, rec)
  OBVIOUS
<1>2. Apply(r, FilesUnder(p)) /\ Tree(fs, Path) /\ Holds(fs)
  BY <1>1 DEF DoRemove, Inv, DataInv, Apply
<1>3. CASE r.fs = fs
  BY <1>2, <1>3, ApplyData
<1>4. CASE /\ Exists(fs, p) /\ Resolves(fs, p)
           /\ ~(IsDir(fs, p) /\ Children(fs, p) # {} /\ ~rec)
  <2>1. PICK S : S = {x \in Names(fs) : Within(p, x)}
    OBVIOUS
  <2>2. LosesNames(fs, r.fs, S)
    BY <1>1, <1>2, <1>4, <2>1, RemoveMaps
  <2>3. Holds(r.fs)
    BY <1>2, <2>2, HoldsFacts DEF LosesNames
  <2> QED BY <1>2, <2>3, ApplyData
<1> QED BY <1>1, <1>3, <1>4 DEF Remove, Refuse, Done

\* Rename.
LEMMA RenameData ==
    ASSUME Inv, DataInv, NEW p \in Path, NEW q \in Path, ~Within(p, q), DoRename(p, q)
    PROVE  DataInv'
<1>1. PICK r : r = Rename(fs, p, q)
  OBVIOUS
<1>2. PICK S : S = FilesUnder(p) \union ({q} \cap DOMAIN fs.files)
  OBVIOUS
<1>3. Apply(r, S) /\ Tree(fs, Path) /\ Holds(fs)
  BY <1>1, <1>2 DEF DoRename, Inv, DataInv, Apply
<1>4. CASE r.fs = fs
  BY <1>3, <1>4, ApplyData
<1>5. CASE /\ Resolves(fs, q) /\ ~(IsDir(fs, q) /\ Children(fs, q) # {})
           /\ r.fs = MoveTree(RecordDir(Cleared(fs, q), Parent(q)), p, q)
  <2>1. RenamesFiles(fs, r.fs, p, q)
    BY <1>3, <1>5, PathIsPathSet, RenameNames
  <2>2. Holds(r.fs)
    BY <1>3, <2>1, HoldsFacts DEF RenamesFiles
  <2> QED BY <1>3, <2>2, ApplyData
<1> QED BY <1>1, <1>4, <1>5 DEF Rename, Refuse, Done, Cleared

\* One handle changes; a content may be stored.
LEMMA HandleData ==
    ASSUME Inv, DataInv, ~torn, NEW h \in Handles, NEW d, handle' = [handle EXCEPT ![h] = d],
           d.view \in Content \union {None}, torn' \in BOOLEAN, ~torn' => Holds(fs')
    PROVE  DataInv'
<1>1. HandleShape /\ \A g \in Handles : handle[g].view \in Content \union {None}
  BY DEF Inv, DataInv
<1>2. \A g \in Handles : handle'[g] = IF g = h THEN d ELSE handle[g]
  BY <1>1 DEF HandleShape
<1> QED BY <1>1, <1>2 DEF DataInv

\* OpenFile.
LEMMA OpenData ==
    ASSUME Inv, DataInv, NEW h \in Handles, NEW p \in Path, NEW o \in OpenOpts, DoOpen(h, p, o)
    PROVE  DataInv'
<1>1. ~torn /\ torn' = torn /\ torn \in BOOLEAN /\ Tree(fs, Path) /\ Holds(fs)
  BY DEF DoOpen, Inv, DataInv
<1>2. CASE fs' = fs /\ handle' = handle
  BY <1>1, <1>2 DEF DataInv
<1>3. CASE ~(fs' = fs /\ handle' = handle)
  <2>1. PICK d : d = [open |-> TRUE, key |-> Canon(fs, p), bound |-> TRUE, view |-> None]
    OBVIOUS
  <2>2. /\ Resolves(fs, p) /\ p \notin fs.dirs /\ handle' = [handle EXCEPT ![h] = d]
        /\ fs' = WriteFile(fs, p, Empty).fs \/ fs' = fs
    BY <1>3, <2>1 DEF DoOpen
  <2>3. d.view = None
    BY <2>1
  <2>4. Holds(fs')
    <3>1. PICK u : u = WriteFile(fs, p, Empty).fs
      OBVIOUS
    <3>2. u.files = With(fs.files, Canon(fs, p), Empty)
      BY <1>1, <2>2, <3>1, WriteMaps
    <3>3. Holds(u)
      BY <1>1, <3>2, MemFilesAssumption, HoldsFacts
    <3> QED BY <1>1, <2>2, <3>1, <3>3
  <2> QED BY <1>1, <2>2, <2>3, <2>4, HandleData
<1> QED BY <1>2, <1>3

\* Mmap.
LEMMA MmapData ==
    ASSUME Inv, DataInv, NEW h \in Handles, NEW p \in Path, DoMmap(h, p)
    PROVE  DataInv'
<1>1. ~torn /\ torn' = torn /\ torn \in BOOLEAN /\ Holds(fs) /\ fs' = fs
  BY DEF DoMmap, DataInv
<1>2. PICK d : d = [open |-> TRUE, key |-> Canon(fs, p), bound |-> TRUE, view |-> ReadFile(fs, p)]
  OBVIOUS
<1>3. handle' = [handle EXCEPT ![h] = d] /\ Canon(fs, p) \in DOMAIN fs.files
  BY <1>2 DEF DoMmap, Readable
<1>4. d.view \in Content
  BY <1>1, <1>2, <1>3 DEF ReadFile, Holds
<1> QED BY <1>1, <1>3, <1>4, HandleData

\* A write to the mapped bytes.
LEMMA ViewData ==
    ASSUME Inv, DataInv, NEW h \in Handles, NEW v \in Content, StoreView(h, v)
    PROVE  DataInv'
<1>1. ~torn /\ torn' = torn /\ torn \in BOOLEAN /\ Holds(fs) /\ fs' = fs /\ HandleShape
  BY DEF StoreView, DataInv, Inv
<1>2. PICK c : c = handle[h]
  OBVIOUS
<1>3. PICK d : d = [c EXCEPT !.view = v]
  OBVIOUS
<1>4. IsHandle(c)
  BY <1>1, <1>2 DEF HandleShape
<1>5. d.view = v
  BY <1>3, <1>4 DEF IsHandle
<1>6. handle' = [handle EXCEPT ![h] = d]
  BY <1>2, <1>3 DEF StoreView
<1> QED BY <1>1, <1>5, <1>6, HandleData

\* Stores through a handle.
LEMMA StoreData ==
    ASSUME Inv, DataInv, ~torn, NEW h \in Handles, NEW v \in Content, Store(h, v)
    PROVE  torn' \in BOOLEAN /\ Holds(fs')
<1>1. Tree(fs, Path) /\ Holds(fs)
  BY DEF Inv, DataInv
<1>2. PICK k : k = handle[h].key
  OBVIOUS
<1>3. fs' = [fs EXCEPT !.files = With(@, k, v)] /\ torn' \in BOOLEAN
  BY <1>2 DEF Store
<1>4. PICK f : f = With(fs.files, k, v)
  OBVIOUS
<1>5. fs' = [files |-> f, dirs |-> fs.dirs, links |-> fs.links]
  BY <1>1, <1>3, <1>4 DEF Tree, IsFs
<1>6. PICK u : u = fs'
  OBVIOUS
<1>7. u.files = With(fs.files, k, v)
  BY <1>4, <1>5, <1>6
<1>8. Holds(u)
  BY <1>1, <1>7, HoldsFacts
<1> QED BY <1>3, <1>6, <1>8

\* Sync, and the write-back of a mapping.
LEMMA WriteBackData ==
    ASSUME Inv, DataInv, NEW h \in Handles, NEW v \in Content, ~torn, Store(h, v), handle' = handle
    PROVE  DataInv'
<1>1. torn' \in BOOLEAN /\ Holds(fs')
  BY StoreData
<1> QED BY <1>1 DEF DataInv

\* Close.
LEMMA CloseData ==
    ASSUME Inv, DataInv, NEW h \in Handles, DoClose(h)
    PROVE  DataInv'
<1>1. /\ ~torn /\ torn \in BOOLEAN /\ Holds(fs) /\ handle' = [handle EXCEPT ![h] = Closed]
      /\ handle[h].view \in Content \union {None}
  BY DEF DoClose, DataInv
<1>2. torn' \in BOOLEAN /\ Holds(fs')
  <2>1. CASE handle[h].view # None
    <3>1. Store(h, handle[h].view) /\ handle[h].view \in Content
      BY <1>1, <2>1 DEF DoClose
    <3> QED BY <1>1, <3>1, StoreData
  <2>2. CASE handle[h].view = None
    BY <1>1, <2>2 DEF DoClose
  <2> QED BY <2>1, <2>2
<1>3. Closed.view = None
  BY DEF Closed
<1> QED BY <1>1, <1>2, <1>3, HandleData

\* Nothing is there and no handle is open.
LEMMA InitRefines == Init => Abstract!Init /\ DataInv
<1> SUFFICES ASSUME Init PROVE Abstract!Init /\ DataInv
  OBVIOUS
<1>1. fs.files = << >> /\ fs.dirs = {} /\ torn = FALSE /\ res = "ok"
  BY DEF Init, EmptyTree
<1>2. InodesOf(fs) = {} /\ Holds(fs)
  BY <1>1 DEF InodesOf, Holds
<1>3. Closed.view = None /\ ~Closed.open
  BY DEF Closed
<1>4. \A h \in Handles : handle[h] = Closed
  BY DEF Init
<1>5. \A h \in Handles : OpenOn(fs, handle[h]) = Abstract!Off("closed")
  BY <1>3, <1>4, HandleViews
<1>6. OpenFiles = [h \in Handles |-> Abstract!Off("closed")]
  BY <1>5 DEF OpenFiles
<1>7. Abstract!Init
  BY <1>1, <1>2, <1>6 DEF Abstract!Init
<1>8. DataInv
  BY <1>1, <1>2, <1>3, <1>4 DEF DataInv
<1> QED BY <1>7, <1>8

\* Contents stay contents.
LEMMA NextData ==
    ASSUME NoSelfMove, Inv, DataInv, [Next]_vars
    PROVE  DataInv'
<1>1. ASSUME NEW m \in Moves, DoRename(m[1], m[2]) PROVE DataInv'
  <2>1. m[1] \in Path /\ m[2] \in Path /\ ~Within(m[1], m[2])
    BY MemFilesAssumption DEF NoSelfMove
  <2> QED BY <1>1, <2>1, RenameData
<1>2. ASSUME NEW p \in Path, DoTruncate(p, Empty) PROVE DataInv'
  BY <1>2, GrowingData, MemFilesAssumption
<1>3. ASSUME NEW h \in Handles, NEW v \in Content, HandleWrite(h, v) PROVE DataInv'
  BY <1>3, WriteBackData DEF HandleWrite
<1>4. ASSUME NEW h \in Handles, Flush(h) PROVE DataInv'
  <2>1. /\ Store(h, handle[h].view) /\ ~torn /\ handle[h].open /\ res' = "ok" /\ handle' = handle
        /\ handle[h].view \in Content
    BY <1>4 DEF Flush, DataInv
  <2> QED BY <2>1, WriteBackData
<1>5. CASE UNCHANGED vars
  BY <1>5 DEF DataInv, vars
<1>6. ASSUME NEW p \in Path, NEW v \in Content, DoWrite(p, v) PROVE DataInv'
  BY <1>6, GrowingData
<1>7. ASSUME NEW p \in Path, DoMkdir(p) PROVE DataInv'
  BY <1>7, GrowingData
<1>8. ASSUME NEW p \in Path, NEW q \in Path, DoLink(p, q) PROVE DataInv'
  BY <1>8, GrowingData
<1>9. ASSUME NEW p \in Path, NEW rec \in BOOLEAN, DoRemove(p, rec) PROVE DataInv'
  BY <1>9, RemoveData
<1>10. ASSUME NEW h \in Handles, NEW p \in Path, DoMmap(h, p) PROVE DataInv'
  BY <1>10, MmapData
<1>11. ASSUME NEW h \in Handles, NEW p \in Path, NEW o \in OpenOpts, DoOpen(h, p, o) PROVE DataInv'
  BY <1>11, OpenData
<1>12. ASSUME NEW h \in Handles, NEW v \in Content, StoreView(h, v) PROVE DataInv'
  BY <1>12, ViewData
<1>13. ASSUME NEW h \in Handles, DoClose(h) PROVE DataInv'
  BY <1>13, CloseData
<1> QED
  BY <1>1, <1>2, <1>3, <1>4, <1>5, <1>6, <1>7, <1>8, <1>9, <1>10, <1>11, <1>12, <1>13 DEF Next

\* Every call is the call of FileSystem, or a rename within the names of one
\* file.
LEMMA CallsCorrespond ==
    ASSUME NoSelfMove, Inv, DataInv
    PROVE  Corresponds
<1>1. ASSUME NEW p \in Path, NEW v \in Content, DoWrite(p, v) PROVE Abstract!Write(p, v)
  BY <1>1, WriteRefines
<1>2. ASSUME NEW p \in Path, DoMkdir(p) PROVE Abstract!Mkdir(p)
  BY <1>2, MkdirRefines
<1>3. ASSUME NEW p \in Path, DoTruncate(p, Empty) PROVE Abstract!Truncate(p, Empty)
  BY <1>3, TruncateRefines, MemFilesAssumption
<1>4. ASSUME NEW p \in Path, NEW rec \in BOOLEAN, DoRemove(p, rec) PROVE Abstract!Remove(p, rec)
  BY <1>4, RemoveRefines
<1>5. ASSUME NEW p \in Path, NEW q \in Path, DoLink(p, q) PROVE Abstract!Link(p, q)
  BY <1>5, LinkRefines
<1>6. ASSUME NEW m \in Moves, DoRename(m[1], m[2])
      PROVE  Abstract!Move(m[1], m[2]) \/ DropsLink(m[1], m[2])
  <2>1. m[1] \in Path /\ m[2] \in Path /\ ~Within(m[1], m[2])
    BY MemFilesAssumption DEF NoSelfMove
  <2> QED BY <1>6, <2>1, MoveRefines
<1>7. ASSUME NEW h \in Handles, NEW p \in Path, DoMmap(h, p) PROVE Abstract!Open(h, p)
  BY <1>7, MmapRefines
<1>8. ASSUME NEW h \in Handles, NEW p \in Path, NEW o \in OpenOpts, DoOpen(h, p, o)
      PROVE  Abstract!Open(h, p)
  BY <1>8, OpenRefines
<1>9. torn \in BOOLEAN
  BY DEF DataInv
<1>10. ASSUME NEW h \in Handles, NEW v \in Content, HandleWrite(h, v)
       PROVE  Abstract!HandleWrite(h, v)
  BY <1>9, <1>10, WriteBackRefines DEF HandleWrite
<1>11. ASSUME NEW h \in Handles, NEW v \in Content, StoreView(h, v)
       PROVE  UNCHANGED Abstract!vars
  BY <1>11, ViewRefines
<1>12. ASSUME NEW h \in Handles, Flush(h)
       PROVE  \E v \in Content : Abstract!HandleWrite(h, v)
  <2>1. /\ Store(h, handle[h].view) /\ ~torn /\ handle[h].open /\ res' = "ok" /\ handle' = handle
        /\ handle[h].view \in Content
    BY <1>12 DEF Flush, DataInv
  <2>2. Abstract!HandleWrite(h, handle[h].view)
    BY <1>9, <2>1, WriteBackRefines
  <2> QED BY <2>1, <2>2
<1>13. ASSUME NEW h \in Handles, DoClose(h) PROVE Abstract!Close(h)
  BY <1>13, CloseRefines
<1> QED
  BY <1>1, <1>2, <1>3, <1>4, <1>5, <1>6, <1>7, <1>8, <1>10, <1>11, <1>12, <1>13 DEF Corresponds

(***************************************************************************)
(* The in-memory files implement an inode file system, call by call:       *)
(* canonical paths, aliases and promotions cannot be told from files with  *)
(* sets of names by the outcome of any call, the directories, the contents *)
(* or the names - for any paths, contents, handles and renames of which    *)
(* none moves a path to itself or below itself, until a handle that has    *)
(* lost its file writes.  A rename within the names of one file is the one *)
(* departure: where rename(2) does nothing it drops the old name, and      *)
(* changes nothing else.                                                   *)
(***************************************************************************)
THEOREM FilesImplementInodes ==
    ASSUME NoSelfMove
    PROVE  Spec => ImplementsFileSystem
<1>1. Init => Inv /\ DataInv /\ Abstract!Init
  BY InitInv, InitRefines
<1>2. (Inv /\ DataInv) /\ [Next]_vars => (Inv /\ DataInv)'
  BY NextInv, NextData
<1>3. Inv /\ DataInv => Corresponds
  BY CallsCorrespond
<1> QED BY <1>1, <1>2, <1>3, PTL DEF Spec, ImplementsFileSystem
=============================================================================
