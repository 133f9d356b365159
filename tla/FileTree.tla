------------------------------- MODULE FileTree -------------------------------
(***************************************************************************)
(* The in-memory file tree of the capability layer: the maps Files, Dirs   *)
(* and Links of MemFileOps and what each stateless operation does to them. *)
(* A file keeps its content under ONE canonical path; every further hard   *)
(* link is an alias that leads to the canonical path.  A directory is a    *)
(* recorded path; the root is implicit.                                    *)
(*                                                                         *)
(* A path is the sequence of its components, already made absolute and     *)
(* cleaned.  Symbolic links, permissions and times are left out, so Meta   *)
(* is; the process is root and no permission check fires.  Each operation  *)
(* yields the tree after it and the class of its error.  The modules that  *)
(* use a tree share the paths and renames of the program.                  *)
(***************************************************************************)
EXTENDS Naturals, Sequences, Functions, TLC

CONSTANTS
  Path,      \* the paths the program uses
  Moves      \* the pairs <<from, to>> it renames

Root == << >>
Parent(p) == SubSeq(p, 1, Len(p) - 1)
Within(root, p) == Len(root) <= Len(p) /\ SubSeq(p, 1, Len(root)) = root
Ancestors(p) == {SubSeq(p, 1, n) : n \in 1 .. Len(p) - 1}

EmptyTree == [files |-> << >>, dirs |-> {}, links |-> << >>]

Done(fs) == [fs |-> fs, res |-> "ok"]
Refuse(fs, class) == [fs |-> fs, res |-> class]

-------------------------------------------------------------------------------
(* Looking at a tree.                                                      *)

\* MemFileOps.canon: where the content of a name lives.
Canon(fs, p) == IF p \in DOMAIN fs.links THEN fs.links[p] ELSE p

IsFileEntry(fs, p) == p \in DOMAIN fs.files \/ p \in DOMAIN fs.links

\* resolveSteps without symbolic links: ENOTDIR when a component is a file.
Resolves(fs, p) == \A q \in Ancestors(p) : ~IsFileEntry(fs, q)

\* infoFor: a file entry is looked for before a directory.
Exists(fs, p) == IsFileEntry(fs, p) \/ p \in fs.dirs
IsDir(fs, p)  == ~IsFileEntry(fs, p) /\ p \in fs.dirs

Names(fs) == DOMAIN fs.files \union fs.dirs \union DOMAIN fs.links

\* collectChildren
Children(fs, d) == {p \in Names(fs) : p # Root /\ p # d /\ Parent(p) = d}

\* ReadFile (for a path that resolves): the content, when there is a file.
Readable(fs, p) ==
  Resolves(fs, p) /\ p \notin fs.dirs /\ Canon(fs, p) \in DOMAIN fs.files
ReadFile(fs, p) == fs.files[Canon(fs, p)]

\* The three maps are one tree of the paths in P: no path is two things at
\* once, every alias leads to a file, and every entry lies in directories
\* that are there.
IsTree(fs, P) ==
  /\ DOMAIN fs.files \cap DOMAIN fs.links = {}
  /\ fs.dirs \cap (DOMAIN fs.files \union DOMAIN fs.links) = {}
  /\ \A a \in DOMAIN fs.links : fs.links[a] \in DOMAIN fs.files
  /\ \A p \in Names(fs) : p \in P /\ Ancestors(p) \subseteq fs.dirs

\* The names of the file whose content is at c: its hard links.
NamesOf(fs, c) == {c} \union {a \in DOMAIN fs.links : fs.links[a] = c}

-------------------------------------------------------------------------------
(* Changing a tree.                                                        *)

\* recordDir: the directory and its ancestors; the root is never recorded.
RecordDir(fs, d) ==
  [fs EXCEPT !.dirs = @ \union ((Ancestors(d) \union {d}) \ {Root})]

\* A store into a Go map.
With(f, k, v) == [x \in DOMAIN f \union {k} |-> IF x = k THEN v ELSE f[x]]

\* writeFileLocked: create or replace, through the canonical path.
WriteFile(fs, p, v) ==
  IF ~Resolves(fs, p) THEN Refuse(fs, "notdir")
  ELSE IF p \in fs.dirs THEN Refuse(fs, "isdir")
  ELSE Done([RecordDir(fs, Parent(p)) EXCEPT
               !.files = With(@, Canon(fs, p), v)])

\* mkdirAllLocked
MkdirAll(fs, p) ==
  IF ~Resolves(fs, p) \/ IsFileEntry(fs, p) THEN Refuse(fs, "notdir")
  ELSE Done(RecordDir(fs, p))

\* Mutant of Unlink: with its canonical name a file loses all its names.
Unlink_AllNames(fs, S) ==
  LET gone == S \union {a \in DOMAIN fs.links : fs.links[a] \in S}
  IN [fs EXCEPT !.files = Restrict(@, DOMAIN @ \ S),
                !.links = Restrict(@, DOMAIN @ \ gone)]

\* removeFileEntry for every name in S, the aliases among them first: an
\* alias is dropped; a canonical path hands its content to one of the
\* aliases left (the code takes the first in sorted order) and the others
\* follow it; without an alias the content goes.
Unlink(fs, S) ==
  LET links   == Restrict(fs.links, DOMAIN fs.links \ S)
      aliases(c) == {a \in DOMAIN links : links[a] = c}
      heir(c) == CHOOSE a \in aliases(c) : TRUE
      moved   == {c \in DOMAIN fs.files \cap S : aliases(c) # {}}
      heirs   == {heir(c) : c \in moved}
  IN [fs EXCEPT
        !.files = [p \in (DOMAIN fs.files \ S) \union heirs |->
                     IF p \in heirs THEN fs.files[links[p]] ELSE fs.files[p]],
        !.links = [a \in DOMAIN links \ heirs |->
                     IF links[a] \in moved THEN heir(links[a]) ELSE links[a]]]

\* Mutant of RemoveTree: the subtree's keys are deleted from every map, so an
\* alias outside of it keeps leading to a file that is gone.
RemoveTree_NoPromotion(fs, root) ==
  LET gone == {p \in Names(fs) : Within(root, p)}
  IN [files |-> Restrict(fs.files, DOMAIN fs.files \ gone),
      dirs  |-> fs.dirs \ gone,
      links |-> Restrict(fs.links, DOMAIN fs.links \ gone)]

\* removeTree: the subtree's names are unlinked, its directories dropped.
RemoveTree(fs, root) ==
  LET gone == {p \in Names(fs) : Within(root, p)}
  IN [Unlink(fs, gone) EXCEPT !.dirs = @ \ gone]

\* Remove, and its recursive form, which accepts an absent path.
Remove(fs, p, recursive) ==
  IF ~Resolves(fs, p) THEN Refuse(fs, "notdir")
  ELSE IF ~Exists(fs, p)
       THEN IF recursive THEN Done(fs) ELSE Refuse(fs, "notexist")
  ELSE IF ~IsDir(fs, p) THEN Done(Unlink(fs, {p}))
  ELSE IF Children(fs, p) # {} /\ ~recursive THEN Refuse(fs, "notempty")
  ELSE Done(RemoveTree(fs, p))

\* remap of Rename: where a path of the moved tree goes.
Remap(p, q, x) == IF Within(p, x) THEN q \o SubSeq(x, Len(p) + 1, Len(x)) ELSE x

\* The loops of Rename over the keys of one map: each key of the moved tree
\* is stored under its new path and then deleted under its old one - so a
\* tree moved to where it is, is deleted.
MoveKeys(S, p, q) ==
  IF p = q THEN {x \in S : ~Within(p, x)} ELSE {Remap(p, q, x) : x \in S}
MoveMap(f, p, q) ==
  [x \in MoveKeys(DOMAIN f, p, q) |->
     f[CHOOSE y \in DOMAIN f : Remap(p, q, y) = x]]

MoveTree(fs, p, q) ==
  LET links == MoveMap(fs.links, p, q)
  IN [files |-> MoveMap(fs.files, p, q),
      dirs  |-> MoveKeys(fs.dirs, p, q),
      links |-> [a \in DOMAIN links |-> Remap(p, q, links[a])]]

\* Rename: the rules for what is at the destination, then the move.
Rename(fs, p, q) ==
  LET cleared == IF IsDir(fs, q) THEN RemoveTree(fs, q)
                 ELSE IF Exists(fs, q) THEN Unlink(fs, {q}) ELSE fs
  IN IF ~Resolves(fs, p) \/ ~Resolves(fs, q) THEN Refuse(fs, "notdir")
     ELSE IF ~Exists(fs, p) THEN Refuse(fs, "notexist")
     ELSE IF Exists(fs, q) /\ IsDir(fs, p) /\ ~IsDir(fs, q)
          THEN Refuse(fs, "notdir")
     ELSE IF Exists(fs, q) /\ ~IsDir(fs, p) /\ IsDir(fs, q)
          THEN Refuse(fs, "isdir")
     ELSE IF IsDir(fs, q) /\ Children(fs, q) # {} THEN Refuse(fs, "notempty")
     ELSE Done(MoveTree(RecordDir(cleared, Parent(q)), p, q))

\* Link: a directory is refused, after the parents of the new name have
\* been recorded.
Link(fs, target, p) ==
  LET ready == RecordDir(fs, Parent(p))
  IN IF ~Resolves(fs, target) \/ ~Resolves(fs, p) THEN Refuse(fs, "notdir")
     ELSE IF ~Exists(fs, target) THEN Refuse(fs, "notexist")
     ELSE IF Exists(fs, p) THEN Refuse(fs, "exist")
     ELSE IF IsDir(fs, target) THEN Refuse(ready, "perm")
     ELSE Done([ready EXCEPT !.links = With(@, p, Canon(fs, target))])

\* Truncate: only a file that is there.
Truncate(fs, p, v) ==
  IF ~Resolves(fs, p) THEN Refuse(fs, "notdir")
  ELSE IF p \in fs.dirs THEN Refuse(fs, "isdir")
  ELSE IF Canon(fs, p) \notin DOMAIN fs.files THEN Refuse(fs, "notexist")
  ELSE Done([fs EXCEPT !.files[Canon(fs, p)] = v])
===============================================================================
