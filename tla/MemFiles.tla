------------------------------- MODULE MemFiles -------------------------------
(***************************************************************************)
(* MemFileOps: the in-memory file system behind the file words, with its   *)
(* open handles and memory maps.  Every call holds the one mutex from its  *)
(* first to its last line, so a call is one step; the callers (the main    *)
(* program, processes, callbacks of watchers) interleave between calls.    *)
(*                                                                         *)
(* A handle remembers the CANONICAL PATH of its file and looks it up again *)
(* on every call.  `bound` records whether that path has stayed with the   *)
(* file since the handle was opened; nothing in the code knows it.  A      *)
(* write through an unbound handle makes or overwrites whatever the path   *)
(* stands for now: the model takes that step, notes it in `torn` and stops.*)
(***************************************************************************)
EXTENDS FileTree

CONSTANTS
  Content,   \* what a file may hold; splicing at offsets is not modelled
  Empty,     \* the content of a new file
  Handles    \* handle values

ASSUME MemFilesAssumption ==
  /\ Path \subseteq Seq(STRING)
  /\ \A p \in Path : p # Root /\ Ancestors(p) \subseteq Path
  /\ Empty \in Content
  /\ Moves \subseteq Path \X Path

VARIABLES
  fs,        \* the maps Files, Dirs and Links
  handle,    \* [Handles -> closed, or key, bound, mapped view]
  res,       \* the error class of the last call
  torn       \* history: an unbound handle has written

vars == <<fs, handle, res, torn>>

None == "none"
Closed == [open |-> FALSE, key |-> Root, bound |-> TRUE, view |-> None]

Init ==
  /\ fs = EmptyTree
  /\ handle = [h \in Handles |-> Closed]
  /\ res = "ok" /\ torn = FALSE

-------------------------------------------------------------------------------
(* The stateless calls.  `vacated` are the canonical paths whose file goes *)
(* away or moves.                                                          *)
Apply(r, vacated) ==
  /\ ~torn
  /\ fs' = r.fs /\ res' = r.res
  /\ handle' = [h \in Handles |->
                  IF r.res = "ok" /\ handle[h].open /\ handle[h].key \in vacated
                  THEN [handle[h] EXCEPT !.bound = FALSE] ELSE handle[h]]
  /\ UNCHANGED torn

FilesUnder(p) == {c \in DOMAIN fs.files : Within(p, c)}

DoWrite(p, v)    == Apply(WriteFile(fs, p, v), {})
DoMkdir(p)       == Apply(MkdirAll(fs, p), {})
DoRemove(p, rec) == Apply(Remove(fs, p, rec), FilesUnder(p))
DoLink(p, q)     == Apply(Link(fs, p, q), {})
DoTruncate(p, v) == Apply(Truncate(fs, p, v), {})

\* Bound of the model: the moved tree stays among the paths of Path.
DoRename(p, q) ==
  /\ \A x \in Names(fs) : Remap(p, q, x) \in Path
  /\ Apply(Rename(fs, p, q), FilesUnder(p) \union ({q} \cap DOMAIN fs.files))

-------------------------------------------------------------------------------
(* Handles (handles.go) and maps (locks.go).                               *)

\* Open: the file is made when absent and asked for, emptied when asked for.
DoOpen(h, p, o) ==
  LET c      == Canon(fs, p)
      exists == c \in DOMAIN fs.files
      fail   == IF ~Resolves(fs, p) THEN "notdir"
                ELSE IF p \in fs.dirs THEN "isdir"
                ELSE IF exists /\ o.create /\ o.exclusive THEN "exist"
                ELSE IF ~exists /\ ~o.create THEN "notexist" ELSE "ok"
      clear  == ~exists \/ o.truncate
  IN /\ ~torn /\ ~handle[h].open
     /\ res' = fail
     /\ IF fail # "ok" THEN UNCHANGED <<fs, handle>>
        ELSE /\ fs' = IF clear THEN WriteFile(fs, p, Empty).fs ELSE fs
             /\ handle' = [handle EXCEPT ![h] =
                  [open |-> TRUE, key |-> c, bound |-> TRUE, view |-> None]]
     /\ UNCHANGED torn

\* Handles and maps opened for reading only change nothing and are left out.
OpenOpts == {o \in [create : BOOLEAN, exclusive : BOOLEAN, truncate : BOOLEAN] :
               o.exclusive => o.create /\ ~o.truncate}

\* store: the handle's path is looked up afresh; an absent one is created.
Store(h, v) ==
  /\ fs' = [fs EXCEPT !.files = With(@, handle[h].key, v)]
  /\ torn' = ~handle[h].bound

\* Write, WriteAt and Truncate of a handle.
HandleWrite(h, v) ==
  /\ ~torn /\ handle[h].open /\ handle[h].view = None
  /\ Store(h, v) /\ res' = "ok" /\ UNCHANGED handle

\* Mmap copies the content of an existing, non-empty file.
DoMmap(h, p) ==
  /\ ~torn /\ ~handle[h].open /\ Readable(fs, p) /\ ReadFile(fs, p) # Empty
  /\ handle' = [handle EXCEPT ![h] =
       [open |-> TRUE, key |-> Canon(fs, p), bound |-> TRUE, view |-> ReadFile(fs, p)]]
  /\ res' = "ok" /\ UNCHANGED <<fs, torn>>

\* The program changes the mapped bytes: no call, the file stays as it is.
StoreView(h, v) ==
  /\ ~torn /\ handle[h].open /\ handle[h].view # None /\ v # Empty
  /\ handle' = [handle EXCEPT ![h].view = v]
  /\ UNCHANGED <<fs, res, torn>>

\* Flush of a map: the copy goes back, whatever was written meanwhile.
Flush(h) ==
  /\ ~torn /\ handle[h].open /\ handle[h].view # None
  /\ Store(h, handle[h].view) /\ res' = "ok" /\ UNCHANGED handle

\* Close: of a map after a last write-back.
DoClose(h) ==
  /\ ~torn /\ handle[h].open
  /\ IF handle[h].view # None
     THEN Store(h, handle[h].view) ELSE UNCHANGED <<fs, torn>>
  /\ handle' = [handle EXCEPT ![h] = Closed]
  /\ UNCHANGED res

Next ==
  \/ \E p \in Path, v \in Content : DoWrite(p, v)
  \/ \E p \in Path : DoMkdir(p) \/ DoTruncate(p, Empty) \/ \E rec \in BOOLEAN : DoRemove(p, rec)
  \/ \E p, q \in Path : DoLink(p, q)
  \/ \E m \in Moves : DoRename(m[1], m[2])
  \/ \E h \in Handles :
       \/ \E p \in Path : DoMmap(h, p) \/ \E o \in OpenOpts : DoOpen(h, p, o)
       \/ \E v \in Content : HandleWrite(h, v) \/ StoreView(h, v)
       \/ Flush(h) \/ DoClose(h)

Spec == Init /\ [][Next]_vars

-------------------------------------------------------------------------------
(* What a reader of the calls sees: files with their names, and handles    *)
(* that are on a file, have lost it or are closed.                         *)
Inode(t, c) == [names |-> NamesOf(t, c), data |-> t.files[c]]
InodesOf(t) == {Inode(t, c) : c \in DOMAIN t.files}

OpenOn(t, d) ==
  [st    |-> IF ~d.open THEN "closed" ELSE IF ~d.bound THEN "lost" ELSE "on",
   names |-> IF d.open /\ d.bound THEN NamesOf(t, d.key) ELSE {}]
OpenFiles == [h \in Handles |-> OpenOn(fs, handle[h])]

Abstract == INSTANCE FileSystem WITH
  dirs <- fs.dirs, inodes <- InodesOf(fs), open <- OpenFiles

\* Rename of one name of a file onto another of its names: rename(2) does
\* nothing, the code unlinks the new name and moves the old one there, so the
\* old name is gone.
DropsLink(p, q) == Abstract!SameFile(p, q) /\ Abstract!Replace(p, q)

\* Call by call: what each call does is what the call of FileSystem does.
\* The bytes of a map are the program's own until they are flushed.
Corresponds ==
  /\ \A p \in Path, v \in Content : DoWrite(p, v) => Abstract!Write(p, v)
  /\ \A p \in Path : /\ DoMkdir(p) => Abstract!Mkdir(p)
                     /\ DoTruncate(p, Empty) => Abstract!Truncate(p, Empty)
                     /\ \A rec \in BOOLEAN : DoRemove(p, rec) => Abstract!Remove(p, rec)
  /\ \A p, q \in Path : DoLink(p, q) => Abstract!Link(p, q)
  /\ \A m \in Moves :
       DoRename(m[1], m[2]) => Abstract!Move(m[1], m[2]) \/ DropsLink(m[1], m[2])
  /\ \A h \in Handles :
       /\ \A p \in Path : /\ DoMmap(h, p) => Abstract!Open(h, p)
                          /\ \A o \in OpenOpts : DoOpen(h, p, o) => Abstract!Open(h, p)
       /\ \A v \in Content : /\ HandleWrite(h, v) => Abstract!HandleWrite(h, v)
                             /\ StoreView(h, v) => UNCHANGED Abstract!vars
       /\ Flush(h) => \E v \in Content : Abstract!HandleWrite(h, v)
       /\ DoClose(h) => Abstract!Close(h)

\* Canonical paths, aliases and promotions implement an inode file system:
\* every call has the outcome, and every name the content, that the same call
\* on files with sets of names gives it (MemFileOps and its handles, until a
\* handle that has lost its file writes), but for a rename within the names
\* of one file, which drops the old name.
ImplementsFileSystem == Abstract!Init /\ [][Corresponds]_vars

\* Rename "applying the rename(2) destination rules", without that exception.
\* It does not hold of the code (README, Disagreements).
RenamesAsRename2 ==
  [][\A m \in Moves : DoRename(m[1], m[2]) => Abstract!Move(m[1], m[2])]_vars

\* The three maps stay one tree through every call and every interleaving of
\* handles: no path is two things at once, every alias leads to a file
\* (removeFileEntry promotes one when the canonical name goes), and every
\* entry lies in directories that are there.
WellFormed == ~torn => IsTree(fs, Path)
===============================================================================
