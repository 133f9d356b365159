-------------------------------- MODULE Overlay --------------------------------
(***************************************************************************)
(* OverlayFileOps: a union of a writable in-memory tree over a read-only   *)
(* one.  Reads take the upper entry, else the lower one unless a whiteout  *)
(* hides it; every change is made in the upper tree.                       *)
(*                                                                         *)
(* A call holds no lock from end to end: it reads and copies up, then      *)
(* changes the upper tree in one locked call, then sets or clears          *)
(* whiteouts.  These are three steps here, and callers (the program and    *)
(* the callbacks of its watchers) interleave between them.  The lower tree *)
(* is whatever the program found; nothing else changes it.                 *)
(*                                                                         *)
(* `plain` is a history variable: one ordinary tree to which every call    *)
(* was applied that has come to its end.                                   *)
(***************************************************************************)
EXTENDS FileTree

CONSTANTS
  Content,   \* what the program writes
  Lowers,    \* the lower trees to start from
  Callers    \* goroutines that use the overlay

ASSUME OverlayAssumption ==
  /\ Path \subseteq Seq(STRING)
  /\ \A p \in Path : p # Root /\ Ancestors(p) \subseteq Path
  /\ Moves \subseteq Path \X Path
  /\ \A t \in Lowers : /\ t = [files |-> t.files, dirs |-> t.dirs, links |-> << >>]
                       /\ IsTree(t, Path)

VARIABLES lower, upper, whiteouts, doing, plain, outcome, departed

overlayVars == <<lower, upper, whiteouts, doing, plain, outcome, departed>>

Resting == [st |-> "idle"]

OverlayInit ==
  /\ lower \in Lowers /\ plain = lower
  /\ upper = EmptyTree /\ whiteouts = {}
  /\ doing = [c \in Callers |-> Resting]
  /\ outcome = [union |-> "ok", plain |-> "ok"]
  /\ departed = FALSE

-------------------------------------------------------------------------------
(* The union as it is seen.                                                *)
Hidden(p) == \E w \in whiteouts : Within(w, p)
InUpper(p) == Resolves(upper, p) /\ Exists(upper, p)
LowerVisible(p) == ~Hidden(p) /\ Exists(lower, p)

Entry(t, p) ==
  IF IsDir(t, p) THEN [kind |-> "dir", data |-> ""]
  ELSE IF Exists(t, p) THEN [kind |-> "file", data |-> ReadFile(t, p)]
  ELSE [kind |-> "none", data |-> ""]

\* Stat and ReadFile
Stat(p) == IF InUpper(p) THEN Entry(upper, p)
           ELSE IF Hidden(p) THEN Entry(EmptyTree, p) ELSE Entry(lower, p)

\* ReadDir: the two listings merged, a whiteout hides the lower name.
ReadDir(d) ==
  Children(upper, d) \union
  IF Hidden(d) THEN {} ELSE {p \in Children(lower, d) : p \notin whiteouts}

-------------------------------------------------------------------------------
(* Copying up.                                                             *)
CopyUp(t, p) ==
  IF IsDir(lower, p) THEN MkdirAll(t, p) ELSE WriteFile(t, p, ReadFile(lower, p))

\* copyUpTree: what the lower directory shows, except below a whiteout; an
\* entry the upper tree has already is left alone.  It fails on a lower
\* directory the upper tree has a file for; what it has copied by then is
\* left out, since a single caller never meets such a file.
CopyUpTree(p) ==
  LET shown == {x \in Names(lower) : Within(p, x) /\
                  \A w \in whiteouts : ~(w # p /\ Within(p, w) /\ Within(w, x))}
      clash == \E x \in shown : IsDir(lower, x) /\ IsFileEntry(upper, x)
      new   == {x \in shown : ~Exists(upper, x)}
  IN IF clash THEN Refuse(upper, "notdir")
     ELSE Done([upper EXCEPT
            !.dirs  = @ \union (new \cap lower.dirs) \union (Ancestors(p) \ {Root}),
            !.files = [x \in DOMAIN @ \union (new \cap DOMAIN lower.files) |->
                         IF x \in DOMAIN @ THEN @[x] ELSE lower.files[x]]])

\* The first part of a call: its checks and the copying up.
PrepareRemove(p, rec) ==
  IF ~InUpper(p) /\ ~LowerVisible(p)
  THEN Refuse(upper, IF rec THEN "skip" ELSE "notexist")
  ELSE IF ~rec /\ Stat(p).kind = "dir" /\ ReadDir(p) # {}
       THEN Refuse(upper, "notempty") ELSE Done(upper)

PrepareRename(p) ==
  IF LowerVisible(p) /\ IsDir(lower, p) THEN CopyUpTree(p)
  ELSE IF InUpper(p) THEN Done(upper)
  ELSE IF LowerVisible(p) THEN CopyUp(upper, p) ELSE Refuse(upper, "notexist")

\* mutateInUpper, and the target of a link: a lower entry is copied up.
PrepareChange(p) ==
  IF InUpper(p) THEN Done(upper)
  ELSE IF LowerVisible(p) THEN CopyUp(upper, p) ELSE Refuse(upper, "notexist")

PrepareLink(p, q) ==
  IF Stat(q).kind # "none" THEN Refuse(upper, "exist") ELSE PrepareChange(p)

Prepare(o) ==
  CASE o.name \in {"write", "mkdir"} -> Done(upper)
    [] o.name = "remove"   -> PrepareRemove(o.path, o.rec)
    [] o.name = "rename"   -> PrepareRename(o.path)
    [] o.name = "link"     -> PrepareLink(o.path, o.to)
    [] o.name = "truncate" -> PrepareChange(o.path)

\* The second part: the same call on a tree.
On(t, o) ==
  CASE o.name = "write"    -> WriteFile(t, o.path, o.data)
    [] o.name = "mkdir"    -> MkdirAll(t, o.path)
    [] o.name = "remove"   -> Remove(t, o.path, o.rec)
    [] o.name = "rename"   -> Rename(t, o.path, o.to)
    [] o.name = "link"     -> Link(t, o.path, o.to)
    [] o.name = "truncate" -> Truncate(t, o.path, "")

\* Mutant of Marked: a rename forgets that the lower tree has the old name.
Marked_RenameLeavesSource(o, visible) ==
  CASE o.name \in {"write", "mkdir"} -> whiteouts \ {o.path}
    [] o.name = "remove" -> IF visible THEN whiteouts \union {o.path} ELSE whiteouts
    [] o.name \in {"rename", "link"} -> whiteouts \ {o.to}
    [] o.name = "truncate" -> whiteouts

\* The third part: the whiteouts afterwards.
Marked(o, visible) ==
  CASE o.name \in {"write", "mkdir"} -> whiteouts \ {o.path}
    [] o.name = "remove" -> IF visible THEN whiteouts \union {o.path} ELSE whiteouts
    [] o.name = "rename" -> (IF Exists(lower, o.path) THEN whiteouts \union {o.path}
                             ELSE whiteouts) \ {o.to}
    [] o.name = "link"   -> whiteouts \ {o.to}
    [] o.name = "truncate" -> whiteouts

-------------------------------------------------------------------------------
(* Where the union is known to depart from a tree: the upper tree cannot   *)
(* see that a lower entry is in its way; and a whiteout, once cleared, no  *)
(* longer hides what the lower tree has below it, or the lower directory   *)
(* behind a new file.                                                      *)
Target(o) == IF o.name \in {"rename", "link"} THEN o.to ELSE o.path
OnlyLower(p) == ~InUpper(p) /\ LowerVisible(p)

InTheWay(o) ==
  LET q == Target(o) IN
  \/ \E x \in Ancestors(q) : OnlyLower(x) /\ ~IsDir(lower, x)
  \/ o.name = "write"  /\ OnlyLower(q) /\ IsDir(lower, q)
  \/ o.name = "mkdir"  /\ OnlyLower(q) /\ ~IsDir(lower, q)
  \/ o.name = "rename" /\ LowerVisible(q) /\ (IsDir(lower, q) \/ Stat(o.path).kind = "dir")

Unhides(o) ==
  LET q == Target(o) IN
  /\ q \in whiteouts /\ IsDir(lower, q)
  /\ o.name \in {"write", "link", "rename"} \/ Children(lower, q) # {}

Departs(o) == o.name \in {"write", "mkdir", "rename", "link"} /\ (InTheWay(o) \/ Unhides(o))

-------------------------------------------------------------------------------
(* The steps of a call.                                                    *)
Calls ==
  [name : {"write"}, path : Path, data : Content]
    \union [name : {"mkdir", "truncate"}, path : Path]
    \union [name : {"remove"}, path : Path, rec : BOOLEAN]
    \union [name : {"link"}, path : Path, to : Path]
    \union {[name |-> "rename", path |-> m[1], to |-> m[2]] : m \in Moves}

\* A call that has ended is applied to the plain tree too.  A recursive
\* remove of a path below a file counts as one of an absent path there.
Finish(c, o, class) ==
  LET r == On(plain, o)
      absent == o.name = "remove" /\ o.rec /\ ~Resolves(plain, o.path)
  IN /\ plain' = r.fs
     /\ outcome' = [union |-> class, plain |-> IF absent THEN "ok" ELSE r.res]
     /\ doing' = [doing EXCEPT ![c] = Resting]

Begin(c, o) ==
  LET r == Prepare(o)
  IN /\ doing[c] = Resting /\ ~departed
     /\ o.name = "rename" => \A x \in Names(lower) \union Names(upper) :
                               Remap(o.path, o.to, x) \in Path
     /\ upper' = r.fs
     /\ departed' = Departs(o)
     /\ IF r.res = "ok"
        THEN /\ doing' = [doing EXCEPT ![c] =
                  [st |-> "apply", op |-> o, visible |-> LowerVisible(o.path)]]
             /\ UNCHANGED <<plain, outcome>>
        ELSE Finish(c, o, IF r.res = "skip" THEN "ok" ELSE r.res)
     /\ UNCHANGED <<lower, whiteouts>>

\* A remove leaves the upper tree alone when only the lower one knows it.
ApplyUpper(c) ==
  LET o == doing[c].op
      r == IF o.name = "remove" /\ ~InUpper(o.path) THEN Done(upper) ELSE On(upper, o)
  IN /\ doing[c].st = "apply"
     /\ upper' = r.fs
     /\ IF r.res = "ok" THEN /\ doing' = [doing EXCEPT ![c].st = "mark"]
                             /\ UNCHANGED <<plain, outcome>>
        ELSE Finish(c, o, r.res)
     /\ UNCHANGED <<lower, whiteouts, departed>>

Mark(c) ==
  /\ doing[c].st = "mark"
  /\ whiteouts' = Marked(doing[c].op, doing[c].visible)
  /\ Finish(c, doing[c].op, "ok")
  /\ UNCHANGED <<lower, upper, departed>>

OverlayNext == \E c \in Callers : (\E o \in Calls : Begin(c, o)) \/ ApplyUpper(c) \/ Mark(c)

OverlaySpec == OverlayInit /\ [][OverlayNext]_overlayVars

-------------------------------------------------------------------------------
Quiet == \A c \in Callers : doing[c] = Resting

\* Between calls every path shows in the union what one ordinary tree would
\* show after the same calls, a directory lists exactly the names that can
\* be looked up, and the last call succeeded in the one when it did in the
\* other - but for the known departures (OverlayFileOps: shadowing,
\* whiteouts, copy-up; Stat against ReadDir).
UnionIsATree ==
  Quiet /\ ~departed =>
    /\ \A p \in Path : Stat(p) = Entry(plain, p)
    /\ \A d \in Path \union {Root} :
         ReadDir(d) = {p \in Path : Parent(p) = d /\ Stat(p).kind # "none"}
    /\ (outcome.union = "ok") <=> (outcome.plain = "ok")
================================================================================
