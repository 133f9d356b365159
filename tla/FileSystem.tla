------------------------------ MODULE FileSystem ------------------------------
(***************************************************************************)
(* What the in-memory files promise: an inode file system.  A file is a    *)
(* content with the set of its names, and nothing else - there is no       *)
(* canonical name.  The operations follow the calls of the real one, with  *)
(* the convention of the capability layer that missing parents are made.   *)
(*                                                                         *)
(* A handle is open on a file, known by its names.  The promise to handles *)
(* is weaker than that of a real file system: when a name of its file is   *)
(* removed or moved a handle MAY lose the file, and a write through a lost *)
(* handle tears the tree, after which nothing is promised.                 *)
(***************************************************************************)
EXTENDS Naturals, Sequences

CONSTANTS Path, Content, Handles

VARIABLES dirs, inodes, open, res, torn

vars == <<dirs, inodes, open, res, torn>>

Under(root, p) == Len(root) <= Len(p) /\ SubSeq(p, 1, Len(root)) = root
Above(p) == {SubSeq(p, 1, n) : n \in 1 .. Len(p) - 1}

File(S, v) == [names |-> S, data |-> v]

Named == UNION {i.names : i \in inodes}
There(p) == p \in dirs \union Named
Blocked(p) == \E x \in Above(p) : x \in Named
SameFile(p, q) == \E i \in inodes : p \in i.names /\ q \in i.names
Busy(p) == \E x \in dirs \union Named : x # p /\ Under(p, x)

\* A handle is on the file with these names, or has lost its file, or is closed.
On(S) == [st |-> "on", names |-> S]
Off(st) == [st |-> st, names |-> {}]

Init ==
  /\ dirs = {} /\ inodes = {} /\ torn = FALSE /\ res = "ok"
  /\ open = [h \in Handles |-> Off("closed")]

-------------------------------------------------------------------------------
Fail(class) == res' = class /\ UNCHANGED <<dirs, inodes, open, torn>>
Succeed == res' = "ok" /\ UNCHANGED torn

\* Every file's names go through f; a file without a name is gone.  Handles
\* follow their file, or lose it when it is one of those in `shaken`.
Relabel(f(_), shaken) ==
  /\ inodes' = {File(f(i.names), i.data) : i \in {j \in inodes : f(j.names) # {}}}
  /\ DOMAIN open' = Handles
  /\ \A h \in Handles :
       IF open[h].st # "on" THEN open'[h] = open[h]
       ELSE \/ open'[h] = On(f(open[h].names))
            \/ open'[h] = Off("lost") /\ open[h].names \cap shaken # {}

Write(p, v) ==
  \/ Blocked(p) /\ Fail("notdir")
  \/ ~Blocked(p) /\ p \in dirs /\ Fail("isdir")
  \/ /\ ~Blocked(p) /\ p \notin dirs
     /\ dirs' = dirs \union Above(p)
     /\ inodes' = IF p \in Named
                  THEN {IF p \in i.names THEN File(i.names, v) ELSE i : i \in inodes}
                  ELSE inodes \union {File({p}, v)}
     /\ Succeed /\ UNCHANGED open

Mkdir(p) ==
  \/ (Blocked(p) \/ p \in Named) /\ Fail("notdir")
  \/ /\ ~Blocked(p) /\ p \notin Named
     /\ dirs' = dirs \union Above(p) \union {p}
     /\ Succeed /\ UNCHANGED <<inodes, open>>

Remove(p, recursive) ==
  LET gone == {x \in dirs \union Named : Under(p, x)}
  IN \/ Blocked(p) /\ Fail("notdir")
     \/ ~Blocked(p) /\ ~There(p) /\ Fail(IF recursive THEN "ok" ELSE "notexist")
     \/ p \in dirs /\ Busy(p) /\ ~recursive /\ Fail("notempty")
     \/ /\ There(p) /\ (p \in dirs /\ Busy(p) => recursive)
        /\ dirs' = dirs \ gone
        /\ LET f(S) == S \ gone IN Relabel(f, gone)
        /\ Succeed

\* p goes to q, and what q named loses that name.
Replace(p, q) ==
  LET to(x) == IF Under(p, x) THEN q \o SubSeq(x, Len(p) + 1, Len(x)) ELSE x
      f(S)  == {to(x) : x \in S \ {q}}
  IN /\ There(p) /\ ~Blocked(q) /\ ~Under(p, q)
     /\ There(q) => (p \in dirs <=> q \in dirs) /\ (q \in dirs => ~Busy(q))
     /\ dirs' = {to(x) : x \in (dirs \ {q}) \union Above(q)}
     /\ Relabel(f, {q} \union {x \in Named : Under(p, x)})
     /\ Succeed

\* As in rename(2), a path is moved onto itself, and a name of a file onto
\* another name of the same file, by doing nothing.
Move(p, q) ==
  \/ (Blocked(p) \/ Blocked(q)) /\ Fail("notdir")
  \/ ~Blocked(p) /\ ~Blocked(q) /\ ~There(p) /\ Fail("notexist")
  \/ p \in dirs /\ q \in Named /\ Fail("notdir")
  \/ p \in Named /\ q \in dirs /\ Fail("isdir")
  \/ p \in dirs /\ q \in dirs /\ p # q /\ Busy(q) /\ Fail("notempty")
  \/ p \in dirs /\ p # q /\ Under(p, q) /\ Fail("invalid")
  \/ ((p \in dirs /\ p = q) \/ SameFile(p, q)) /\ Fail("ok")
  \/ ~SameFile(p, q) /\ Replace(p, q)

\* Refusing a directory may still leave the parents of the new name behind.
Link(p, q) ==
  LET f(S) == IF p \in S THEN S \union {q} ELSE S
  IN \/ (Blocked(p) \/ Blocked(q)) /\ Fail("notdir")
     \/ ~Blocked(p) /\ ~Blocked(q) /\ ~There(p) /\ Fail("notexist")
     \/ ~Blocked(p) /\ ~Blocked(q) /\ There(p) /\ There(q) /\ Fail("exist")
     \/ /\ p \in dirs /\ ~Blocked(q) /\ ~There(q)
        /\ res' = "perm" /\ dirs' = dirs \union Above(q)
        /\ UNCHANGED <<inodes, open, torn>>
     \/ /\ p \in Named /\ ~Blocked(q) /\ ~There(q)
        /\ dirs' = dirs \union Above(q)
        /\ Relabel(f, {})
        /\ Succeed

Truncate(p, v) ==
  \/ Blocked(p) /\ Fail("notdir")
  \/ ~Blocked(p) /\ p \in dirs /\ Fail("isdir")
  \/ ~Blocked(p) /\ ~There(p) /\ Fail("notexist")
  \/ p \in Named /\ Write(p, v)

-------------------------------------------------------------------------------
\* Opening makes the file when asked to; the handle is on the file at p.
Open(h, p) ==
  \/ Fail("isdir") /\ p \in dirs
  \/ Fail("notdir") /\ Blocked(p)
  \/ Fail("notexist") /\ ~There(p)
  \/ Fail("exist") /\ p \in Named
  \/ /\ ~Blocked(p) /\ p \notin dirs
     /\ dirs' = dirs \union Above(p)
     /\ \/ p \in Named /\ UNCHANGED inodes
        \/ \E v \in Content : \E i \in inodes : p \in i.names /\
             inodes' = (inodes \ {i}) \union {File(i.names, v)}
        \/ \E v \in Content : p \notin Named /\
             inodes' = inodes \union {File({p}, v)}
     /\ \E i \in inodes' : p \in i.names /\ open' = [open EXCEPT ![h] = On(i.names)]
     /\ Succeed

\* A write through a handle changes the file the handle is open on, and no
\* name of the tree.
HandleStore(h, v) ==
  \/ /\ open[h].st = "on"
     /\ inodes' = {IF i.names = open[h].names THEN File(i.names, v) ELSE i : i \in inodes}
     /\ UNCHANGED <<dirs, torn>>
  \/ open[h].st = "lost" /\ torn'

HandleWrite(h, v) == HandleStore(h, v) /\ (torn' \/ (res' = "ok" /\ UNCHANGED open))

\* Closing a map stores its bytes for the last time.
Close(h) ==
  /\ open' = [open EXCEPT ![h] = Off("closed")] /\ UNCHANGED res
  /\ UNCHANGED <<dirs, inodes, torn>> \/ \E v \in Content : HandleStore(h, v)

Next ==
  \/ \E p \in Path, v \in Content : Write(p, v) \/ Truncate(p, v)
  \/ \E p \in Path : Mkdir(p) \/ \E r \in BOOLEAN : Remove(p, r)
  \/ \E p, q \in Path : Move(p, q) \/ Link(p, q)
  \/ \E h \in Handles :
       Close(h) \/ (\E p \in Path : Open(h, p)) \/ (\E v \in Content : HandleWrite(h, v))

Spec == Init /\ [][Next]_vars
===============================================================================
