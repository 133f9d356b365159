------------------------------- MODULE MemLocks -------------------------------
(***************************************************************************)
(* Advisory locks of the in-memory files: MemFileOps.Lock and the Close of *)
(* the lock it returns.  A lock is a reader count and a writer flag in a   *)
(* table keyed by the file's CANONICAL PATH.  The path is resolved under   *)
(* the mutex of the files and the table is entered under another one, so   *)
(* files may be removed, renamed and linked in between, and while the lock *)
(* is waited for or held.  All waiters of all files sleep on one condition *)
(* variable, and every Close wakes all of them.                            *)
(***************************************************************************)
EXTENDS FileTree, FiniteSets

CONSTANTS
  Lockers,   \* goroutines that take locks, each one lock at a time
  MaxCalls   \* bound: lock calls of one goroutine

ASSUME MemLocksAssumption ==
  /\ Path \subseteq Seq(STRING) \ {Root}
  /\ Moves \subseteq Path \X Path
  /\ IsFiniteSet(Lockers) /\ MaxCalls \in Nat

VARIABLES
  fs,        \* the file tree
  table,     \* fileLocks: canonical path -> [readers, writer]
  call,      \* [Lockers -> the state of the goroutine's lock call]
  calls      \* bookkeeping: calls made so far

vars == <<fs, table, call, calls>>

\* call[l].st: "idle", "trying" (key resolved, or woken), "asleep" (in Wait),
\* "held".  `bound`: the key has stayed with the file since it was resolved.
Idle == [st |-> "idle", key |-> Root, shared |-> FALSE, block |-> FALSE, bound |-> FALSE]

Free == [readers |-> 0, writer |-> FALSE]
State(k) == IF k \in DOMAIN table THEN table[k] ELSE Free
Put(k, st) == [j \in DOMAIN table \union {k} |-> IF j = k THEN st ELSE table[j]]

Grantable(k, shared) ==
  ~State(k).writer /\ (shared \/ State(k).readers = 0)

Init ==
  /\ fs = EmptyTree /\ table = << >>
  /\ call = [l \in Lockers |-> Idle]
  /\ calls = [l \in Lockers |-> 0]

-------------------------------------------------------------------------------
\* Mutant of Resolve: the lock is keyed by the name it is asked for.
Resolve_ByName(l, p, shared, block) ==
  /\ call[l].st = "idle" /\ calls[l] < MaxCalls
  /\ Resolves(fs, p) /\ Exists(fs, p)
  /\ call' = [call EXCEPT ![l] =
       [st |-> "trying", key |-> p, shared |-> shared, block |-> block, bound |-> TRUE]]
  /\ calls' = [calls EXCEPT ![l] = @ + 1]
  /\ UNCHANGED <<fs, table>>

\* First half of Lock, under the mutex of the files: an absent path fails.
Resolve(l, p, shared, block) ==
  /\ call[l].st = "idle" /\ calls[l] < MaxCalls
  /\ Resolves(fs, p) /\ Exists(fs, p)
  /\ call' = [call EXCEPT ![l] =
       [st |-> "trying", key |-> Canon(fs, p), shared |-> shared, block |-> block, bound |-> TRUE]]
  /\ calls' = [calls EXCEPT ![l] = @ + 1]
  /\ UNCHANGED <<fs, table>>

\* A turn of the loop, under the mutex of the table: the lock is granted, or
\* the call fails as busy, or it goes to sleep.
Grant(l) ==
  LET k == call[l].key
  IN /\ call[l].st = "trying" /\ Grantable(k, call[l].shared)
     /\ table' = Put(k, IF call[l].shared
                        THEN [State(k) EXCEPT !.readers = @ + 1]
                        ELSE [State(k) EXCEPT !.writer = TRUE])
     /\ call' = [call EXCEPT ![l].st = "held"]
     /\ UNCHANGED <<fs, calls>>

Busy(l) ==
  /\ call[l].st = "trying" /\ ~Grantable(call[l].key, call[l].shared) /\ ~call[l].block
  /\ call' = [call EXCEPT ![l] = Idle]
  /\ UNCHANGED <<fs, table, calls>>

Sleep(l) ==
  /\ call[l].st = "trying" /\ ~Grantable(call[l].key, call[l].shared) /\ call[l].block
  /\ call' = [call EXCEPT ![l].st = "asleep"]
  /\ UNCHANGED <<fs, table, calls>>

\* Broadcast: whoever sleeps will take another turn.
Woken(m) == IF call[m].st = "asleep" THEN [call[m] EXCEPT !.st = "trying"] ELSE call[m]

\* Mutant of Close: a reader wakes nobody, others may still be reading.
Close_ReaderIsSilent(l) ==
  LET k == call[l].key
  IN /\ call[l].st = "held"
     /\ table' = Put(k, IF call[l].shared
                        THEN [State(k) EXCEPT !.readers = @ - 1]
                        ELSE [State(k) EXCEPT !.writer = FALSE])
     /\ call' = [m \in Lockers |-> IF m = l THEN Idle
                                   ELSE IF call[l].shared THEN call[m] ELSE Woken(m)]
     /\ UNCHANGED <<fs, calls>>

\* Mutant of Close: the reader count is left alone.
Close_KeepsReader(l) ==
  LET k == call[l].key
  IN /\ call[l].st = "held"
     /\ table' = Put(k, [State(k) EXCEPT !.writer = FALSE])
     /\ call' = [m \in Lockers |-> IF m = l THEN Idle ELSE Woken(m)]
     /\ UNCHANGED <<fs, calls>>

\* memLock.Close (a second Close of the same lock does nothing).
Close(l) ==
  LET k == call[l].key
  IN /\ call[l].st = "held"
     /\ table' = Put(k, IF call[l].shared
                        THEN [State(k) EXCEPT !.readers = @ - 1]
                        ELSE [State(k) EXCEPT !.writer = FALSE])
     /\ call' = [m \in Lockers |-> IF m = l THEN Idle ELSE Woken(m)]
     /\ UNCHANGED <<fs, calls>>

-------------------------------------------------------------------------------
(* The files change under the lockers.                                     *)
Change(r, vacated) ==
  /\ r.res = "ok"
  /\ fs' = r.fs
  /\ call' = [l \in Lockers |->
                IF call[l].key \in vacated THEN [call[l] EXCEPT !.bound = FALSE] ELSE call[l]]
  /\ UNCHANGED <<table, calls>>

Under(p) == {c \in DOMAIN fs.files \union fs.dirs : Within(p, c)}

Create(p) == Change(WriteFile(fs, p, "data"), {})
Alias(p, q) == Change(Link(fs, p, q), {})
Delete(p) == Change(Remove(fs, p, TRUE), Under(p))
Move(p, q) == Change(Rename(fs, p, q), Under(p) \union Under(q))

LockStep(l) == Grant(l) \/ Busy(l) \/ Sleep(l)

Next ==
  \/ \E l \in Lockers :
       \/ \E p \in Path, shared, block \in BOOLEAN : Resolve(l, p, shared, block)
       \/ LockStep(l)
       \/ Close(l)
  \/ \E p \in Path : Create(p) \/ Delete(p)
  \/ \E p, q \in Path : Alias(p, q)
  \/ \E m \in Moves : Move(m[1], m[2])

\* A runnable goroutine takes its turn; whoever holds a lock closes it.
Fairness == \A l \in Lockers : WF_vars(LockStep(l)) /\ WF_vars(Close(l))

Spec == Init /\ [][Next]_vars /\ Fairness

-------------------------------------------------------------------------------
Holds(l, k) == call[l].st = "held" /\ call[l].key = k

TypeOK ==
  /\ \A l \in Lockers : call[l].st \in {"idle", "trying", "asleep", "held"}
  /\ \A k \in DOMAIN table : table[k] \in [readers : Nat, writer : BOOLEAN]

\* The names under which the file of a lock is known now.
Locked(l) == {p \in Names(fs) : Canon(fs, p) = Canon(fs, call[l].key)}

\* Two locks of one file, taken through whichever of its names, are never
\* held at once when one of them is exclusive - as long as the canonical
\* path under which each was taken has stayed with the file (memLockState,
\* keyed by canon).
Exclusion ==
  \A l, m \in Lockers :
    /\ l # m /\ call[l].st = "held" /\ call[m].st = "held"
    /\ call[l].bound /\ call[m].bound
    /\ Locked(l) \cap Locked(m) # {}
    => call[l].shared /\ call[m].shared

\* A goroutine sleeps in Lock only while someone holds a lock that excludes
\* it: no Close leaves behind a sleeper that could go on (lockCond.Broadcast).
SleeperIsExcluded ==
  \A l \in Lockers : call[l].st = "asleep" =>
    \E m \in Lockers : /\ Holds(m, call[l].key)
                       /\ ~(call[l].shared /\ call[m].shared)

\* Every lock call comes to an end once the locks that are held get closed:
\* a blocked call is granted (calls are bounded, so others stop arriving).
LockReturns ==
  \A l \in Lockers : call[l].st \in {"trying", "asleep"} ~> call[l].st \in {"held", "idle"}
===============================================================================
