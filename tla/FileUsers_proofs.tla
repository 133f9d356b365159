-------------------------- MODULE FileUsers_proofs ---------------------------
(***************************************************************************)
(* Proofs about two users of a file tree.                                  *)
(*                                                                         *)
(* The locks of the in-memory files, for any goroutines, any number of     *)
(* calls and any changes of the files meanwhile: what the table says of a  *)
(* key is what its holders hold, and nobody sleeps beside a lock that      *)
(* would be granted.                                                       *)
(*                                                                         *)
(* The overlay, for any lower tree and any calls of one caller: the union  *)
(* of the layers is the plain tree the same calls would have made.         *)
(***************************************************************************)
EXTENDS MemLocks, Overlay, FileTree_proofs, FiniteSetTheorems


Readers(k) == {l \in Lockers : Holds(l, k) /\ call[l].shared}
Writers(k) == {l \in Lockers : Holds(l, k) /\ ~call[l].shared}

IsCall(c) == /\ c = [st |-> c.st, key |-> c.key, shared |-> c.shared, block |-> c.block,
                     bound |-> c.bound]
             /\ c.shared \in BOOLEAN

Shape == /\ call = [l \in Lockers |-> call[l]]
         /\ \A l \in Lockers : IsCall(call[l])
         /\ \A k : State(k) \in [readers : Nat, writer : BOOLEAN]

\* The counter and the flag of a key are its holders, of which a writer is alone.
TableTells == \A k : /\ State(k).readers = Cardinality(Readers(k))
                     /\ State(k).writer <=> Writers(k) # {}
WriterIsAlone == \A k : \A l \in Writers(k) : Readers(k) = {} /\ Writers(k) = {l}

\* A sleeper's last turn would end the same way now.
SleepersWait ==
    \A l \in Lockers : call[l].st = "asleep" => ~Grantable(call[l].key, call[l].shared)

Inv == Shape /\ TableTells /\ WriterIsAlone /\ SleepersWait

\* Holders of one path key are many readers or one writer.
KeyExclusion ==
    \A k : \A l, m \in Lockers :
        l # m /\ Holds(l, k) /\ Holds(m, k) => call[l].shared /\ call[m].shared

\* There are finitely many holders.
LEMMA HoldersFinite == \A k : IsFiniteSet(Readers(k)) /\ IsFiniteSet(Readers(k))'
<1> SUFFICES ASSUME NEW k PROVE IsFiniteSet(Readers(k)) /\ IsFiniteSet(Readers(k))'
  OBVIOUS
<1>1. Readers(k) \subseteq Lockers /\ Readers(k)' \subseteq Lockers
  BY DEF Readers
<1> QED BY <1>1, MemLocksAssumption, FS_Subset

\* What the table says after an entry has been stored.
LEMMA PutState ==
    ASSUME NEW k, NEW st, table' = Put(k, st)
    PROVE  State(k)' = st /\ \A j : j # k => State(j)' = State(j)
BY DEF Put, State

\* The flag of an entry is set or reset.
LEMMA SetWriter ==
    ASSUME NEW st, NEW w, st \in [readers : Nat, writer : BOOLEAN]
    PROVE  [st EXCEPT !.writer = w] = [readers |-> st.readers, writer |-> w]
OBVIOUS

\* The invariants say what the properties say.
LEMMA InvSafe == Inv => SleeperIsExcluded /\ KeyExclusion
<1> SUFFICES ASSUME Inv PROVE SleeperIsExcluded /\ KeyExclusion
  OBVIOUS
<1>1. KeyExclusion
  BY DEF Inv, Shape, IsCall, WriterIsAlone, KeyExclusion, Readers, Writers
<1>2. ASSUME NEW l \in Lockers, call[l].st = "asleep"
      PROVE  \E m \in Lockers : Holds(m, call[l].key) /\ ~(call[l].shared /\ call[m].shared)
  <2>1. PICK k : k = call[l].key
    OBVIOUS
  <2>2. State(k).writer \/ (~call[l].shared /\ State(k).readers # 0)
    BY <1>2, <2>1 DEF Inv, SleepersWait, Grantable
  <2>3. CASE State(k).writer
    <3>1. PICK m \in Writers(k) : TRUE
      BY <2>3 DEF Inv, TableTells
    <3> QED BY <2>1, <3>1 DEF Writers
  <2>4. CASE ~call[l].shared /\ State(k).readers # 0
    <3>1. Readers(k) # {}
      BY <2>4, FS_EmptySet DEF Inv, TableTells
    <3>2. PICK m \in Readers(k) : TRUE
      BY <3>1
    <3> QED BY <2>1, <2>4, <3>2 DEF Readers
  <2> QED BY <2>2, <2>3, <2>4
<1> QED BY <1>1, <1>2 DEF SleeperIsExcluded

\* Nobody has called Lock.
LEMMA InitInv == Init => Inv
<1> SUFFICES ASSUME Init PROVE Inv
  OBVIOUS
<1>1. \A l \in Lockers : call[l] = Idle
  BY DEF Init
<1>2. \A k : State(k) = Free
  BY DEF Init, State
<1>3. \A k : Readers(k) = {} /\ Writers(k) = {}
  BY <1>1 DEF Readers, Writers, Holds, Idle
<1>4. Shape
  BY <1>1, <1>2 DEF Init, Shape, IsCall, Idle, Free
<1>5. TableTells
  BY <1>2, <1>3, FS_EmptySet DEF TableTells, Free
<1>6. WriterIsAlone /\ SleepersWait
  BY <1>1, <1>3 DEF WriterIsAlone, SleepersWait, Idle
<1> QED BY <1>4, <1>5, <1>6 DEF Inv

\* A step that grants and releases nothing, and sends nobody to sleep who
\* would be granted the lock.
LEMMA QuietStep ==
    ASSUME Inv, UNCHANGED table,
           call' = [l \in Lockers |-> call'[l]],
           \A l \in Lockers :
              /\ IsCall(call'[l])
              /\ call'[l].st = "held" <=> call[l].st = "held"
              /\ call[l].st = "held" =>
                    call'[l].key = call[l].key /\ call'[l].shared = call[l].shared
              /\ call'[l].st = "asleep" => ~Grantable(call'[l].key, call'[l].shared)
    PROVE  Inv'
<1>1. \A k : State(k)' = State(k)
  BY DEF State
<1>2. \A k : Readers(k)' = Readers(k) /\ Writers(k)' = Writers(k)
  BY DEF Readers, Writers, Holds
<1>3. Shape'
  BY <1>1 DEF Inv, Shape, IsCall
<1>4. TableTells' /\ WriterIsAlone'
  BY <1>1, <1>2 DEF Inv, TableTells, WriterIsAlone
<1>5. SleepersWait'
  BY <1>1 DEF SleepersWait, Grantable
<1> QED BY <1>3, <1>4, <1>5 DEF Inv

\* The calls of Lock that end or go to sleep, and the first half of Lock.
LEMMA WaitStep ==
    ASSUME Inv, NEW l \in Lockers,
           \/ \E p \in Path, shared, block \in BOOLEAN : Resolve(l, p, shared, block)
           \/ Busy(l)
           \/ Sleep(l)
    PROVE  Inv'
<1>1. PICK c : /\ call' = [call EXCEPT ![l] = c]
               /\ IsCall(c) /\ c.st # "held"
               /\ c.st = "asleep" => ~Grantable(c.key, c.shared)
  <2>1. ASSUME NEW p \in Path, NEW shared \in BOOLEAN, NEW block \in BOOLEAN,
               Resolve(l, p, shared, block)
        PROVE  \E c : /\ call' = [call EXCEPT ![l] = c]
                      /\ IsCall(c) /\ c.st # "held"
                      /\ c.st = "asleep" => ~Grantable(c.key, c.shared)
    <3> DEFINE c == [st |-> "trying", key |-> Canon(fs, p), shared |-> shared,
                     block |-> block, bound |-> TRUE]
    <3>1. call' = [call EXCEPT ![l] = c]
      BY <2>1 DEF Resolve
    <3>2. IsCall(c) /\ c.st # "held" /\ c.st # "asleep"
      BY DEF IsCall
    <3> HIDE DEF c
    <3> QED BY <3>1, <3>2
  <2>2. CASE Busy(l)
    <3>1. call' = [call EXCEPT ![l] = Idle]
      BY <2>2 DEF Busy
    <3>2. IsCall(Idle) /\ Idle.st = "idle"
      BY DEF Idle, IsCall
    <3> QED BY <3>1, <3>2
  <2>3. CASE Sleep(l)
    <3> DEFINE c == [call[l] EXCEPT !.st = "asleep"]
    <3>1. /\ call' = [call EXCEPT ![l] = c]
          /\ ~Grantable(call[l].key, call[l].shared)
      BY <2>3 DEF Sleep
    <3>2. c = [st |-> "asleep", key |-> call[l].key, shared |-> call[l].shared,
               block |-> call[l].block, bound |-> call[l].bound]
      BY DEF Inv, Shape, IsCall
    <3>3. IsCall(c) /\ c.st # "held" /\ ~Grantable(c.key, c.shared)
      BY <3>1, <3>2 DEF Inv, Shape, IsCall
    <3> HIDE DEF c
    <3> QED BY <3>1, <3>3
  <2> QED BY <2>1, <2>2, <2>3
<1>2. /\ call' = [m \in Lockers |-> call'[m]]
      /\ call'[l] = c /\ \A m \in Lockers : m # l => call'[m] = call[m]
  BY <1>1 DEF Inv, Shape
<1>3. UNCHANGED table /\ call[l].st # "held"
  BY DEF Resolve, Busy, Sleep
<1> QED BY <1>1, <1>2, <1>3, QuietStep DEF Inv, Shape, SleepersWait

\* A turn that takes the lock: the holders and the entry of the key change.
LEMMA GrantStep ==
    ASSUME Inv, NEW l \in Lockers, Grant(l)
    PROVE  Inv'
<1>1. PICK k : k = call[l].key
  OBVIOUS
<1>2. /\ call[l].st = "trying" /\ Grantable(k, call[l].shared)
      /\ table' = Put(k, IF call[l].shared THEN [State(k) EXCEPT !.readers = @ + 1]
                                           ELSE [State(k) EXCEPT !.writer = TRUE])
      /\ call' = [call EXCEPT ![l] = [call[l] EXCEPT !.st = "held"]]
  BY <1>1 DEF Grant
<1>3. [call[l] EXCEPT !.st = "held"]
        = [st |-> "held", key |-> k, shared |-> call[l].shared,
           block |-> call[l].block, bound |-> call[l].bound]
  BY <1>1 DEF Inv, Shape, IsCall
<1>4. /\ call' = [m \in Lockers |-> call'[m]]
      /\ call'[l] = [st |-> "held", key |-> k, shared |-> call[l].shared,
                     block |-> call[l].block, bound |-> call[l].bound]
      /\ \A m \in Lockers : m # l => call'[m] = call[m]
  BY <1>2, <1>3 DEF Inv, Shape
<1>5. /\ ~State(k).writer /\ Writers(k) = {} /\ call[l].shared \in BOOLEAN
      /\ State(k) \in [readers : Nat, writer : BOOLEAN]
  BY <1>2 DEF Grantable, Inv, TableTells, Shape, IsCall
<1>6. \A j : j # k => /\ State(j)' = State(j)
                      /\ Readers(j)' = Readers(j) /\ Writers(j)' = Writers(j)
  <2>1. \A j : j # k => State(j)' = State(j)
    BY <1>2, PutState
  <2>2. \A j : j # k => Readers(j)' = Readers(j) /\ Writers(j)' = Writers(j)
    BY <1>1, <1>2, <1>4 DEF Readers, Writers, Holds
  <2> QED BY <2>1, <2>2
<1>7. l \notin Readers(k)
  BY <1>2 DEF Readers, Holds
<1>8. CASE call[l].shared
  <2>1. State(k)' = [readers |-> State(k).readers + 1, writer |-> State(k).writer]
    <3>1. [State(k) EXCEPT !.readers = @ + 1]
            = [readers |-> State(k).readers + 1, writer |-> State(k).writer]
      BY <1>5
    <3> QED BY <1>2, <1>8, <3>1, PutState
  <2>2. Readers(k)' = Readers(k) \cup {l} /\ Writers(k)' = {}
    BY <1>4, <1>5, <1>8 DEF Readers, Writers, Holds
  <2>3. Shape'
    <3>1. State(k)' \in [readers : Nat, writer : BOOLEAN]
      BY <1>5, <2>1
    <3>2. IsCall(call'[l])
      BY <1>4, <1>5 DEF IsCall
    <3> QED BY <1>4, <1>6, <3>1, <3>2 DEF Inv, Shape
  <2>4. TableTells'
    <3>1. Cardinality(Readers(k) \cup {l}) = Cardinality(Readers(k)) + 1
      BY <1>7, HoldersFinite, FS_AddElement
    <3>2. /\ State(k)'.readers = Cardinality(Readers(k)')
          /\ State(k)'.writer <=> Writers(k)' # {}
      BY <1>5, <2>1, <2>2, <3>1 DEF Inv, TableTells
    <3> QED BY <1>6, <3>2 DEF Inv, TableTells
  <2>5. WriterIsAlone'
    BY <1>6, <2>2 DEF Inv, WriterIsAlone
  <2>6. SleepersWait'
    BY <1>2, <1>4, <1>5, <1>6, <2>1 DEF Inv, SleepersWait, Grantable
  <2> QED BY <2>3, <2>4, <2>5, <2>6 DEF Inv
<1>9. CASE ~call[l].shared
  <2>1. /\ State(k)' = [readers |-> State(k).readers, writer |-> TRUE]
        /\ State(k).readers = 0
    <3>1. State(k).readers = 0
      BY <1>2, <1>9 DEF Grantable
    <3>2. [State(k) EXCEPT !.writer = TRUE] = [readers |-> State(k).readers, writer |-> TRUE]
      BY <1>5, SetWriter
    <3> QED BY <1>2, <1>9, <3>1, <3>2, PutState
  <2>2. Readers(k) = {}
    BY <2>1, HoldersFinite, FS_EmptySet DEF Inv, TableTells
  <2>3. Readers(k)' = {} /\ Writers(k)' = {l}
    BY <1>4, <1>5, <1>9, <2>2 DEF Readers, Writers, Holds
  <2>4. Shape'
    <3>1. State(k)' \in [readers : Nat, writer : BOOLEAN]
      BY <1>5, <2>1
    <3>2. IsCall(call'[l])
      BY <1>4, <1>5 DEF IsCall
    <3> QED BY <1>4, <1>6, <3>1, <3>2 DEF Inv, Shape
  <2>5. TableTells'
    <3>1. State(k)'.readers = Cardinality(Readers(k)') /\ State(k)'.writer
      BY <2>1, <2>3, FS_EmptySet
    <3> QED BY <1>6, <2>3, <3>1 DEF Inv, TableTells
  <2>6. WriterIsAlone'
    BY <1>6, <2>3 DEF Inv, WriterIsAlone
  <2>7. SleepersWait'
    BY <1>2, <1>4, <1>5, <1>6, <2>1 DEF Inv, SleepersWait, Grantable
  <2> QED BY <2>4, <2>5, <2>6, <2>7 DEF Inv
<1> QED BY <1>8, <1>9

\* The lock is released and every sleeper takes another turn.
LEMMA CloseStep ==
    ASSUME Inv, NEW l \in Lockers, Close(l)
    PROVE  Inv'
<1>1. PICK k : k = call[l].key
  OBVIOUS
<1>2. /\ call[l].st = "held"
      /\ table' = Put(k, IF call[l].shared THEN [State(k) EXCEPT !.readers = @ - 1]
                                           ELSE [State(k) EXCEPT !.writer = FALSE])
      /\ call' = [m \in Lockers |-> IF m = l THEN Idle ELSE Woken(m)]
  BY <1>1 DEF Close
<1>3. \A m \in Lockers :
         /\ IsCall(Woken(m))
         /\ Woken(m).st = "held" <=> call[m].st = "held"
         /\ Woken(m).st # "asleep"
         /\ Woken(m).key = call[m].key /\ Woken(m).shared = call[m].shared
  <2> SUFFICES ASSUME NEW m \in Lockers
               PROVE  /\ IsCall(Woken(m))
                      /\ Woken(m).st = "held" <=> call[m].st = "held"
                      /\ Woken(m).st # "asleep"
                      /\ Woken(m).key = call[m].key /\ Woken(m).shared = call[m].shared
    OBVIOUS
  <2>1. CASE call[m].st # "asleep"
    BY <2>1 DEF Woken, Inv, Shape
  <2>2. CASE call[m].st = "asleep"
    <3>1. Woken(m) = [st |-> "trying", key |-> call[m].key, shared |-> call[m].shared,
                      block |-> call[m].block, bound |-> call[m].bound]
      BY <2>2 DEF Woken, Inv, Shape, IsCall
    <3> QED BY <2>2, <3>1 DEF Inv, Shape, IsCall
  <2> QED BY <2>1, <2>2
<1>4. IsCall(Idle) /\ Idle.st = "idle"
  BY DEF Idle, IsCall
<1>5. /\ call' = [m \in Lockers |-> call'[m]]
      /\ \A m \in Lockers : /\ IsCall(call'[m]) /\ call'[m].st # "asleep"
                            /\ m # l => /\ call'[m].st = "held" <=> call[m].st = "held"
                                        /\ call'[m].key = call[m].key
                                        /\ call'[m].shared = call[m].shared
      /\ call'[l].st # "held"
  BY <1>2, <1>3, <1>4
<1>6. SleepersWait'
  BY <1>5 DEF SleepersWait
<1>7. \A j : /\ j # k => State(j)' = State(j)
             /\ Readers(j)' = Readers(j) \ {l} /\ Writers(j)' = Writers(j) \ {l}
  <2>1. \A j : j # k => State(j)' = State(j)
    BY <1>2, PutState
  <2>2. \A j : Readers(j)' = Readers(j) \ {l} /\ Writers(j)' = Writers(j) \ {l}
    BY <1>5 DEF Readers, Writers, Holds
  <2> QED BY <2>1, <2>2
<1>8. \A j : j # k => Readers(j)' = Readers(j) /\ Writers(j)' = Writers(j)
  BY <1>1, <1>7 DEF Readers, Writers, Holds
<1>9. WriterIsAlone'
  <2> SUFFICES ASSUME NEW j, NEW m \in Writers(j)'
               PROVE  Readers(j)' = {} /\ Writers(j)' = {m}
    BY DEF WriterIsAlone
  <2>1. m \in Writers(j) /\ m # l
    BY <1>7
  <2>2. Readers(j) = {} /\ Writers(j) = {m}
    BY <2>1 DEF Inv, WriterIsAlone
  <2> QED BY <1>7, <2>1, <2>2
<1>10. State(k) \in [readers : Nat, writer : BOOLEAN] /\ call[l].shared \in BOOLEAN
  BY DEF Inv, Shape, IsCall
<1>11. CASE call[l].shared
  <2>1. l \in Readers(k) /\ l \notin Writers(k)
    BY <1>1, <1>2, <1>11 DEF Readers, Writers, Holds
  <2>2. Cardinality(Readers(k)') = State(k).readers - 1 /\ State(k).readers # 0
    <3>1. Cardinality(Readers(k) \ {l}) = Cardinality(Readers(k)) - 1
      BY <2>1, HoldersFinite, FS_RemoveElement
    <3>2. Cardinality(Readers(k)) # 0
      BY <2>1, HoldersFinite, FS_EmptySet
    <3> QED BY <1>7, <3>1, <3>2 DEF Inv, TableTells
  <2>3. State(k)' = [readers |-> State(k).readers - 1, writer |-> State(k).writer]
    <3>1. [State(k) EXCEPT !.readers = @ - 1]
            = [readers |-> State(k).readers - 1, writer |-> State(k).writer]
      BY <1>10
    <3> QED BY <1>2, <1>11, <3>1, PutState
  <2>4. Shape'
    <3>1. State(k)' \in [readers : Nat, writer : BOOLEAN]
      BY <1>10, <2>2, <2>3
    <3> QED BY <1>5, <1>7, <3>1 DEF Inv, Shape
  <2>5. TableTells'
    <3>1. Writers(k)' = Writers(k)
      BY <1>7, <2>1
    <3>2. /\ State(k)'.readers = Cardinality(Readers(k)')
          /\ State(k)'.writer <=> Writers(k)' # {}
      BY <2>2, <2>3, <3>1 DEF Inv, TableTells
    <3> QED BY <1>7, <1>8, <3>2 DEF Inv, TableTells
  <2> QED BY <1>6, <1>9, <2>4, <2>5 DEF Inv
<1>12. CASE ~call[l].shared
  <2>1. l \in Writers(k)
    BY <1>1, <1>2, <1>12 DEF Writers, Holds
  <2>2. Readers(k) = {} /\ Writers(k) = {l}
    BY <2>1 DEF Inv, WriterIsAlone
  <2>3. Readers(k)' = {} /\ Writers(k)' = {}
    BY <1>7, <2>2
  <2>4. State(k).readers = 0
    BY <2>2, FS_EmptySet DEF Inv, TableTells
  <2>5. State(k)' = [readers |-> State(k).readers, writer |-> FALSE]
    <3>1. [State(k) EXCEPT !.writer = FALSE] = [readers |-> State(k).readers, writer |-> FALSE]
      BY <1>10, SetWriter
    <3> QED BY <1>2, <1>12, <3>1, PutState
  <2>6. Shape'
    <3>1. State(k)' \in [readers : Nat, writer : BOOLEAN]
      BY <1>10, <2>5
    <3> QED BY <1>5, <1>7, <3>1 DEF Inv, Shape
  <2>7. TableTells'
    <3>1. /\ State(k)'.readers = Cardinality(Readers(k)')
          /\ State(k)'.writer <=> Writers(k)' # {}
      BY <2>3, <2>4, <2>5, FS_EmptySet
    <3> QED BY <1>7, <1>8, <3>1 DEF Inv, TableTells
  <2> QED BY <1>6, <1>9, <2>6, <2>7 DEF Inv
<1> QED BY <1>11, <1>12

\* The files change: at most a key is no longer that of its file.
LEMMA ChangeStep ==
    ASSUME Inv, NEW r, NEW vacated, Change(r, vacated)
    PROVE  Inv'
<1>1. UNCHANGED table /\ call' = [l \in Lockers |-> call'[l]]
  BY DEF Change
<1>2. ASSUME NEW l \in Lockers
      PROVE  /\ IsCall(call'[l])
             /\ call'[l].st = call[l].st
             /\ call'[l].key = call[l].key /\ call'[l].shared = call[l].shared
  <2>1. CASE call'[l] = call[l]
    BY <2>1 DEF Inv, Shape
  <2>2. CASE call'[l] = [call[l] EXCEPT !.bound = FALSE]
    <3>1. call'[l] = [st |-> call[l].st, key |-> call[l].key, shared |-> call[l].shared,
                      block |-> call[l].block, bound |-> FALSE]
      BY <2>2 DEF Inv, Shape, IsCall
    <3> QED BY <3>1 DEF Inv, Shape, IsCall
  <2> QED BY <2>1, <2>2 DEF Change
<1> QED BY <1>1, <1>2, QuietStep DEF Inv, SleepersWait

\* Every step keeps the invariant.
LEMMA NextInv == Inv /\ [Next]_vars => Inv'
<1> SUFFICES ASSUME Inv, [Next]_vars PROVE Inv'
  OBVIOUS
<1>1. ASSUME NEW l \in Lockers,
             \E p \in Path, shared, block \in BOOLEAN : Resolve(l, p, shared, block)
      PROVE  Inv'
  BY <1>1, WaitStep
<1>2. ASSUME NEW l \in Lockers, LockStep(l) PROVE Inv'
  BY <1>2, WaitStep, GrantStep DEF LockStep
<1>3. ASSUME NEW l \in Lockers, Close(l) PROVE Inv'
  BY <1>3, CloseStep
<1>4. ASSUME NEW p \in Path, Create(p) \/ Delete(p) PROVE Inv'
  BY <1>4, ChangeStep DEF Create, Delete
<1>5. ASSUME NEW p \in Path, NEW q \in Path, Alias(p, q) PROVE Inv'
  BY <1>5, ChangeStep DEF Alias
<1>6. ASSUME NEW m \in Moves, Move(m[1], m[2]) PROVE Inv'
  BY <1>6, ChangeStep DEF Move
<1>7. CASE UNCHANGED vars
  <2>1. UNCHANGED <<table, call>>
    BY <1>7 DEF vars
  <2> QED BY <2>1, QuietStep DEF Inv, Shape, SleepersWait
<1> QED BY <1>1, <1>2, <1>3, <1>4, <1>5, <1>6, <1>7 DEF Next

(***************************************************************************)
(* Who sleeps in Lock is kept out by a holder of the same key: no Close    *)
(* leaves behind a sleeper that could go on, although the sleepers of all  *)
(* files wait on one condition variable and turn up in any order.          *)
(***************************************************************************)
THEOREM SleepersAreExcluded == Spec => []SleeperIsExcluded
BY InitInv, NextInv, InvSafe, PTL DEF Spec

(***************************************************************************)
(* The holders of one canonical path are readers, or one writer, whatever  *)
(* happens to the files (Lock and memLock.Close keep the count and the     *)
(* flag of the path in step with them).                                    *)
(***************************************************************************)
THEOREM PathLocksExclude == Spec => []KeyExclusion
BY InitInv, NextInv, InvSafe, PTL DEF Spec

(***************************************************************************)
(* Locks taken through different names of a file.                          *)
(***************************************************************************)
AllPaths == Paths \ {Root}

\* Nothing is renamed into itself.
NoSelfMove == \A m \in Moves : ~Within(m[1], m[2])

\* The files are a tree, and the key of a bound call is a file or a
\* directory, so not an alias.
BoundKeys ==
    \A l \in Lockers : call[l].bound => call[l].key \in DOMAIN fs.files \union fs.dirs
FilesInv == Tree(fs, AllPaths) /\ BoundKeys

\* All paths but the root are a set of paths, of which moved ones stay members.
LEMMA AllPathsFacts ==
    /\ PathSet(AllPaths) /\ Path \subseteq AllPaths
    /\ \A p, q, x \in AllPaths : Remap(p, q, x) \in AllPaths
<1>1. PathSet(AllPaths)
  BY AncestorFacts DEF PathSet, AllPaths
<1>2. Path \subseteq AllPaths
  BY MemLocksAssumption DEF AllPaths, Paths
<1>3. ASSUME NEW p \in AllPaths, NEW q \in AllPaths, NEW x \in AllPaths
      PROVE  Remap(p, q, x) \in AllPaths
  <2>1. CASE ~Within(p, x)
    BY <2>1 DEF Remap
  <2>2. CASE Within(p, x)
    <3>1. PICK y : y = Remap(p, q, x)
      OBVIOUS
    <3>2. IsMoved(p, q, x, y)
      BY <2>2, <3>1, RemapMeans DEF AllPaths
    <3>3. y \in Paths /\ Within(q, y) /\ q \in Paths /\ q # Root
      BY <3>2 DEF IsMoved, AllPaths
    <3>4. Len(q) \in Nat /\ Len(q) # 0 /\ Len(q) <= Len(y)
      BY <3>3, EmptySeq DEF Paths, Root, Within
    <3>5. y # Root
      BY <3>4 DEF Root
    <3> QED BY <3>1, <3>3, <3>5 DEF AllPaths
  <2> QED BY <2>1, <2>2
<1> QED BY <1>1, <1>2, <1>3

\* There are no files and no calls.
LEMMA FilesInit == Init => FilesInv
<1> SUFFICES ASSUME Init PROVE FilesInv
  OBVIOUS
<1>1. Tree(fs, AllPaths)
  BY EmptyIsTree DEF Init
<1>2. \A l \in Lockers : ~call[l].bound
  BY DEF Init, Idle
<1> QED BY <1>1, <1>2 DEF FilesInv, BoundKeys

\* A change of the files unbinds whom it takes the key from.
LEMMA FilesChange ==
    ASSUME Inv, FilesInv, NEW r, NEW vacated, Change(r, vacated), Tree(r.fs, AllPaths),
           NEW S, Keeps(fs, r.fs, S), S \cap (DOMAIN fs.files \union fs.dirs) \subseteq vacated
    PROVE  FilesInv'
<1>1. fs' = r.fs
  BY DEF Change
<1>2. ASSUME NEW l \in Lockers, call'[l].bound
      PROVE  call'[l].key \in DOMAIN fs'.files \union fs'.dirs
  <2>1. CASE call[l].key \in vacated
    <3>1. call'[l] = [call[l] EXCEPT !.bound = FALSE]
      BY <2>1 DEF Change
    <3>2. IsCall(call[l])
      BY DEF Inv, Shape
    <3>3. call'[l].bound = FALSE
      BY <3>1, <3>2 DEF IsCall
    <3> QED BY <1>2, <3>3
  <2>2. CASE call[l].key \notin vacated
    <3>1. call'[l] = call[l]
      BY <2>2 DEF Change
    <3>2. call[l].key \in DOMAIN fs.files \union fs.dirs
      BY <1>2, <3>1 DEF FilesInv, BoundKeys
    <3> QED BY <1>1, <2>2, <3>1, <3>2 DEF Keeps
  <2> QED BY <2>1, <2>2
<1> QED BY <1>1, <1>2 DEF FilesInv, BoundKeys

\* WriteFile and Link take nothing away, Remove and Rename what they unbind.
LEMMA FilesMove ==
    ASSUME NoSelfMove, Inv, FilesInv,
           \/ \E p \in Path : Create(p) \/ Delete(p)
           \/ \E p, q \in Path : Alias(p, q)
           \/ \E m \in Moves : Move(m[1], m[2])
    PROVE  FilesInv'
<1>1. Tree(fs, AllPaths) /\ DOMAIN fs.files \union fs.dirs \subseteq Names(fs)
  BY DEF FilesInv, Names
<1>2. ASSUME NEW p \in Path, Create(p) PROVE FilesInv'
  <2>1. PICK r : r = WriteFile(fs, p, "data")
    OBVIOUS
  <2>2. Tree(r.fs, AllPaths) /\ Keeps(fs, r.fs, {}) /\ Change(r, {})
    BY <1>1, <1>2, <2>1, AllPathsFacts, WriteTree DEF Create
  <2> QED BY <2>2, FilesChange
<1>3. ASSUME NEW p \in Path, Delete(p) PROVE FilesInv'
  <2>1. PICK r : r = Remove(fs, p, TRUE)
    OBVIOUS
  <2>2. PICK S : S = {x \in Names(fs) : Within(p, x)}
    OBVIOUS
  <2>3. Tree(r.fs, AllPaths) /\ Keeps(fs, r.fs, S)
    BY <1>1, <2>1, <2>2, AllPathsFacts, RemoveIsTree
  <2>4. Change(r, Under(p))
    BY <1>3, <2>1 DEF Delete
  <2>5. S \cap (DOMAIN fs.files \union fs.dirs) \subseteq Under(p)
    BY <2>2 DEF Under
  <2> QED BY <2>3, <2>4, <2>5, FilesChange
<1>4. ASSUME NEW p \in Path, NEW q \in Path, Alias(p, q) PROVE FilesInv'
  <2>1. PICK r : r = Link(fs, p, q)
    OBVIOUS
  <2>2. Tree(r.fs, AllPaths) /\ Keeps(fs, r.fs, {}) /\ Change(r, {})
    BY <1>1, <1>4, <2>1, AllPathsFacts, LinkTree DEF Alias
  <2> QED BY <2>2, FilesChange
<1>5. ASSUME NEW p \in Path, NEW q \in Path, ~Within(p, q), Move(p, q) PROVE FilesInv'
  <2>1. PICK r : r = Rename(fs, p, q)
    OBVIOUS
  <2>2. p \in AllPaths /\ q \in AllPaths /\ Within(q, q)
    BY AllPathsFacts, WithinOrder DEF AllPaths
  <2>3. \A x \in Names(fs) : Remap(p, q, x) \in AllPaths
    BY <1>1, <2>2, AllPathsFacts DEF Tree, IsTree
  <2>4. Tree(r.fs, AllPaths) /\ Keeps(fs, r.fs, MovedOrReplaced(fs, p, q))
    BY <1>1, <1>5, <2>1, <2>2, <2>3, AllPathsFacts, RenameTree
  <2>5. Change(r, Under(p) \union Under(q))
    BY <1>5, <2>1 DEF Move
  <2>6. MovedOrReplaced(fs, p, q) \cap (DOMAIN fs.files \union fs.dirs)
          \subseteq Under(p) \union Under(q)
    BY <2>2 DEF MovedOrReplaced, Under
  <2> QED BY <2>4, <2>5, <2>6, FilesChange
<1>6. ASSUME NEW m \in Moves, Move(m[1], m[2]) PROVE FilesInv'
  <2>1. m[1] \in Path /\ m[2] \in Path /\ ~Within(m[1], m[2])
    BY MemLocksAssumption DEF NoSelfMove
  <2> QED BY <1>5, <1>6, <2>1
<1> QED BY <1>2, <1>3, <1>4, <1>6

\* The canonical path of a name that exists is a file or a directory; all
\* other steps of a call keep its key or unbind it.
LEMMA FilesNext == NoSelfMove /\ Inv /\ FilesInv /\ [Next]_vars => FilesInv'
<1> SUFFICES ASSUME NoSelfMove, Inv, FilesInv, [Next]_vars PROVE FilesInv'
  OBVIOUS
<1> USE DEF FilesInv
<1>1. ASSUME NEW l \in Lockers, NEW p \in Path, NEW shared \in BOOLEAN, NEW block \in BOOLEAN,
             Resolve(l, p, shared, block)
      PROVE  FilesInv'
  <2>1. PICK c : c = [st |-> "trying", key |-> Canon(fs, p), shared |-> shared,
                      block |-> block, bound |-> TRUE]
    OBVIOUS
  <2>2. fs' = fs /\ call' = [call EXCEPT ![l] = c] /\ Exists(fs, p)
    BY <1>1, <2>1 DEF Resolve
  <2>3. Canon(fs, p) \in DOMAIN fs.files \union fs.dirs
    BY <2>2 DEF Exists, IsFileEntry, Canon, Tree, IsTree
  <2>4. c.key \in DOMAIN fs.files \union fs.dirs
    BY <2>1, <2>3
  <2>5. call'[l] = c /\ \A m \in Lockers : m # l => call'[m] = call[m]
    BY <2>2 DEF Inv, Shape
  <2> QED BY <2>2, <2>4, <2>5 DEF BoundKeys
<1>2. ASSUME NEW l \in Lockers, LockStep(l) \/ Close(l)
      PROVE  FilesInv'
  <2>1. fs' = fs
    BY <1>2 DEF LockStep, Grant, Busy, Sleep, Close
  <2>2. Idle.bound = FALSE
    BY DEF Idle
  <2>3. \A c, s : IsCall(c) => /\ [c EXCEPT !.st = s].bound = c.bound
                               /\ [c EXCEPT !.st = s].key = c.key
    BY DEF IsCall
  <2>4. ASSUME NEW m \in Lockers
        PROVE  \/ call'[m] = Idle
               \/ call'[m].bound = call[m].bound /\ call'[m].key = call[m].key
    <3>1. IsCall(call[m]) /\ IsCall(call[l]) /\ call = [k \in Lockers |-> call[k]]
      BY DEF Inv, Shape
    <3>2. CASE Busy(l)
      BY <3>1, <3>2 DEF Busy
    <3>3. CASE Grant(l) \/ Sleep(l)
      <4>1. PICK s : call' = [call EXCEPT ![l] = [call[l] EXCEPT !.st = s]]
        BY <3>3 DEF Grant, Sleep
      <4>2. CASE m = l
        BY <2>3, <3>1, <4>1, <4>2
      <4>3. CASE m # l
        BY <3>1, <4>1, <4>3
      <4> QED BY <4>2, <4>3
    <3>4. CASE Close(l)
      BY <2>3, <3>1, <3>4 DEF Close, Woken
    <3> QED BY <1>2, <3>2, <3>3, <3>4 DEF LockStep
  <2> QED BY <2>1, <2>2, <2>4 DEF BoundKeys
<1>3. CASE UNCHANGED vars
  BY <1>3 DEF vars, BoundKeys
<1> QED BY <1>1, <1>2, <1>3, FilesMove DEF Next

\* Names of one file have one key, as long as the keys are not aliases.
LEMMA SameFileSameKey == Inv /\ FilesInv => Exclusion
<1> SUFFICES ASSUME Inv, FilesInv, NEW l \in Lockers, NEW m \in Lockers, l # m,
                    call[l].st = "held", call[m].st = "held", call[l].bound, call[m].bound,
                    Locked(l) \cap Locked(m) # {}
             PROVE  call[l].shared /\ call[m].shared
  BY DEF Exclusion
<1>1. Canon(fs, call[l].key) = Canon(fs, call[m].key)
  BY DEF Locked
<1>2. call[l].key \notin DOMAIN fs.links /\ call[m].key \notin DOMAIN fs.links
  BY DEF FilesInv, BoundKeys, Tree, IsTree
<1>3. call[l].key = call[m].key
  BY <1>1, <1>2 DEF Canon
<1>4. KeyExclusion
  BY InvSafe
<1> QED BY <1>3, <1>4 DEF KeyExclusion, Holds

(***************************************************************************)
(* Two locks of one file, taken through whichever of its names, are never  *)
(* held at once when one of them is exclusive, as long as the path under   *)
(* which each was taken has stayed with the file (Lock resolves to the     *)
(* canonical path, and a canonical path never becomes an alias).  No path  *)
(* is renamed to itself or below itself: Rename would delete it.           *)
(***************************************************************************)
THEOREM FileLocksExclude ==
    ASSUME NoSelfMove
    PROVE  Spec => []Exclusion
<1>1. Inv /\ FilesInv /\ [Next]_vars => (Inv /\ FilesInv)'
  BY NextInv, FilesNext
<1> QED BY <1>1, InitInv, FilesInit, SameFileSameKey, PTL DEF Spec

\* A path that lies in another one is it, or has it for an ancestor.
LEMMA BelowIsAncestor ==
    ASSUME NEW p \in Paths, p # Root, NEW x \in Paths, Within(p, x), x # p
    PROVE  p \in Ancestors(x)
<1>1. Len(p) \in Nat /\ Len(x) \in Nat /\ Len(p) # 0
  BY EmptySeq DEF Paths, Root
<1>2. Len(p) <= Len(x) /\ \A i \in 1 .. Len(p) : x[i] = p[i]
  BY WithinMeans
<1>3. Len(p) # Len(x)
  BY <1>2, SamePath
<1> QED
  BY <1>1, <1>2, <1>3, AncestorMeans

-----------------------------------------------------------------------------
(***************************************************************************)
(* The overlay, for one caller at a time.  Agree relates the two layers to *)
(* the plain tree the program should see: the upper layer comes first, the *)
(* lower one shows where no whiteout covers it, both as sets of paths.     *)
(* Every call is made of a few changes (directories recorded, a content    *)
(* stored, a name added, a tree removed or moved, a whiteout cleared, lower*)
(* entries copied up), each of which keeps Agree when it is made to the    *)
(* upper layer and to the plain tree.                                      *)
(***************************************************************************)
Covered(W, x) == \E w \in W : Within(w, x)
Mapping(f) == f = [x \in DOMAIN f |-> f[x]]

Layers(low, up, W, pl) ==
    /\ Tree(low, Path) /\ low.links = << >>
    /\ Tree(up, Path) /\ Tree(pl, Path) /\ W \subseteq Path

LinksAgree(up, pl) == up.links = pl.links /\ Mapping(up.links)

DirsAgree(low, up, W, pl) ==
    pl.dirs = up.dirs \union {x \in low.dirs : ~Covered(W, x)}

FilesAgree(low, up, W, pl) ==
    DOMAIN pl.files = DOMAIN up.files \union
        {x \in DOMAIN low.files : ~Covered(W, x) /\ x \notin Names(up)}

DataAgree(low, up, pl) ==
    \A x \in DOMAIN pl.files :
        pl.files[x] = IF x \in DOMAIN up.files THEN up.files[x] ELSE low.files[x]

\* No file of the upper layer is in the way of a directory that shows: what
\* copyUpTree would fail on.
NoClash(low, up, W) == \A x \in low.dirs : ~Covered(W, x) => ~IsFileEntry(up, x)

Agree(low, up, W, pl) ==
    /\ Layers(low, up, W, pl)
    /\ LinksAgree(up, pl) /\ DirsAgree(low, up, W, pl) /\ FilesAgree(low, up, W, pl)
    /\ DataAgree(low, up, pl) /\ NoClash(low, up, W)

Reached(low, up, W, pl) ==
    /\ Names(up) \subseteq Names(pl)
    /\ \A x \in Names(low) : ~Covered(W, x) => x \in Names(pl)
    /\ \A x \in Names(pl) : x \in Names(up) \/ (x \in Names(low) /\ ~Covered(W, x))
    /\ \A x : IsFileEntry(up, x) => IsFileEntry(pl, x)
    /\ \A x : IsFileEntry(pl, x) =>
          IsFileEntry(up, x) \/ (x \in DOMAIN low.files /\ ~Covered(W, x) /\ x \notin Names(up))
    /\ up.dirs \subseteq pl.dirs

\* The names of the plain tree are those of the upper layer and those of the
\* lower one that show.
LEMMA AgreeNames ==
    ASSUME NEW low, NEW up, NEW W, NEW pl, Agree(low, up, W, pl)
    PROVE  Reached(low, up, W, pl)
<1> USE DEF Agree, LinksAgree, DirsAgree, FilesAgree, Names, IsFileEntry
<1>1. DOMAIN low.links = {}
  BY DEF Layers
<1>2. Names(up) \subseteq Names(pl) /\ up.dirs \subseteq pl.dirs
  OBVIOUS
<1>3. \A x \in Names(low) : ~Covered(W, x) => x \in Names(pl)
  BY <1>1
<1>4. \A x \in Names(pl) : x \in Names(up) \/ (x \in Names(low) /\ ~Covered(W, x))
  OBVIOUS
<1>5. \A x : IsFileEntry(up, x) => IsFileEntry(pl, x)
  OBVIOUS
<1>6. \A x : IsFileEntry(pl, x) =>
         IsFileEntry(up, x) \/ (x \in DOMAIN low.files /\ ~Covered(W, x) /\ x \notin Names(up))
  OBVIOUS
<1> QED
  BY <1>2, <1>3, <1>4, <1>5, <1>6 DEF Reached

\* Directories are recorded where the plain tree has no file.
LEMMA RecordAgree ==
    ASSUME NEW low, NEW up, NEW W, NEW pl, Agree(low, up, W, pl),
           NEW D \in SUBSET Path,
           \A d \in D : Ancestors(d) \subseteq D /\ ~IsFileEntry(pl, d),
           NEW t, t = [up EXCEPT !.dirs = @ \union D],
           NEW u, u = [pl EXCEPT !.dirs = @ \union D]
    PROVE  /\ Agree(low, t, W, u)
           /\ t.files = up.files /\ t.links = up.links /\ t.dirs = up.dirs \union D
           /\ u.files = pl.files /\ u.links = pl.links /\ u.dirs = pl.dirs \union D
<1>1. Reached(low, up, W, pl)
  BY AgreeNames
<1>2. \A d \in D : ~IsFileEntry(up, d)
  BY <1>1 DEF Reached
<1>3. Tree(up, Path) /\ Tree(pl, Path)
  BY DEF Agree, Layers
<1>4. Tree(t, Path) /\ t.files = up.files /\ t.links = up.links /\ t.dirs = up.dirs \union D
  BY <1>2, <1>3, RecordTree
<1>5. Tree(u, Path) /\ u.files = pl.files /\ u.links = pl.links /\ u.dirs = pl.dirs \union D
  BY <1>3, RecordTree
<1>6. Layers(low, t, W, u)
  BY <1>4, <1>5 DEF Agree, Layers
<1>7. LinksAgree(t, u) /\ DirsAgree(low, t, W, u)
  BY <1>4, <1>5 DEF Agree, LinksAgree, DirsAgree
<1>8. FilesAgree(low, t, W, u)
  <2>1. \A x \in DOMAIN low.files : ~Covered(W, x) /\ x \notin Names(up) => x \notin D
    BY DEF Agree, FilesAgree, IsFileEntry
  <2>2. Names(t) = Names(up) \union D
    BY <1>4 DEF Names
  <2> QED
    BY <1>4, <1>5, <2>1, <2>2 DEF Agree, FilesAgree
<1>9. DataAgree(low, t, u)
  BY <1>4, <1>5 DEF Agree, DataAgree
<1>10. NoClash(low, t, W)
  BY <1>4 DEF Agree, NoClash, IsFileEntry
<1> QED
  BY <1>4, <1>5, <1>6, <1>7, <1>8, <1>9, <1>10 DEF Agree

\* A whiteout is cleared at a path of the upper layer, below which the lower
\* one has nothing.
LEMMA UncoverAgree ==
    ASSUME NEW low, NEW up, NEW W, NEW pl, Agree(low, up, W, pl), NEW p,
           p \in W => /\ p \in Names(up)
                      /\ \A x \in Names(low) : Within(p, x) => x = p
                      /\ ~(p \in low.dirs /\ IsFileEntry(up, p))
    PROVE  Agree(low, up, W \ {p}, pl)
<1>1. \A x \in Names(low) :
         Covered(W, x) => Covered(W \ {p}, x) \/ (x = p /\ p \in W)
  BY DEF Covered
<1>2. \A x : Covered(W \ {p}, x) => Covered(W, x)
  BY DEF Covered
<1>3. low.dirs \subseteq Names(low) /\ DOMAIN low.files \subseteq Names(low)
  BY DEF Names
<1>4. Layers(low, up, W \ {p}, pl)
  BY DEF Agree, Layers
<1>5. DirsAgree(low, up, W \ {p}, pl)
  <2>1. p \in W /\ p \in low.dirs => p \in up.dirs
    BY DEF Names, IsFileEntry
  <2> QED
    BY <1>1, <1>2, <1>3, <2>1 DEF Agree, DirsAgree
<1>6. FilesAgree(low, up, W \ {p}, pl)
  BY <1>1, <1>2, <1>3 DEF Agree, FilesAgree
<1>7. NoClash(low, up, W \ {p})
  BY <1>1, <1>2, <1>3 DEF Agree, NoClash
<1> QED
  BY <1>4, <1>5, <1>6, <1>7 DEF Agree

\* A content is stored at a canonical path whose directories are there.
LEMMA StoreTree ==
    ASSUME NEW tr, Tree(tr, Path), NEW c \in Path, NEW v,
           c \notin tr.dirs, c \notin DOMAIN tr.links, Ancestors(c) \subseteq tr.dirs,
           NEW t, t = [tr EXCEPT !.files = With(@, c, v)]
    PROVE  /\ Tree(t, Path) /\ t.dirs = tr.dirs /\ t.links = tr.links
           /\ t.files = With(tr.files, c, v)
           /\ Names(t) = Names(tr) \union {c}
<1>1. t = [files |-> With(tr.files, c, v), dirs |-> tr.dirs, links |-> tr.links]
  BY DEF Tree, IsFs
<1>2. t.dirs = tr.dirs /\ t.links = tr.links /\ t.files = With(tr.files, c, v) /\ IsFs(t)
  BY <1>1 DEF IsFs
<1>3. DOMAIN t.files = DOMAIN tr.files \union {c}
  BY <1>2 DEF With
<1>4. Names(t) = Names(tr) \union {c}
  BY <1>2, <1>3 DEF Names
<1>5. IsTree(t, Path)
  BY <1>2, <1>3, <1>4 DEF Tree, IsTree
<1> QED
  BY <1>2, <1>4, <1>5 DEF Tree

\* A content stored in both, under a name that is a directory in neither.
LEMMA StoreAgree ==
    ASSUME NEW low, NEW up, NEW W, NEW pl, Agree(low, up, W, pl), NEW c \in Path, NEW v,
           c \notin pl.dirs, c \notin DOMAIN up.links, Ancestors(c) \subseteq up.dirs,
           NEW t, t = [up EXCEPT !.files = With(@, c, v)],
           NEW u, u = [pl EXCEPT !.files = With(@, c, v)]
    PROVE  /\ Agree(low, t, W, u) /\ Names(t) = Names(up) \union {c}
           /\ t.links = up.links /\ t.dirs = up.dirs
<1>1. Reached(low, up, W, pl) /\ up.links = pl.links
  BY AgreeNames DEF Agree, LinksAgree
<1>2. /\ Tree(t, Path) /\ t.dirs = up.dirs /\ t.links = up.links
      /\ t.files = With(up.files, c, v) /\ Names(t) = Names(up) \union {c}
  BY <1>1, StoreTree DEF Agree, Layers, Reached
<1>3. /\ Tree(u, Path) /\ u.dirs = pl.dirs /\ u.links = pl.links
      /\ u.files = With(pl.files, c, v)
  BY <1>1, StoreTree DEF Agree, Layers, Reached
<1>4. /\ DOMAIN t.files = DOMAIN up.files \union {c} /\ DOMAIN u.files = DOMAIN pl.files \union {c}
      /\ t.files[c] = v /\ u.files[c] = v
      /\ \A x \in DOMAIN up.files : x # c => t.files[x] = up.files[x]
      /\ \A x \in DOMAIN pl.files : x # c => u.files[x] = pl.files[x]
  BY <1>2, <1>3 DEF With
<1>5. Layers(low, t, W, u) /\ LinksAgree(t, u) /\ DirsAgree(low, t, W, u)
  BY <1>2, <1>3 DEF Agree, Layers, LinksAgree, DirsAgree
<1>6. FilesAgree(low, t, W, u)
  BY <1>2, <1>4 DEF Agree, FilesAgree
<1>7. DataAgree(low, t, u)
  BY <1>4 DEF Agree, DataAgree
<1>8. NoClash(low, t, W)
  <2>1. \A x \in low.dirs : ~Covered(W, x) => x # c
    BY DEF Agree, DirsAgree
  <2> QED
    BY <1>2, <1>4, <2>1 DEF Agree, NoClash, IsFileEntry
<1> QED
  BY <1>2, <1>5, <1>6, <1>7, <1>8 DEF Agree

\* A name is added to a file of the upper layer.
LEMMA AliasTree ==
    ASSUME NEW tr, Tree(tr, Path), NEW q \in Path, NEW c \in DOMAIN tr.files,
           q \notin Names(tr), Ancestors(q) \subseteq tr.dirs,
           NEW t, t = [tr EXCEPT !.links = With(@, q, c)]
    PROVE  /\ Tree(t, Path) /\ t.dirs = tr.dirs /\ t.files = tr.files
           /\ t.links = With(tr.links, q, c)
           /\ Names(t) = Names(tr) \union {q}
<1>1. t = [files |-> tr.files, dirs |-> tr.dirs, links |-> With(tr.links, q, c)]
  BY DEF Tree, IsFs
<1>2. t.dirs = tr.dirs /\ t.files = tr.files /\ t.links = With(tr.links, q, c) /\ IsFs(t)
  BY <1>1 DEF IsFs
<1>3. /\ DOMAIN t.links = DOMAIN tr.links \union {q} /\ t.links[q] = c
      /\ \A x \in DOMAIN tr.links : x # q => t.links[x] = tr.links[x]
  BY <1>2 DEF With
<1>4. Names(t) = Names(tr) \union {q}
  BY <1>2, <1>3 DEF Names
<1>5. IsTree(t, Path)
  BY <1>2, <1>3, <1>4 DEF Tree, IsTree, Names
<1> QED
  BY <1>2, <1>4, <1>5 DEF Tree

\* A new hard link added to both.
LEMMA AliasAgree ==
    ASSUME NEW low, NEW up, NEW W, NEW pl, Agree(low, up, W, pl), NEW q \in Path,
           NEW c \in DOMAIN up.files, q \notin Names(pl), Ancestors(q) \subseteq up.dirs,
           NEW t, t = [up EXCEPT !.links = With(@, q, c)],
           NEW u, u = [pl EXCEPT !.links = With(@, q, c)]
    PROVE  Agree(low, t, W, u) /\ Names(t) = Names(up) \union {q}
<1>1. Reached(low, up, W, pl) /\ up.links = pl.links /\ c \in DOMAIN pl.files
  BY AgreeNames DEF Agree, LinksAgree, FilesAgree
<1>2. /\ Tree(t, Path) /\ t.dirs = up.dirs /\ t.files = up.files
      /\ t.links = With(up.links, q, c) /\ Names(t) = Names(up) \union {q}
  BY <1>1, AliasTree DEF Agree, Layers, Reached
<1>3. /\ Tree(u, Path) /\ u.dirs = pl.dirs /\ u.files = pl.files
      /\ u.links = With(pl.links, q, c)
  BY <1>1, AliasTree DEF Agree, Layers, Reached
<1>4. Layers(low, t, W, u) /\ LinksAgree(t, u) /\ DirsAgree(low, t, W, u) /\ DataAgree(low, t, u)
  <2>1. Mapping(With(up.links, q, c))
    BY DEF Mapping, With
  <2> QED
    BY <1>1, <1>2, <1>3, <2>1 DEF Agree, Layers, LinksAgree, DirsAgree, DataAgree
<1>5. \A x \in Names(low) : ~Covered(W, x) => x # q
  BY <1>1 DEF Reached
<1>6. FilesAgree(low, t, W, u)
  BY <1>2, <1>3, <1>5 DEF Agree, FilesAgree, Names
<1>7. NoClash(low, t, W)
  <2>1. DOMAIN t.links = DOMAIN up.links \union {q}
    BY <1>2 DEF With
  <2> QED
    BY <1>2, <1>5, <2>1 DEF Agree, NoClash, IsFileEntry, Names
<1> QED
  BY <1>2, <1>4, <1>6, <1>7 DEF Agree

\* t is the upper layer with the lower entries N copied into it.
Copied(low, up, N, t) ==
    /\ IsFs(t) /\ t.links = up.links
    /\ t.dirs = up.dirs \union (N \cap low.dirs)
    /\ DOMAIN t.files = DOMAIN up.files \union (N \cap DOMAIN low.files)
    /\ \A x \in DOMAIN t.files :
          t.files[x] = IF x \in DOMAIN up.files THEN up.files[x] ELSE low.files[x]

\* Copying up what shows changes nothing for the program.
LEMMA CopyAgree ==
    ASSUME NEW low, NEW up, NEW W, NEW pl, Agree(low, up, W, pl), NEW N,
           \A x \in N : /\ x \in Names(low) /\ ~Covered(W, x)
                        /\ x \in DOMAIN low.files => x \notin Names(up)
                        /\ Ancestors(x) \subseteq N \union up.dirs,
           NEW t, Copied(low, up, N, t)
    PROVE  Agree(low, t, W, pl) /\ Names(t) = Names(up) \union N
<1>1. /\ Tree(low, Path) /\ Tree(up, Path) /\ Tree(pl, Path) /\ DOMAIN low.links = {}
  BY DEF Agree, Layers
<1>2. N \subseteq DOMAIN low.files \union low.dirs
  BY <1>1 DEF Names
<1>3. DOMAIN low.files \cap low.dirs = {}
  BY <1>1 DEF Tree, IsTree
<1>4. Names(t) = Names(up) \union N
  BY <1>2 DEF Copied, Names
<1>5. \A x \in N : x \in low.dirs => ~IsFileEntry(up, x)
  BY DEF Agree, NoClash
<1>6. IsTree(t, Path)
  <2>1. DOMAIN t.files \cap DOMAIN t.links = {}
    BY <1>1 DEF Copied, Tree, IsTree, Names
  <2>2. t.dirs \cap (DOMAIN t.files \union DOMAIN t.links) = {}
    BY <1>1, <1>3, <1>5 DEF Copied, Tree, IsTree, Names, IsFileEntry
  <2>3. \A a \in DOMAIN t.links : t.links[a] \in DOMAIN t.files
    BY <1>1 DEF Copied, Tree, IsTree
  <2>4. ASSUME NEW x \in Names(t) PROVE x \in Path /\ Ancestors(x) \subseteq t.dirs
    <3>1. CASE x \in Names(up)
      BY <1>1, <3>1 DEF Copied, Tree, IsTree
    <3>2. CASE x \in N
      <4>1. x \in Path /\ Ancestors(x) \subseteq low.dirs
        BY <1>1, <3>2 DEF Tree, IsTree
      <4> QED
        BY <3>2, <4>1 DEF Copied
    <3> QED
      BY <1>4, <2>4, <3>1, <3>2
  <2> QED
    BY <2>1, <2>2, <2>3, <2>4 DEF IsTree
<1>7. Layers(low, t, W, pl)
  BY <1>6 DEF Agree, Layers, Copied, Tree
<1>8. LinksAgree(t, pl) /\ DirsAgree(low, t, W, pl)
  BY DEF Agree, LinksAgree, DirsAgree, Copied
<1>9. FilesAgree(low, t, W, pl)
  <2>1. \A x \in DOMAIN low.files : x \in N => ~Covered(W, x) /\ x \notin Names(up)
    OBVIOUS
  <2> QED
    BY <1>4, <2>1 DEF Agree, FilesAgree, Copied
<1>10. DataAgree(low, t, pl)
  BY DEF Agree, DataAgree, Copied
<1>11. NoClash(low, t, W)
  BY <1>3 DEF Agree, NoClash, Copied, IsFileEntry
<1> QED
  BY <1>4, <1>7, <1>8, <1>9, <1>10, <1>11 DEF Agree

(***************************************************************************)
(* Removing a tree.  Which aliases inherit a content, and where the others *)
(* then lead, depends on the aliases and on the path removed only; so two  *)
(* trees with the same aliases have the same aliases afterwards.           *)
(***************************************************************************)
Heir(L, c) == CHOOSE a \in {b \in DOMAIN L : L[b] = c} : TRUE
Heirs(L, M) == {Heir(L, c) : c \in M}
LinksAfter(L, M) ==
    [a \in DOMAIN L \ Heirs(L, M) |-> IF L[a] \in M THEN Heir(L, L[a]) ELSE L[a]]

\* The aliases outside of p, and the contents in p that they keep.
Rest(links, p) == Restrict(links, {a \in DOMAIN links : ~Within(p, a)})
Vacated(links, p) == {Rest(links, p)[a] : a \in {b \in DOMAIN Rest(links, p) :
                                                   Within(p, Rest(links, p)[b])}}
Inherit(links, p) == Heirs(Rest(links, p), Vacated(links, p))

\* t is tr without what lies in p.
Removed(tr, t, p) ==
    /\ t.dirs = {x \in tr.dirs : ~Within(p, x)}
    /\ t.links = LinksAfter(Rest(tr.links, p), Vacated(tr.links, p))
    /\ DOMAIN t.files = {x \in DOMAIN tr.files : ~Within(p, x)} \union Inherit(tr.links, p)
    /\ \A x \in DOMAIN t.files :
          t.files[x] = IF x \in Inherit(tr.links, p) THEN tr.files[tr.links[x]] ELSE tr.files[x]
    /\ Names(t) = {x \in Names(tr) : ~Within(p, x)}

\* Whoever inherits is an alias left, of a content that goes.
LEMMA InheritFacts ==
    ASSUME NEW links, NEW p
    PROVE  \A x \in Inherit(links, p) : /\ x \in DOMAIN links /\ ~Within(p, x)
                                        /\ links[x] \in Vacated(links, p)
<1> DEFINE L == Rest(links, p)
           V == Vacated(links, p)
<1>1. /\ DOMAIN L = {a \in DOMAIN links : ~Within(p, a)}
      /\ \A a \in DOMAIN L : L[a] = links[a]
  BY DEF Rest, Restrict
<1>2. \A c \in V : \E b \in DOMAIN L : L[b] = c
  BY DEF Vacated
<1> HIDE DEF L, V
<1>3. \A c \in V : Heir(L, c) \in DOMAIN L /\ L[Heir(L, c)] = c
  <2> SUFFICES ASSUME NEW c \in V PROVE Heir(L, c) \in {b \in DOMAIN L : L[b] = c}
    OBVIOUS
  <2>1. {b \in DOMAIN L : L[b] = c} # {}
    BY <1>2
  <2> QED
    BY <2>1 DEF Heir
<1>4. Inherit(links, p) = {Heir(L, c) : c \in V}
  BY DEF Inherit, Heirs, L, V
<1> QED
  BY <1>1, <1>3, <1>4 DEF V

\* t is tr without the names in p, the directories left alone.
Unlinked(tr, t, p) ==
    /\ t.dirs = tr.dirs
    /\ t.links = LinksAfter(Rest(tr.links, p), Vacated(tr.links, p))
    /\ DOMAIN t.files = {x \in DOMAIN tr.files : ~Within(p, x)} \union Inherit(tr.links, p)
    /\ \A x \in DOMAIN t.files :
          t.files[x] = IF x \in Inherit(tr.links, p) THEN tr.files[tr.links[x]] ELSE tr.files[x]

\* removeFileEntry for all names in p.
LEMMA UnlinkRemoves ==
    ASSUME NEW P, NEW tr, Tree(tr, P), NEW p,
           NEW S, S = {x \in Names(tr) : Within(p, x)},
           NEW t, t = Unlink(tr, S)
    PROVE  Unlinked(tr, t, p)
<1> DEFINE L == Restrict(tr.links, DOMAIN tr.links \ S)
           Al(c) == {a \in DOMAIN L : L[a] = c}
           He(c) == CHOOSE a \in Al(c) : TRUE
           Mo == {c \in DOMAIN tr.files \cap S : Al(c) # {}}
           Hs == {He(c) : c \in Mo}
           F == [x \in (DOMAIN tr.files \ S) \union Hs |->
                   IF x \in Hs THEN tr.files[L[x]] ELSE tr.files[x]]
           K == [a \in DOMAIN L \ Hs |-> IF L[a] \in Mo THEN He(L[a]) ELSE L[a]]
<1>1. t = [tr EXCEPT !.files = F, !.links = K]
  BY DEF Unlink
<1>2. t.files = F /\ t.dirs = tr.dirs /\ t.links = K
  <2> HIDE DEF F, K
  <2>1. t = [files |-> F, dirs |-> tr.dirs, links |-> K]
    BY <1>1 DEF Tree, IsFs
  <2> QED
    BY <2>1
<1>3. DOMAIN tr.links \ S = {a \in DOMAIN tr.links : ~Within(p, a)}
  BY DEF Names
<1>4. L = Rest(tr.links, p)
  BY <1>3 DEF Rest
<1>5. /\ DOMAIN L = DOMAIN tr.links \ S
      /\ \A a \in DOMAIN L : L[a] = tr.links[a] /\ L[a] \in DOMAIN tr.files
  BY DEF Restrict, Tree, IsTree
<1>6. \A c : He(c) = Heir(L, c)
  BY DEF Heir
<1>7. Mo = Vacated(tr.links, p)
  <2>1. Vacated(tr.links, p) = {L[a] : a \in {b \in DOMAIN L : Within(p, L[b])}}
    BY <1>4 DEF Vacated
  <2>2. \A c \in DOMAIN tr.files : c \in S <=> Within(p, c)
    BY DEF Names
  <2> HIDE DEF L
  <2>3. ASSUME NEW c \in Mo PROVE c \in Vacated(tr.links, p)
    BY <2>1, <2>2, <2>3
  <2>4. ASSUME NEW c \in Vacated(tr.links, p) PROVE c \in Mo
    BY <1>5, <2>1, <2>2, <2>4
  <2> QED
    BY <2>3, <2>4
<1> HIDE DEF L, Al, He, Mo
<1>8. Hs = Heirs(L, Mo)
  BY <1>6 DEF Heirs
<1>9. Hs = Inherit(tr.links, p)
  BY <1>4, <1>7, <1>8 DEF Inherit
<1>10. K = LinksAfter(L, Mo)
  <2>1. ASSUME NEW a \in DOMAIN L \ Hs
        PROVE  (IF L[a] \in Mo THEN He(L[a]) ELSE L[a])
                 = (IF L[a] \in Mo THEN Heir(L, L[a]) ELSE L[a])
    BY <1>6
  <2> HIDE DEF Hs
  <2> QED
    BY <1>8, <2>1 DEF LinksAfter
<1>11. DOMAIN tr.files \ S = {x \in DOMAIN tr.files : ~Within(p, x)}
  BY DEF Names
<1> HIDE DEF Hs
<1>12. /\ DOMAIN F = (DOMAIN tr.files \ S) \union Hs
       /\ \A x \in DOMAIN F : F[x] = IF x \in Hs THEN tr.files[L[x]] ELSE tr.files[x]
  OBVIOUS
<1> HIDE DEF F, K
<1>13. \A x \in Hs : L[x] = tr.links[x]
  BY <1>3, <1>5, <1>9, InheritFacts
<1> QED
  BY <1>2, <1>4, <1>7, <1>9, <1>10, <1>11, <1>12, <1>13 DEF Unlinked

\* removeTree, the removal of a file, and of a path that is not there.
LEMMA RemovedByTree ==
    ASSUME NEW P, PathSet(P), NEW tr, Tree(tr, P), NEW p \in Paths,
           NEW t, t = RemoveTree(tr, p)
    PROVE  Tree(t, P) /\ Removed(tr, t, p)
<1>1. PICK S : S = {x \in Names(tr) : Within(p, x)}
  OBVIOUS
<1>2. PICK u : u = Unlink(tr, S)
  OBVIOUS
<1>3. Unlinked(tr, u, p)
  BY <1>1, <1>2, UnlinkRemoves
<1>4. t = [u EXCEPT !.dirs = @ \ S]
  BY <1>1, <1>2 DEF RemoveTree
<1>5. IsFs(u)
  BY <1>2, UnlinkTree DEF Tree
<1>6. t.files = u.files /\ t.dirs = tr.dirs \ S /\ t.links = u.links
  <2>1. t = [files |-> u.files, dirs |-> u.dirs \ S, links |-> u.links]
    BY <1>4, <1>5 DEF IsFs
  <2> QED
    BY <1>3, <2>1 DEF Unlinked
<1>7. tr.dirs \ S = {x \in tr.dirs : ~Within(p, x)}
  BY <1>1 DEF Names
<1>8. Tree(t, P) /\ Names(t) = {x \in Names(tr) : ~Within(p, x)}
  BY RemoveTreeTree
<1> QED
  BY <1>3, <1>6, <1>7, <1>8 DEF Removed, Unlinked

\* Removing a file removes what lies at or below its path: itself.
LEMMA RemovedByUnlink ==
    ASSUME NEW P, PathSet(P), NEW tr, Tree(tr, P), NEW p \in P, IsFileEntry(tr, p),
           NEW t, t = Unlink(tr, {p})
    PROVE  Tree(t, P) /\ Removed(tr, t, p)
<1>1. p \in Paths /\ Within(p, p) /\ p \in Names(tr)
  BY WithinOrder DEF PathSet, IsFileEntry, Names
<1>2. \A x \in Names(tr) : Within(p, x) => x = p
  BY NothingBelow DEF IsDir
<1>3. {p} = {x \in Names(tr) : Within(p, x)}
  BY <1>1, <1>2
<1>4. Unlinked(tr, t, p)
  BY <1>3, UnlinkRemoves
<1>5. p \notin tr.dirs
  BY DEF Tree, IsTree, IsFileEntry
<1>6. tr.dirs = {x \in tr.dirs : ~Within(p, x)}
  BY <1>2, <1>5 DEF Names
<1>7. /\ Tree(t, P)
      /\ DOMAIN t.files \union DOMAIN t.links = (DOMAIN tr.files \union DOMAIN tr.links) \ {p}
  BY UnlinkTree
<1>8. Names(t) = {x \in Names(tr) : ~Within(p, x)}
  BY <1>1, <1>2, <1>4, <1>5, <1>7 DEF Names, Unlinked
<1> QED
  BY <1>4, <1>6, <1>7, <1>8 DEF Removed, Unlinked

\* Where nothing lies at or below a path, nothing has to be removed.
LEMMA RemovedByNothing ==
    ASSUME NEW P, NEW tr, Tree(tr, P), NEW p, \A x \in Names(tr) : ~Within(p, x),
           Mapping(tr.links)
    PROVE  Removed(tr, tr, p)
<1>1. \A x \in DOMAIN tr.links : ~Within(p, x) /\ ~Within(p, tr.links[x])
  BY DEF Tree, IsTree, Names
<1>2. /\ DOMAIN Rest(tr.links, p) = DOMAIN tr.links
      /\ \A a \in DOMAIN tr.links : Rest(tr.links, p)[a] = tr.links[a]
  BY <1>1 DEF Rest, Restrict
<1>3. Vacated(tr.links, p) = {}
  BY <1>1, <1>2 DEF Vacated
<1>4. Inherit(tr.links, p) = {} /\ Heirs(Rest(tr.links, p), Vacated(tr.links, p)) = {}
  BY <1>3 DEF Inherit, Heirs
<1>5. LinksAfter(Rest(tr.links, p), Vacated(tr.links, p)) = [a \in DOMAIN tr.links |-> tr.links[a]]
  BY <1>2, <1>3, <1>4 DEF LinksAfter
<1> QED
  BY <1>1, <1>4, <1>5 DEF Removed, Names, Mapping

\* A tree is removed from both: in the upper layer at most the part of it
\* that is there; a whiteout covers the rest.
LEMMA RemoveAgree ==
    ASSUME NEW low, NEW up, NEW W, NEW pl, Agree(low, up, W, pl), NEW p \in Path,
           NEW t, Removed(up, t, p), Tree(t, Path),
           NEW u, Removed(pl, u, p), Tree(u, Path),
           NEW V, V = IF p \in Names(low) /\ ~Covered(W, p) THEN W \union {p} ELSE W,
           PathSet(Path)
    PROVE  Agree(low, t, V, u)
<1>1. /\ Tree(low, Path) /\ Tree(up, Path) /\ Tree(pl, Path) /\ W \subseteq Path
      /\ up.links = pl.links /\ DOMAIN low.links = {}
  BY DEF Agree, Layers, LinksAgree
<1>2. Path \subseteq Paths
  BY DEF PathSet
<1>3. \A x \in Names(low) : x \in Path /\ x \in Paths
  BY <1>1, <1>2 DEF Tree, IsTree
<1>4. ASSUME NEW x \in Names(low), Within(p, x) PROVE Covered(V, x)
  <2>1. CASE p \in Names(low) /\ ~Covered(W, p)
    BY <1>4, <2>1 DEF Covered
  <2>2. CASE Covered(W, p)
    <3>1. PICK w \in W : Within(w, p)
      BY <2>2 DEF Covered
    <3>2. Within(w, x)
      BY <1>1, <1>2, <1>3, <1>4, <3>1, WithinOrder
    <3> QED
      BY <2>2, <3>2 DEF Covered
  <2>3. CASE p \notin Names(low)
    <3>1. x # p
      BY <2>3
    <3>2. p \in Ancestors(x)
      BY <1>2, <1>3, <1>4, <3>1, BelowIsAncestor DEF PathSet
    <3> QED
      BY <1>1, <2>3, <3>2 DEF Tree, IsTree, Names
  <2> QED
    BY <2>1, <2>2, <2>3
<1>5. ASSUME NEW x, ~Within(p, x) PROVE Covered(V, x) <=> Covered(W, x)
  BY <1>5 DEF Covered
<1>6. Layers(low, t, V, u)
  BY DEF Agree, Layers
<1>7. LinksAgree(t, u)
  <2>1. \A L, M : Mapping(LinksAfter(L, M))
    BY DEF Mapping, LinksAfter
  <2> QED
    BY <1>1, <2>1 DEF LinksAgree, Removed
<1>8. low.dirs \subseteq Names(low) /\ DOMAIN low.files \subseteq Names(low)
  BY DEF Names
<1>9. DirsAgree(low, t, V, u)
  <2>1. pl.dirs = up.dirs \union {x \in low.dirs : ~Covered(W, x)}
    BY DEF Agree, DirsAgree
  <2>2. \A x \in low.dirs : ~Covered(V, x) <=> ~Within(p, x) /\ ~Covered(W, x)
    BY <1>4, <1>5, <1>8
  <2> QED
    BY <2>1, <2>2 DEF Removed, DirsAgree
<1>10. FilesAgree(low, t, V, u)
  <2>1. DOMAIN pl.files = DOMAIN up.files \union
            {x \in DOMAIN low.files : ~Covered(W, x) /\ x \notin Names(up)}
    BY DEF Agree, FilesAgree
  <2>2. \A x \in DOMAIN low.files : ~Covered(V, x) <=> ~Within(p, x) /\ ~Covered(W, x)
    BY <1>4, <1>5, <1>8
  <2>3. PICK H : H = Inherit(up.links, p)
    OBVIOUS
  <2>4. \A x \in H : x \in Names(up)
    BY <2>3, InheritFacts DEF Names
  <2>5. DOMAIN t.files = {x \in DOMAIN up.files : ~Within(p, x)} \union H
    BY <2>3 DEF Removed
  <2>6. DOMAIN u.files = {x \in DOMAIN pl.files : ~Within(p, x)} \union H
    BY <1>1, <2>3 DEF Removed
  <2>7. Names(t) = {x \in Names(up) : ~Within(p, x)}
    BY DEF Removed
  <2> QED
    BY <2>1, <2>2, <2>4, <2>5, <2>6, <2>7 DEF FilesAgree
<1>11. DataAgree(low, t, u)
  <2> SUFFICES ASSUME NEW x \in DOMAIN u.files
               PROVE  u.files[x] = IF x \in DOMAIN t.files THEN t.files[x] ELSE low.files[x]
    BY DEF DataAgree
  <2>1. CASE x \in Inherit(up.links, p)
    <3>1. x \in DOMAIN up.links
      BY <2>1, InheritFacts
    <3>2. up.links[x] \in DOMAIN up.files /\ up.links[x] \in DOMAIN pl.files
      BY <1>1, <3>1 DEF Tree, IsTree
    <3>3. pl.files[up.links[x]] = up.files[up.links[x]]
      BY <3>2 DEF Agree, DataAgree
    <3>4. x \in DOMAIN t.files /\ t.files[x] = up.files[up.links[x]]
      BY <2>1 DEF Removed
    <3>5. u.files[x] = pl.files[up.links[x]]
      BY <1>1, <2>1 DEF Removed
    <3> QED
      BY <3>3, <3>4, <3>5
  <2>2. CASE x \notin Inherit(up.links, p)
    <3>1. x \in DOMAIN pl.files /\ ~Within(p, x) /\ u.files[x] = pl.files[x]
      BY <1>1, <2>2 DEF Removed
    <3>2. x \in DOMAIN t.files <=> x \in DOMAIN up.files
      BY <2>2, <3>1 DEF Removed
    <3>3. x \in DOMAIN t.files => t.files[x] = up.files[x]
      BY <2>2 DEF Removed
    <3> QED
      BY <3>1, <3>2, <3>3 DEF Agree, DataAgree
  <2> QED
    BY <2>1, <2>2
<1>12. NoClash(low, t, V)
  <2> SUFFICES ASSUME NEW x \in low.dirs, ~Covered(V, x) PROVE ~IsFileEntry(t, x)
    BY DEF NoClash
  <2>1. ~Within(p, x) /\ ~Covered(W, x)
    BY <1>4, <1>5, <1>8
  <2>2. ~IsFileEntry(up, x)
    BY <2>1 DEF Agree, NoClash
  <2>3. x \in pl.dirs
    BY <2>1 DEF Agree, DirsAgree
  <2>4. x \in u.dirs
    BY <2>1, <2>3 DEF Removed
  <2>5. x \notin DOMAIN u.files /\ x \notin DOMAIN u.links
    BY <2>4 DEF Tree, IsTree
  <2>6. DOMAIN t.files \subseteq DOMAIN u.files
    BY <1>10 DEF FilesAgree
  <2> QED
    BY <1>7, <2>5, <2>6 DEF IsFileEntry, LinksAgree
<1> QED
  BY <1>6, <1>7, <1>9, <1>10, <1>11, <1>12 DEF Agree

\* A tree is moved in both, once the upper layer has all of it that shows;
\* a whiteout covers the lower one that stays behind.
LEMMA MoveAgree ==
    ASSUME NEW low, NEW up, NEW W, NEW pl, Agree(low, up, W, pl), PathSet(Path),
           NEW p \in Path, NEW q \in Path, ~Within(p, q), Ancestors(q) \subseteq up.dirs,
           \A x \in Names(pl) : /\ ~Within(q, x) /\ Remap(p, q, x) \in Path
                                /\ Within(p, x) => x \in Names(up),
           NEW t, t = MoveTree(up, p, q),
           NEW u, u = MoveTree(pl, p, q),
           NEW V, V = IF p \in Names(low) THEN W \union {p} ELSE W
    PROVE  Agree(low, t, V, u) /\ Names(t) = {Remap(p, q, x) : x \in Names(up)}
<1>1. /\ Tree(low, Path) /\ Tree(up, Path) /\ Tree(pl, Path) /\ W \subseteq Path
      /\ up.links = pl.links /\ DOMAIN low.links = {}
  BY DEF Agree, Layers, LinksAgree
<1>2. Path \subseteq Paths /\ p \in Paths /\ q \in Paths /\ p # q
  BY WithinOrder DEF PathSet
<1>3. Reached(low, up, W, pl)
  BY AgreeNames
<1>4. Names(up) \subseteq Names(pl) /\ up.dirs \subseteq pl.dirs
  BY <1>3 DEF Reached
<1>5. Tree(t, Path) /\ Tree(u, Path)
  <2>1. Tree(t, Path)
    BY <1>1, <1>4, MoveTreeTree
  <2>2. Tree(u, Path)
    BY <1>1, <1>4, MoveTreeTree
  <2> QED
    BY <2>1, <2>2
<1>6. PICK M : M = MoveMap(up.links, p, q)
  OBVIOUS
<1>7. t = [files |-> MoveMap(up.files, p, q),
           dirs  |-> MoveKeys(up.dirs, p, q),
           links |-> [a \in DOMAIN M |-> Remap(p, q, M[a])]]
  BY <1>6 DEF MoveTree
<1>8. u = [files |-> MoveMap(pl.files, p, q),
           dirs  |-> MoveKeys(pl.dirs, p, q),
           links |-> [a \in DOMAIN M |-> Remap(p, q, M[a])]]
  BY <1>1, <1>6 DEF MoveTree
<1>9. LinksAgree(t, u)
  <2>1. t.links = [a \in DOMAIN M |-> Remap(p, q, M[a])]
    BY <1>7
  <2>2. Mapping([a \in DOMAIN M |-> Remap(p, q, M[a])])
    BY DEF Mapping
  <2> QED
    BY <1>8, <2>1, <2>2 DEF LinksAgree
<1>10. /\ t.dirs = {Remap(p, q, x) : x \in up.dirs}
       /\ u.dirs = {Remap(p, q, x) : x \in pl.dirs}
  BY <1>2, <1>7, <1>8 DEF MoveKeys
<1>11. /\ IsMovedMap(up.files, t.files, p, q) /\ IsMovedMap(pl.files, u.files, p, q)
       /\ IsMovedMap(up.links, M, p, q)
  BY <1>2, <1>6, <1>7, <1>8, MovedMap
<1>12. Names(t) = {Remap(p, q, x) : x \in Names(up)}
  <2>1. DOMAIN t.links = {Remap(p, q, x) : x \in DOMAIN up.links}
    BY <1>7, <1>11 DEF IsMovedMap
  <2>2. DOMAIN t.files = {Remap(p, q, x) : x \in DOMAIN up.files}
    BY <1>11 DEF IsMovedMap
  <2> QED
    BY <1>10, <2>1, <2>2 DEF Names
<1>13. \A x \in Names(pl) : x \in Paths
  BY <1>1, <1>2 DEF Tree, IsTree
<1>14. \A x, y \in Names(pl) : Remap(p, q, x) = Remap(p, q, y) => x = y
  BY <1>2, <1>13, RemapInjective
<1>15. \A x : ~Within(p, x) => Remap(p, q, x) = x
  BY DEF Remap
<1>16. \A x \in Names(pl) : Within(p, x) => Within(q, Remap(p, q, x))
  BY <1>2, <1>13, RemapMeans DEF IsMoved
<1>17. \A x \in Names(low) : Covered(V, x) <=> Covered(W, x) \/ Within(p, x)
  <2> SUFFICES ASSUME NEW x \in Names(low) PROVE Covered(V, x) <=> Covered(W, x) \/ Within(p, x)
    OBVIOUS
  <2>1. CASE p \in Names(low)
    BY <2>1 DEF Covered
  <2>2. CASE p \notin Names(low)
    <3>1. x \in Paths /\ Ancestors(x) \subseteq low.dirs
      BY <1>1, <1>2 DEF Tree, IsTree
    <3>2. Within(p, x) /\ x # p => p \in Ancestors(x)
      BY <1>2, <3>1, BelowIsAncestor DEF PathSet
    <3>3. ~Within(p, x)
      BY <2>2, <3>1, <3>2 DEF Names
    <3> QED
      BY <2>2, <3>3
  <2> QED
    BY <2>1, <2>2
<1>18. low.dirs \subseteq Names(low) /\ DOMAIN low.files \subseteq Names(low)
  BY DEF Names
<1>19. Layers(low, t, V, u)
  BY <1>5 DEF Agree, Layers
<1>20. DirsAgree(low, t, V, u)
  <2>1. ASSUME NEW z \in u.dirs PROVE z \in t.dirs \/ (z \in low.dirs /\ ~Covered(V, z))
    <3>1. PICK x \in pl.dirs : z = Remap(p, q, x)
      BY <1>10
    <3>2. CASE x \in up.dirs
      BY <1>10, <3>1, <3>2
    <3>3. CASE x \notin up.dirs
      <4>1. x \in low.dirs /\ ~Covered(W, x)
        BY <3>3 DEF Agree, DirsAgree
      <4>2. ~IsFileEntry(pl, x) /\ x \in Names(pl)
        BY <1>1 DEF Tree, IsTree, IsFileEntry, Names
      <4>3. x \notin Names(up)
        BY <1>3, <3>3, <4>2 DEF Reached, Names, IsFileEntry
      <4>4. ~Within(p, x)
        BY <4>2, <4>3
      <4> QED
        BY <1>15, <1>17, <1>18, <3>1, <4>1, <4>4
    <3> QED
      BY <3>2, <3>3
  <2>2. ASSUME NEW z \in low.dirs, ~Covered(V, z) PROVE z \in u.dirs
    <3>1. ~Covered(W, z) /\ ~Within(p, z)
      BY <1>17, <1>18, <2>2
    <3>2. z \in pl.dirs
      BY <3>1 DEF Agree, DirsAgree
    <3> QED
      BY <1>10, <1>15, <3>1, <3>2
  <2> QED
    BY <1>4, <1>10, <2>1, <2>2 DEF DirsAgree
<1>21. FilesAgree(low, t, V, u) /\ DataAgree(low, t, u)
  <2>1. DOMAIN up.files \subseteq DOMAIN pl.files /\ DOMAIN pl.files \subseteq Names(pl)
    BY DEF Agree, FilesAgree, Names
  <2>2. DOMAIN t.files \subseteq DOMAIN u.files
    BY <1>11, <2>1 DEF IsMovedMap
  <2>3. ASSUME NEW z \in DOMAIN low.files, ~Covered(V, z), z \notin Names(t)
        PROVE  z \in DOMAIN u.files
    <3>1. ~Covered(W, z) /\ ~Within(p, z) /\ Remap(p, q, z) = z
      BY <1>15, <1>17, <1>18, <2>3
    <3>2. z \notin Names(up)
      BY <1>12, <2>3, <3>1
    <3>3. z \in DOMAIN pl.files
      BY <3>1, <3>2 DEF Agree, FilesAgree
    <3> QED
      BY <1>11, <3>1, <3>3 DEF IsMovedMap
  <2>4. ASSUME NEW z \in DOMAIN u.files
        PROVE  \/ z \in DOMAIN t.files /\ u.files[z] = t.files[z]
               \/ /\ z \in DOMAIN low.files /\ ~Covered(V, z) /\ z \notin Names(t)
                  /\ u.files[z] = low.files[z]
    <3>1. PICK x \in DOMAIN pl.files : z = Remap(p, q, x) /\ u.files[z] = pl.files[x]
      BY <1>11 DEF IsMovedMap
    <3>2. CASE x \in DOMAIN up.files
      <4>1. z \in DOMAIN t.files
        BY <1>11, <3>1, <3>2 DEF IsMovedMap
      <4>2. PICK y \in DOMAIN up.files : z = Remap(p, q, y) /\ t.files[z] = up.files[y]
        BY <1>11, <4>1 DEF IsMovedMap
      <4>3. x = y
        BY <1>14, <2>1, <3>1, <4>2
      <4>4. pl.files[x] = up.files[x]
        BY <3>2 DEF Agree, DataAgree
      <4> QED
        BY <3>1, <4>1, <4>2, <4>3, <4>4
    <3>3. CASE x \notin DOMAIN up.files
      <4>1. x \in DOMAIN low.files /\ ~Covered(W, x) /\ x \notin Names(up) /\ x \in Names(pl)
        BY <2>1, <3>3 DEF Agree, FilesAgree
      <4>2. ~Within(p, x)
        BY <4>1
      <4>3. z = x /\ ~Covered(V, z)
        BY <1>15, <1>17, <1>18, <3>1, <4>1, <4>2
      <4>4. z \notin Names(t)
        <5> SUFFICES ASSUME NEW y \in Names(up), z = Remap(p, q, y) PROVE FALSE
          BY <1>12
        <5>1. Within(p, y)
          BY <1>15, <4>1, <4>3
        <5>2. Within(q, z)
          BY <1>4, <1>16, <5>1
        <5> QED
          BY <4>1, <4>3, <5>2
      <4>5. pl.files[x] = low.files[x]
        BY <3>3 DEF Agree, DataAgree
      <4> QED
        BY <3>1, <4>1, <4>3, <4>4, <4>5
    <3> QED
      BY <3>2, <3>3
  <2>5. DOMAIN t.files \subseteq Names(t)
    BY DEF Names
  <2>6. FilesAgree(low, t, V, u)
    BY <2>2, <2>3, <2>4 DEF FilesAgree
  <2>7. DataAgree(low, t, u)
    BY <2>4, <2>5 DEF DataAgree
  <2> QED
    BY <2>6, <2>7
<1>22. NoClash(low, t, V)
  <2> SUFFICES ASSUME NEW x \in low.dirs, ~Covered(V, x) PROVE ~IsFileEntry(t, x)
    BY DEF NoClash
  <2>1. x \in u.dirs
    BY <1>20 DEF DirsAgree
  <2>2. x \notin DOMAIN u.files /\ x \notin DOMAIN u.links
    BY <1>5, <2>1 DEF Tree, IsTree
  <2>3. DOMAIN t.files \subseteq DOMAIN u.files
    BY <1>21 DEF FilesAgree
  <2> QED
    BY <1>9, <2>2, <2>3 DEF IsFileEntry, LinksAgree
<1> QED
  BY <1>9, <1>12, <1>19, <1>20, <1>21, <1>22 DEF Agree

(***************************************************************************)
(* The calls, on the upper layer and on the plain tree.                    *)
(***************************************************************************)

\* r and s are the results on the two: both succeed, with V for the whiteouts
\* from then on, or both fail.
Both(low, r, W, V, s) ==
    IF r.res = "ok" THEN s.res = "ok" /\ Agree(low, r.fs, V, s.fs)
    ELSE s.res # "ok" /\ Agree(low, r.fs, W, s.fs)

\* The upper layer has the files of the plain tree that are on the way to p.
SameWay(up, pl, p) == \A x \in Ancestors(p) : IsFileEntry(up, x) <=> IsFileEntry(pl, x)

\* What a path of the upper layer is, it is in the plain tree.
Same(up, pl, p) ==
    /\ Resolves(up, p) /\ Resolves(pl, p) /\ Exists(up, p) /\ Exists(pl, p)
    /\ p \in up.dirs <=> p \in pl.dirs
    /\ IsDir(up, p) <=> p \in up.dirs
    /\ IsDir(pl, p) <=> p \in up.dirs
    /\ Canon(up, p) = Canon(pl, p)
    /\ p \notin up.dirs => /\ Canon(up, p) \in DOMAIN up.files
                           /\ Canon(up, p) \in DOMAIN pl.files

\* A name of the upper layer means the same in the plain tree.
LEMMA SameThere ==
    ASSUME NEW low, NEW up, NEW W, NEW pl, Agree(low, up, W, pl), NEW p \in Names(up)
    PROVE  Same(up, pl, p)
<1>1. Tree(up, Path) /\ Tree(pl, Path) /\ up.links = pl.links
  BY DEF Agree, Layers, LinksAgree
<1>2. Reached(low, up, W, pl)
  BY AgreeNames
<1>3. p \in Names(pl)
  BY <1>2 DEF Reached
<1>4. Resolves(up, p) /\ Resolves(pl, p)
  BY <1>1, <1>3 DEF Resolves, Tree, IsTree, IsFileEntry
<1>5. Exists(up, p) /\ Exists(pl, p)
  BY <1>3 DEF Exists, IsFileEntry, Names
<1>6. p \in up.dirs <=> p \in pl.dirs
  <2>1. p \in up.dirs => p \in pl.dirs
    BY <1>2 DEF Reached
  <2>2. p \notin up.dirs => IsFileEntry(pl, p)
    BY <1>2 DEF Reached, Names, IsFileEntry
  <2> QED
    BY <1>1, <2>1, <2>2 DEF Tree, IsTree, IsFileEntry
<1>7. (IsDir(up, p) <=> p \in up.dirs) /\ (IsDir(pl, p) <=> p \in up.dirs)
  BY <1>1, <1>6 DEF IsDir, IsFileEntry, Tree, IsTree
<1>8. Canon(up, p) = Canon(pl, p)
  BY <1>1 DEF Canon
<1>9. p \notin up.dirs => Canon(up, p) \in DOMAIN up.files
  BY <1>1 DEF Canon, Tree, IsTree, Names
<1>10. DOMAIN up.files \subseteq DOMAIN pl.files
  BY DEF Agree, FilesAgree
<1> QED
  BY <1>4, <1>5, <1>6, <1>7, <1>8, <1>9, <1>10 DEF Same

\* recordDir for the parents of a path.
LEMMA ParentsAgree ==
    ASSUME NEW low, NEW up, NEW W, NEW pl, Agree(low, up, W, pl), PathSet(Path),
           NEW p \in Path, Resolves(pl, p),
           NEW t, t = RecordDir(up, Parent(p)), NEW u, u = RecordDir(pl, Parent(p))
    PROVE  /\ Agree(low, t, W, u)
           /\ t.files = up.files /\ t.links = up.links /\ t.dirs = up.dirs \union Ancestors(p)
           /\ u.files = pl.files /\ u.links = pl.links /\ u.dirs = pl.dirs \union Ancestors(p)
<1>1. p \in Paths /\ p # Root /\ Ancestors(p) \in SUBSET Path
  BY DEF PathSet
<1>2. /\ t = [up EXCEPT !.dirs = @ \union Ancestors(p)]
      /\ u = [pl EXCEPT !.dirs = @ \union Ancestors(p)]
  BY <1>1, ParentFacts DEF RecordDir
<1>3. \A d \in Ancestors(p) : Ancestors(d) \subseteq Ancestors(p) /\ ~IsFileEntry(pl, d)
  BY <1>1, AncestorFacts DEF Resolves
<1> QED
  BY <1>1, <1>2, <1>3, RecordAgree

\* The end of a call that makes a file at p: no whiteout is there any more.
LEMMA ClearWhiteout ==
    ASSUME NEW low, NEW up, NEW W, NEW pl, Agree(low, up, W, pl), PathSet(Path),
           NEW p \in Path, p \in Names(up), p \in W => p \notin low.dirs
    PROVE  Agree(low, up, W \ {p}, pl)
<1>1. Tree(low, Path)
  BY DEF Agree, Layers
<1>2. p \in W => \A x \in Names(low) : Within(p, x) => x = p
  BY <1>1, NothingBelow DEF IsDir
<1> QED
  BY <1>2, UncoverAgree

\* WriteFile.
LEMMA WriteAgree ==
    ASSUME NEW low, NEW up, NEW W, NEW pl, Agree(low, up, W, pl), PathSet(Path),
           NEW p \in Path, NEW v, SameWay(up, pl, p), p \in up.dirs <=> p \in pl.dirs,
           p \in W => p \notin low.dirs,
           NEW r, r = WriteFile(up, p, v), NEW s, s = WriteFile(pl, p, v)
    PROVE  Both(low, r, W, W \ {p}, s)
<1>1. Tree(up, Path) /\ Tree(pl, Path) /\ up.links = pl.links
  BY DEF Agree, Layers, LinksAgree
<1>2. Resolves(up, p) <=> Resolves(pl, p)
  BY DEF Resolves, SameWay
<1>3. CASE ~Resolves(up, p) \/ p \in up.dirs
  <2>1. r.res # "ok" /\ s.res # "ok" /\ r.fs = up /\ s.fs = pl
    BY <1>2, <1>3 DEF WriteFile, Refuse
  <2> QED
    BY <2>1 DEF Both
<1>4. CASE Resolves(up, p) /\ p \notin up.dirs
  <2>1. PICK c : c = Canon(up, p)
    OBVIOUS
  <2>2. PICK t, u : t = RecordDir(up, Parent(p)) /\ u = RecordDir(pl, Parent(p))
    OBVIOUS
  <2>3. /\ Agree(low, t, W, u)
        /\ t.files = up.files /\ t.links = up.links /\ t.dirs = up.dirs \union Ancestors(p)
        /\ u.files = pl.files /\ u.links = pl.links /\ u.dirs = pl.dirs \union Ancestors(p)
    BY <1>2, <1>4, <2>2, ParentsAgree
  <2>4. /\ r.res = "ok" /\ r.fs = [t EXCEPT !.files = With(@, c, v)]
        /\ s.res = "ok" /\ s.fs = [u EXCEPT !.files = With(@, c, v)]
    <3>1. Canon(pl, p) = c
      BY <1>1, <2>1 DEF Canon
    <3> QED
      BY <1>2, <1>4, <2>1, <2>2, <3>1 DEF WriteFile, Done
  <2>5. p \in Paths /\ p \notin Ancestors(p)
    BY AncestorFacts DEF PathSet
  <2>6. /\ c \in Path /\ c \notin u.dirs /\ c \notin DOMAIN t.links
        /\ Ancestors(c) \subseteq t.dirs
    <3>1. CASE p \in DOMAIN up.links
      <4>1. c \in DOMAIN up.files
        BY <1>1, <2>1, <3>1 DEF Canon, Tree, IsTree
      <4>2. c \in DOMAIN pl.files
        BY <4>1 DEF Agree, FilesAgree
      <4>3. c \in Path /\ Ancestors(c) \subseteq up.dirs /\ c \notin DOMAIN up.links
        BY <1>1, <4>1 DEF Tree, IsTree, Names
      <4>4. c \notin Ancestors(p)
        BY <1>4, <4>1 DEF Resolves, IsFileEntry
      <4>5. c \notin pl.dirs
        BY <1>1, <4>2 DEF Tree, IsTree
      <4> QED
        BY <2>3, <4>3, <4>4, <4>5
    <3>2. CASE p \notin DOMAIN up.links
      <4>1. c = p
        BY <2>1, <3>2 DEF Canon
      <4> QED
        BY <1>4, <2>3, <2>5, <3>2, <4>1
    <3> QED
      BY <3>1, <3>2
  <2>7. Agree(low, r.fs, W, s.fs) /\ Names(r.fs) = Names(t) \union {c}
    BY <2>3, <2>4, <2>6, StoreAgree
  <2>8. p \in Names(r.fs)
    BY <2>1, <2>3, <2>7 DEF Canon, Names
  <2>9. Agree(low, r.fs, W \ {p}, s.fs)
    BY <2>7, <2>8, ClearWhiteout
  <2> QED
    BY <2>4, <2>9 DEF Both
<1> QED
  BY <1>3, <1>4

\* MkdirAll.
LEMMA MkdirAgree ==
    ASSUME NEW low, NEW up, NEW W, NEW pl, Agree(low, up, W, pl), PathSet(Path),
           NEW p \in Path, SameWay(up, pl, p), IsFileEntry(up, p) <=> IsFileEntry(pl, p),
           p \in W => \A x \in Names(low) : Within(p, x) => x = p,
           NEW r, r = MkdirAll(up, p), NEW s, s = MkdirAll(pl, p)
    PROVE  Both(low, r, W, W \ {p}, s)
<1>1. Resolves(up, p) <=> Resolves(pl, p)
  BY DEF Resolves, SameWay
<1>2. CASE ~Resolves(up, p) \/ IsFileEntry(up, p)
  <2>1. r.res # "ok" /\ s.res # "ok" /\ r.fs = up /\ s.fs = pl
    BY <1>1, <1>2 DEF MkdirAll, Refuse
  <2> QED
    BY <2>1 DEF Both
<1>3. CASE Resolves(up, p) /\ ~IsFileEntry(up, p)
  <2>1. p \in Paths /\ p # Root /\ Ancestors(p) \in SUBSET Path
    BY DEF PathSet
  <2>2. PICK D : D = Ancestors(p) \union {p}
    OBVIOUS
  <2>3. D \ {Root} = D /\ D \in SUBSET Path
    BY <2>1, <2>2, AncestorFacts
  <2>4. /\ r.res = "ok" /\ r.fs = [up EXCEPT !.dirs = @ \union D]
        /\ s.res = "ok" /\ s.fs = [pl EXCEPT !.dirs = @ \union D]
    BY <1>1, <1>3, <2>2, <2>3 DEF MkdirAll, Done, RecordDir
  <2>5. \A d \in D : Ancestors(d) \subseteq D /\ ~IsFileEntry(pl, d)
    BY <1>1, <1>3, <2>1, <2>2, AncestorFacts DEF Resolves
  <2>6. Agree(low, r.fs, W, s.fs) /\ r.fs.dirs = up.dirs \union D
    BY <2>3, <2>4, <2>5, RecordAgree
  <2>7. p \in r.fs.dirs
    BY <2>2, <2>6
  <2>8. Tree(r.fs, Path)
    BY <2>6 DEF Agree, Layers
  <2>9. p \in Names(r.fs) /\ ~IsFileEntry(r.fs, p)
    BY <2>7, <2>8 DEF Names, IsFileEntry, Tree, IsTree
  <2>10. Agree(low, r.fs, W \ {p}, s.fs)
    BY <2>6, <2>9, UncoverAgree
  <2> QED
    BY <2>4, <2>10 DEF Both
<1> QED
  BY <1>2, <1>3

\* Truncate, of a name the upper layer has.
LEMMA TruncateAgree ==
    ASSUME NEW low, NEW up, NEW W, NEW pl, Agree(low, up, W, pl), NEW p \in Names(up), NEW v,
           NEW r, r = Truncate(up, p, v), NEW s, s = Truncate(pl, p, v)
    PROVE  Both(low, r, W, W, s)
<1>1. Tree(up, Path) /\ Tree(pl, Path)
  BY DEF Agree, Layers
<1>2. Same(up, pl, p)
  BY SameThere
<1>3. CASE p \in up.dirs
  <2>1. r.res # "ok" /\ s.res # "ok" /\ r.fs = up /\ s.fs = pl
    BY <1>2, <1>3 DEF Truncate, Refuse, Same
  <2> QED
    BY <2>1 DEF Both
<1>4. CASE p \notin up.dirs
  <2>1. PICK c : c = Canon(up, p)
    OBVIOUS
  <2>2. c \in DOMAIN up.files /\ c \in DOMAIN pl.files /\ Canon(pl, p) = c
    BY <1>2, <1>4, <2>1 DEF Same
  <2>3. /\ r.res = "ok" /\ r.fs = [up EXCEPT !.files[c] = v]
        /\ s.res = "ok" /\ s.fs = [pl EXCEPT !.files[c] = v]
    BY <1>2, <1>4, <2>1, <2>2 DEF Truncate, Done, Same
  <2>4. \A f : c \in DOMAIN f => [f EXCEPT ![c] = v] = With(f, c, v)
    BY DEF With
  <2>5. /\ r.fs = [up EXCEPT !.files = With(@, c, v)]
        /\ s.fs = [pl EXCEPT !.files = With(@, c, v)]
    BY <2>2, <2>3, <2>4
  <2>6. /\ c \in Path /\ Ancestors(c) \subseteq up.dirs /\ c \notin DOMAIN up.links
        /\ c \notin pl.dirs
    BY <1>1, <2>2 DEF Tree, IsTree, Names
  <2>7. Agree(low, r.fs, W, s.fs)
    BY <2>5, <2>6, StoreAgree
  <2> QED
    BY <2>3, <2>7 DEF Both
<1> QED
  BY <1>3, <1>4

\* Link, to a target the upper layer has.
LEMMA LinkAgree ==
    ASSUME NEW low, NEW up, NEW W, NEW pl, Agree(low, up, W, pl), PathSet(Path),
           NEW p \in Names(up), NEW q \in Path, q \notin Names(pl), SameWay(up, pl, q),
           q \in W => q \notin low.dirs,
           NEW r, r = Link(up, p, q), NEW s, s = Link(pl, p, q)
    PROVE  Both(low, r, W, W \ {q}, s)
<1>1. Same(up, pl, p) /\ Reached(low, up, W, pl)
  BY SameThere, AgreeNames
<1>2. Resolves(up, q) <=> Resolves(pl, q)
  BY DEF Resolves, SameWay
<1>3. ~Exists(up, q) /\ ~Exists(pl, q)
  BY <1>1 DEF Reached, Exists, IsFileEntry, Names
<1>4. CASE ~Resolves(up, q)
  <2>1. r.res # "ok" /\ s.res # "ok" /\ r.fs = up /\ s.fs = pl
    BY <1>2, <1>4 DEF Link, Refuse
  <2> QED
    BY <2>1 DEF Both
<1>5. CASE Resolves(up, q)
  <2>1. PICK t, u : t = RecordDir(up, Parent(q)) /\ u = RecordDir(pl, Parent(q))
    OBVIOUS
  <2>2. /\ Agree(low, t, W, u)
        /\ t.files = up.files /\ t.links = up.links /\ t.dirs = up.dirs \union Ancestors(q)
        /\ u.files = pl.files /\ u.links = pl.links /\ u.dirs = pl.dirs \union Ancestors(q)
    BY <1>2, <1>5, <2>1, ParentsAgree
  <2>3. CASE p \in up.dirs
    <3>1. r.res # "ok" /\ s.res # "ok" /\ r.fs = t /\ s.fs = u
      BY <1>1, <1>2, <1>3, <1>5, <2>1, <2>3 DEF Link, Refuse, Same
    <3> QED
      BY <2>2, <3>1 DEF Both
  <2>4. CASE p \notin up.dirs
    <3>1. PICK c : c = Canon(up, p)
      OBVIOUS
    <3>2. c \in DOMAIN t.files
      BY <1>1, <2>2, <2>4, <3>1 DEF Same
    <3>3. /\ r.res = "ok" /\ r.fs = [t EXCEPT !.links = With(@, q, c)]
          /\ s.res = "ok" /\ s.fs = [u EXCEPT !.links = With(@, q, c)]
      BY <1>1, <1>2, <1>3, <1>5, <2>1, <2>4, <3>1 DEF Link, Done, Same
    <3>4. q \notin Names(u)
      <4>1. q \notin Ancestors(q)
        BY AncestorFacts DEF PathSet
      <4> QED
        BY <2>2, <4>1 DEF Names
    <3>5. Agree(low, r.fs, W, s.fs) /\ Names(r.fs) = Names(t) \union {q}
      BY <2>2, <3>2, <3>3, <3>4, AliasAgree
    <3>6. Agree(low, r.fs, W \ {q}, s.fs)
      BY <3>5, ClearWhiteout
    <3> QED
      BY <3>3, <3>6 DEF Both
  <2> QED
    BY <2>3, <2>4
<1> QED
  BY <1>4, <1>5

\* What Remove makes of a tree, and Rename of its destination.
LEMMA ClearedRemoves ==
    ASSUME NEW P, PathSet(P), NEW tr, Tree(tr, P), Mapping(tr.links), NEW p \in P,
           NEW t, t = Cleared(tr, p)
    PROVE  Tree(t, P) /\ Removed(tr, t, p)
<1>1. p \in Paths /\ p # Root
  BY DEF PathSet
<1>2. CASE IsDir(tr, p)
  <2>1. t = RemoveTree(tr, p)
    BY <1>2 DEF Cleared
  <2> QED
    BY <1>1, <2>1, RemovedByTree
<1>3. CASE ~IsDir(tr, p) /\ Exists(tr, p)
  <2>1. t = Unlink(tr, {p}) /\ IsFileEntry(tr, p)
    BY <1>3 DEF Cleared, IsDir, Exists
  <2> QED
    BY <2>1, RemovedByUnlink
<1>4. CASE ~IsDir(tr, p) /\ ~Exists(tr, p)
  <2>1. t = tr /\ p \notin Names(tr)
    BY <1>4 DEF Cleared, Exists, IsFileEntry, Names
  <2>2. \A x \in Names(tr) : x \in Paths /\ Ancestors(x) \subseteq Names(tr)
    BY DEF PathSet, Tree, IsTree, Names
  <2>3. \A x \in Names(tr) : ~Within(p, x)
    BY <1>1, <2>1, <2>2, BelowIsAncestor
  <2> QED
    BY <2>1, <2>3, RemovedByNothing
<1> QED
  BY <1>2, <1>3, <1>4

\* Both are cleared at p.
LEMMA ClearAgree ==
    ASSUME NEW low, NEW up, NEW W, NEW pl, Agree(low, up, W, pl), PathSet(Path),
           NEW p \in Path, NEW t, t = Cleared(up, p), NEW u, u = Cleared(pl, p),
           NEW V, V = IF p \in Names(low) /\ ~Covered(W, p) THEN W \union {p} ELSE W
    PROVE  Agree(low, t, V, u)
<1>1. Tree(up, Path) /\ Tree(pl, Path) /\ Mapping(up.links) /\ Mapping(pl.links)
  BY DEF Agree, Layers, LinksAgree
<1>2. Tree(t, Path) /\ Removed(up, t, p)
  BY <1>1, ClearedRemoves
<1>3. Tree(u, Path) /\ Removed(pl, u, p)
  BY <1>1, ClearedRemoves
<1> QED
  BY <1>2, <1>3, RemoveAgree

\* Remove and RemoveAll: the upper layer forgets the tree, the whiteout hides
\* what the lower one has of it.
LEMMA RemoveCallAgree ==
    ASSUME NEW low, NEW up, NEW W, NEW pl, Agree(low, up, W, pl), PathSet(Path),
           NEW p \in Path, NEW rec \in BOOLEAN, p \in Names(pl),
           ~rec /\ p \in pl.dirs => Children(pl, p) = {},
           NEW r, r = IF p \in Names(up) THEN Remove(up, p, rec) ELSE Done(up),
           NEW s, s = Remove(pl, p, rec),
           NEW V, V = IF p \in Names(low) /\ ~Covered(W, p) THEN W \union {p} ELSE W
    PROVE  Both(low, r, W, V, s)
<1>1. Tree(up, Path) /\ Tree(pl, Path) /\ Reached(low, up, W, pl)
  BY AgreeNames DEF Agree, Layers
<1>2. s.res = "ok" /\ s.fs = Cleared(pl, p)
  <2>1. Resolves(pl, p) /\ Exists(pl, p)
    BY <1>1 DEF Resolves, Tree, IsTree, Exists, IsFileEntry, Names
  <2> QED
    BY <2>1 DEF Remove, Done, Cleared, IsDir
<1>3. r.res = "ok" /\ r.fs = Cleared(up, p)
  <2>1. CASE p \in Names(up)
    <3>1. Resolves(up, p) /\ Exists(up, p)
      BY <1>1, <2>1 DEF Resolves, Tree, IsTree, Exists, IsFileEntry, Names
    <3>2. Children(up, p) \subseteq Children(pl, p) /\ up.dirs \subseteq pl.dirs
      BY <1>1 DEF Children, Reached
    <3>3. r = Remove(up, p, rec)
      BY <2>1
    <3> QED
      BY <3>1, <3>2, <3>3 DEF Remove, Done, Cleared, IsDir
  <2>2. CASE p \notin Names(up)
    BY <2>2 DEF Done, Cleared, IsDir, Exists, IsFileEntry, Names
  <2> QED
    BY <2>1, <2>2
<1>4. Agree(low, r.fs, V, s.fs)
  BY <1>2, <1>3, ClearAgree
<1> QED
  BY <1>2, <1>3, <1>4 DEF Both

\* The root of a moved tree is moved to the destination.
LEMMA RemapRoot == ASSUME NEW p \in Paths, NEW q \in Paths PROVE Remap(p, q, p) = q
<1>1. Len(p) \in Nat /\ Len(q) \in Nat
  BY DEF Paths
<1>2. PICK y : y = Remap(p, q, p)
  OBVIOUS
<1>3. IsMoved(p, q, p, y)
  BY <1>2, RemapMeans, WithinOrder
<1>4. y \in Paths /\ Len(y) = Len(q) /\ \A i \in 1 .. Len(q) : y[i] = q[i]
  BY <1>1, <1>3 DEF IsMoved
<1> QED
  BY <1>2, <1>4, SamePath

\* Rename, when it goes through.
LEMMA MovedAgree ==
    ASSUME NEW low, NEW up, NEW W, NEW pl, Agree(low, up, W, pl), PathSet(Path),
           NEW p \in Names(up), NEW q \in Path, ~Within(p, q), p \in Path,
           Resolves(pl, q), ~(IsDir(up, q) /\ Children(up, q) # {}),
           ~(IsDir(pl, q) /\ Children(pl, q) # {}),
           \A x \in Names(pl) : /\ Remap(p, q, x) \in Path
                                /\ Within(p, x) => x \in Names(up),
           q \in W \/ (q \in Names(low) /\ ~Covered(W, q)) => q \notin low.dirs,
           NEW t, t = MoveTree(RecordDir(Cleared(up, q), Parent(q)), p, q),
           NEW u, u = MoveTree(RecordDir(Cleared(pl, q), Parent(q)), p, q),
           NEW V, V = (IF p \in Names(low) THEN W \union {p} ELSE W) \ {q}
    PROVE  Agree(low, t, V, u)
<1>1. Tree(up, Path) /\ Tree(pl, Path) /\ Tree(low, Path) /\ Reached(low, up, W, pl)
  BY AgreeNames DEF Agree, Layers
<1>2. p \in Paths /\ q \in Paths /\ p # q
  BY WithinOrder DEF PathSet
<1>3. PICK a, b : a = Cleared(up, q) /\ b = Cleared(pl, q)
  OBVIOUS
<1>4. PICK X : X = IF q \in Names(low) /\ ~Covered(W, q) THEN W \union {q} ELSE W
  OBVIOUS
<1>5. Agree(low, a, X, b)
  BY <1>3, <1>4, ClearAgree
<1>6. Names(a) = Names(up) \ {q}
  BY <1>1, <1>3, ClearTree
<1>7. /\ Names(b) = Names(pl) \ {q} /\ \A x \in Names(pl) : Within(q, x) => x = q
      /\ DOMAIN b.files \union DOMAIN b.links \subseteq DOMAIN pl.files \union DOMAIN pl.links
  BY <1>1, <1>3, ClearTree
<1>8. Resolves(b, q)
  BY <1>7 DEF Resolves, IsFileEntry
<1>9. PICK c, d : c = RecordDir(a, Parent(q)) /\ d = RecordDir(b, Parent(q))
  OBVIOUS
<1>10. /\ Agree(low, c, X, d)
       /\ c.files = a.files /\ c.links = a.links /\ c.dirs = a.dirs \union Ancestors(q)
       /\ d.files = b.files /\ d.links = b.links /\ d.dirs = b.dirs \union Ancestors(q)
  BY <1>5, <1>8, <1>9, ParentsAgree
<1>11. Names(c) = Names(a) \union Ancestors(q) /\ Names(d) = Names(b) \union Ancestors(q)
  BY <1>10 DEF Names
<1>12. ASSUME NEW x \in Names(d)
       PROVE  /\ ~Within(q, x) /\ Remap(p, q, x) \in Path
              /\ Within(p, x) => x \in Names(c)
  <2>1. CASE x \in Names(b)
    BY <1>6, <1>7, <1>11, <2>1
  <2>2. CASE x \in Ancestors(q)
    <3>1. x \in Path /\ ~Within(q, x) /\ ~Within(p, x)
      BY <1>2, <2>2, AncestorFacts DEF PathSet
    <3> QED
      BY <3>1 DEF Remap
  <2> QED
    BY <1>11, <2>1, <2>2
<1>13. PICK Y : Y = IF p \in Names(low) THEN X \union {p} ELSE X
  OBVIOUS
<1>14. t = MoveTree(c, p, q) /\ u = MoveTree(d, p, q)
  BY <1>3, <1>9
<1>15. Ancestors(q) \subseteq c.dirs
  BY <1>10
<1>16. Agree(low, t, Y, u) /\ Names(t) = {Remap(p, q, x) : x \in Names(c)}
  <2>1. \A x \in Names(d) : /\ ~Within(q, x) /\ Remap(p, q, x) \in Path
                            /\ Within(p, x) => x \in Names(c)
    BY <1>12
  <2>2. Agree(low, c, X, d)
    BY <1>10
  <2> QED
    BY <1>13, <1>14, <1>15, <2>1, <2>2, MoveAgree
<1>17. q \in Names(t)
  <2>1. p \in Names(c)
    BY <1>2, <1>6, <1>11
  <2>2. Remap(p, q, p) = q
    BY <1>2, RemapRoot
  <2> QED
    BY <1>16, <2>1, <2>2
<1>18. q \in Y => q \notin low.dirs
  BY <1>2, <1>4, <1>13
<1>19. Agree(low, t, Y \ {q}, u)
  BY <1>16, <1>17, <1>18, ClearWhiteout
<1>20. Y \ {q} = V
  BY <1>2, <1>4, <1>13
<1> QED
  BY <1>19, <1>20

\* Rename, of a tree the upper layer has entirely.
LEMMA RenameAgree ==
    ASSUME NEW low, NEW up, NEW W, NEW pl, Agree(low, up, W, pl), PathSet(Path),
           NEW p \in Names(up), NEW q \in Path, ~Within(p, q), p \in Path,
           SameWay(up, pl, q),
           \A x \in Names(pl) : /\ Remap(p, q, x) \in Path
                                /\ Within(p, x) => x \in Names(up),
           q \in W \/ (q \in Names(low) /\ ~Covered(W, q)) => q \notin low.dirs,
           q \in Names(low) /\ ~Covered(W, q) => p \notin pl.dirs,
           NEW r, r = Rename(up, p, q), NEW s, s = Rename(pl, p, q),
           NEW V, V = (IF p \in Names(low) THEN W \union {p} ELSE W) \ {q}
    PROVE  Both(low, r, W, V, s)
<1>1. /\ Tree(up, Path) /\ Tree(pl, Path) /\ Tree(low, Path) /\ Reached(low, up, W, pl)
      /\ Same(up, pl, p)
  BY AgreeNames, SameThere DEF Agree, Layers
<1>2. Path \subseteq Paths /\ q \in Paths /\ q # Root
  BY DEF PathSet
<1>3. Resolves(up, q) <=> Resolves(pl, q)
  BY DEF Resolves, SameWay
<1>4. Children(up, q) \subseteq Children(pl, q)
  BY <1>1 DEF Children, Reached
<1>5. q \in Names(up) /\ Children(pl, q) # {} => Children(up, q) # {}
  <2> SUFFICES ASSUME NEW x \in Children(pl, q) PROVE x \in Children(up, q)
    OBVIOUS
  <2>1. x \in Names(pl) /\ x # Root /\ x # q /\ Parent(x) = q /\ x \in Paths
    BY <1>1, <1>2 DEF Children, Tree, IsTree
  <2>2. q \in Ancestors(x)
    BY <1>2, <2>1, ParentFacts
  <2>3. ASSUME x \in Names(low), ~Covered(W, x) PROVE FALSE
    <3>1. q \in low.dirs
      BY <1>1, <2>2, <2>3 DEF Tree, IsTree
    <3>2. ~Covered(W, q)
      <4>1. \A w \in W : w \in Paths
        BY <1>2 DEF Agree, Layers
      <4>2. Within(q, x)
        BY <2>1, <2>2, AncestorFacts
      <4>3. \A w \in W : Within(w, q) => Within(w, x)
        BY <1>2, <2>1, <4>1, <4>2, WithinOrder
      <4> QED
        BY <2>3, <4>3 DEF Covered
    <3> QED
      BY <3>1, <3>2 DEF Names
  <2>4. x \in Names(up)
    BY <1>1, <2>1, <2>3 DEF Reached
  <2> QED
    BY <2>1, <2>4 DEF Children
<1>6. CASE q \in Names(up)
  <2>1. Same(up, pl, q)
    BY <1>6, SameThere
  <2>2. CASE \/ ~Resolves(up, q) \/ ~(IsDir(up, p) <=> IsDir(up, q))
             \/ IsDir(up, q) /\ Children(up, q) # {}
    <3>1. r.res # "ok" /\ r.fs = up
      BY <1>1, <2>1, <2>2 DEF Rename, Refuse, Same
    <3>2. \/ ~Resolves(pl, q) \/ ~(IsDir(pl, p) <=> IsDir(pl, q))
          \/ IsDir(pl, q) /\ Children(pl, q) # {}
      BY <1>1, <1>3, <1>4, <2>1, <2>2 DEF Same
    <3>3. s.res # "ok" /\ s.fs = pl
      BY <1>1, <2>1, <3>2 DEF Rename, Refuse, Same
    <3> QED
      BY <3>1, <3>3 DEF Both
  <2>3. CASE /\ Resolves(up, q) /\ (IsDir(up, p) <=> IsDir(up, q))
             /\ ~(IsDir(up, q) /\ Children(up, q) # {})
    <3>1. ~(IsDir(pl, q) /\ Children(pl, q) # {})
      BY <1>4, <1>5, <1>6, <2>1, <2>3 DEF Same
    <3>2. /\ r.res = "ok" /\ r.fs = MoveTree(RecordDir(Cleared(up, q), Parent(q)), p, q)
          /\ s.res = "ok" /\ s.fs = MoveTree(RecordDir(Cleared(pl, q), Parent(q)), p, q)
      BY <1>1, <1>3, <2>1, <2>3, <3>1 DEF Rename, Done, Same, Cleared
    <3>3. Agree(low, r.fs, V, s.fs)
      BY <1>3, <2>3, <3>1, <3>2, MovedAgree
    <3> QED
      BY <3>2, <3>3 DEF Both
  <2> QED
    BY <2>2, <2>3
<1>7. CASE q \notin Names(up)
  <2>1. ~Exists(up, q) /\ ~IsDir(up, q)
    BY <1>7 DEF Exists, IsDir, IsFileEntry, Names
  <2>2. Exists(pl, q) => ~IsDir(pl, p) /\ ~IsDir(pl, q)
    <3> SUFFICES ASSUME Exists(pl, q) PROVE ~IsDir(pl, p) /\ ~IsDir(pl, q)
      OBVIOUS
    <3>1. q \in Names(low) /\ ~Covered(W, q)
      BY <1>1, <1>7 DEF Exists, IsFileEntry, Names, Reached
    <3>2. q \notin low.dirs /\ p \notin pl.dirs
      BY <3>1
    <3>3. q \notin pl.dirs
      BY <1>7, <3>2 DEF Agree, DirsAgree, Names
    <3> QED
      BY <3>2, <3>3 DEF IsDir
  <2>3. ~IsDir(pl, q)
    BY <2>2 DEF IsDir, Exists
  <2>4. CASE ~Resolves(up, q)
    <3>1. r.res # "ok" /\ s.res # "ok" /\ r.fs = up /\ s.fs = pl
      BY <1>3, <2>4 DEF Rename, Refuse
    <3> QED
      BY <3>1 DEF Both
  <2>5. CASE Resolves(up, q)
    <3>1. /\ r.res = "ok" /\ r.fs = MoveTree(RecordDir(Cleared(up, q), Parent(q)), p, q)
          /\ s.res = "ok" /\ s.fs = MoveTree(RecordDir(Cleared(pl, q), Parent(q)), p, q)
      BY <1>1, <1>3, <2>1, <2>2, <2>3, <2>5 DEF Rename, Done, Same, Cleared
    <3>2. Agree(low, r.fs, V, s.fs)
      BY <1>3, <2>1, <2>3, <2>5, <3>1, MovedAgree
    <3> QED
      BY <3>1, <3>2 DEF Both
  <2> QED
    BY <2>4, <2>5
<1> QED
  BY <1>6, <1>7

(***************************************************************************)
(* What the union shows.                                                   *)
(***************************************************************************)
Shows == Agree(lower, upper, whiteouts, plain)

\* A lower entry that no whiteout covers.
Below(p) == p \in Names(lower) /\ ~Covered(whiteouts, p)

Seen(p) ==
    /\ Hidden(p) <=> Covered(whiteouts, p)
    /\ InUpper(p) <=> p \in Names(upper)
    /\ LowerVisible(p) <=> Below(p)
    /\ IsDir(lower, p) <=> p \in lower.dirs
    /\ OnlyLower(p) <=> Below(p) /\ p \notin Names(upper)

\* What the overlay's own tests on a path come to.
LEMMA Views == ASSUME Shows, NEW p PROVE Seen(p)
<1>1. Tree(lower, Path) /\ Tree(upper, Path)
  BY DEF Shows, Agree, Layers
<1>2. \A t : Exists(t, p) <=> p \in Names(t)
  BY DEF Exists, IsFileEntry, Names
<1>3. p \in Names(upper) => Resolves(upper, p)
  BY <1>1 DEF Tree, IsTree, Resolves, IsFileEntry
<1>4. Hidden(p) <=> Covered(whiteouts, p)
  BY DEF Hidden, Covered
<1>5. InUpper(p) <=> p \in Names(upper)
  BY <1>2, <1>3 DEF InUpper
<1>6. LowerVisible(p) <=> Below(p)
  BY <1>2, <1>4 DEF LowerVisible, Below
<1>7. IsDir(lower, p) <=> p \in lower.dirs
  BY <1>1 DEF Tree, IsTree, IsDir, IsFileEntry
<1> QED
  BY <1>4, <1>5, <1>6, <1>7 DEF Seen, OnlyLower

\* What Entry says of a tree.
LEMMA EntryKinds ==
    ASSUME NEW t, Tree(t, Path), NEW p
    PROVE  /\ Entry(t, p).kind = "dir" <=> p \in t.dirs
           /\ Entry(t, p).kind = "none" <=> p \notin Names(t)
           /\ p \in t.dirs => Entry(t, p) = [kind |-> "dir", data |-> ""]
           /\ p \notin Names(t) => Entry(t, p) = [kind |-> "none", data |-> ""]
           /\ IsFileEntry(t, p) => Entry(t, p) = [kind |-> "file", data |-> t.files[Canon(t, p)]]
<1>1. IsDir(t, p) <=> p \in t.dirs
  BY DEF Tree, IsTree, IsDir, IsFileEntry
<1>2. Exists(t, p) <=> p \in Names(t)
  BY DEF Exists, IsFileEntry, Names
<1>3. p \in t.dirs => p \in Names(t)
  BY DEF Names
<1>4. IsFileEntry(t, p) => p \in Names(t) /\ p \notin t.dirs
  BY DEF Tree, IsTree, IsFileEntry, Names
<1> QED
  BY <1>1, <1>2, <1>3, <1>4 DEF Entry, ReadFile

\* Stat and ReadFile show the plain tree.
LEMMA StatAgrees == ASSUME Shows, NEW p PROVE Stat(p) = Entry(plain, p)
<1>1. /\ Tree(lower, Path) /\ Tree(upper, Path) /\ Tree(plain, Path)
      /\ upper.links = plain.links /\ DOMAIN lower.links = {}
  BY DEF Shows, Agree, Layers, LinksAgree
<1>2. Seen(p) /\ Reached(lower, upper, whiteouts, plain)
  BY Views, AgreeNames DEF Shows
<1>3. CASE p \in Names(upper)
  <2>1. Stat(p) = Entry(upper, p)
    BY <1>2, <1>3 DEF Stat, Seen
  <2>2. CASE p \in upper.dirs
    <3>1. p \in plain.dirs
      BY <1>2, <2>2 DEF Reached
    <3> QED
      BY <1>1, <2>1, <2>2, <3>1, EntryKinds
  <2>3. CASE p \notin upper.dirs
    <3>1. IsFileEntry(upper, p) /\ IsFileEntry(plain, p)
      BY <1>2, <1>3, <2>3 DEF Names, IsFileEntry, Reached
    <3>2. PICK c : c = Canon(upper, p)
      OBVIOUS
    <3>3. Canon(plain, p) = c /\ c \in DOMAIN upper.files
      BY <1>1, <3>1, <3>2 DEF Canon, IsFileEntry, Tree, IsTree
    <3>4. c \in DOMAIN plain.files
      BY <3>3 DEF Shows, Agree, FilesAgree
    <3>5. plain.files[c] = upper.files[c]
      BY <3>3, <3>4 DEF Shows, Agree, DataAgree
    <3>6. Entry(upper, p) = [kind |-> "file", data |-> upper.files[c]]
      BY <1>1, <3>1, <3>2, EntryKinds
    <3>7. Entry(plain, p) = [kind |-> "file", data |-> plain.files[c]]
      BY <1>1, <3>1, <3>3, EntryKinds
    <3> QED
      BY <2>1, <3>5, <3>6, <3>7
  <2> QED
    BY <2>2, <2>3
<1>4. CASE p \notin Names(upper) /\ Covered(whiteouts, p)
  <2>1. Stat(p) = Entry(EmptyTree, p)
    BY <1>2, <1>4 DEF Stat, Seen
  <2>2. p \notin Names(plain)
    BY <1>2, <1>4 DEF Reached
  <2>3. Tree(EmptyTree, Path) /\ p \notin Names(EmptyTree)
    BY EmptyIsTree DEF EmptyTree, Names
  <2> QED
    BY <1>1, <2>1, <2>2, <2>3, EntryKinds
<1>5. CASE p \notin Names(upper) /\ ~Covered(whiteouts, p)
  <2>1. Stat(p) = Entry(lower, p)
    BY <1>2, <1>5 DEF Stat, Seen
  <2>2. CASE p \in lower.dirs
    <3>1. p \in plain.dirs
      BY <1>5, <2>2 DEF Shows, Agree, DirsAgree
    <3> QED
      BY <1>1, <2>1, <2>2, <3>1, EntryKinds
  <2>3. CASE p \in DOMAIN lower.files
    <3>1. p \in DOMAIN plain.files
      BY <1>5, <2>3 DEF Shows, Agree, FilesAgree
    <3>2. plain.files[p] = lower.files[p]
      BY <1>5, <3>1 DEF Shows, Agree, DataAgree, Names
    <3>3. Canon(plain, p) = p /\ Canon(lower, p) = p
      BY <1>1, <1>5 DEF Canon, Names
    <3>4. IsFileEntry(plain, p) /\ IsFileEntry(lower, p)
      BY <2>3, <3>1 DEF IsFileEntry
    <3>5. Entry(lower, p) = [kind |-> "file", data |-> lower.files[p]]
      BY <1>1, <3>3, <3>4, EntryKinds
    <3>6. Entry(plain, p) = [kind |-> "file", data |-> plain.files[p]]
      BY <1>1, <3>3, <3>4, EntryKinds
    <3> QED
      BY <2>1, <3>2, <3>5, <3>6
  <2>4. CASE p \notin Names(lower)
    <3>1. p \notin Names(plain)
      BY <1>2, <1>5, <2>4 DEF Reached
    <3> QED
      BY <1>1, <2>1, <2>4, <3>1, EntryKinds
  <2> QED
    BY <1>1, <2>2, <2>3, <2>4 DEF Names
<1> QED
  BY <1>3, <1>4, <1>5

\* A path lies in another one that is not the root if it is it, or its parent does.
LEMMA WithinParent ==
    ASSUME NEW w \in Paths, w # Root, NEW p \in Paths, p # Root
    PROVE  Within(w, p) <=> w = p \/ Within(w, Parent(p))
<1>1. PICK d : d = Parent(p)
  OBVIOUS
<1>2. Len(p) \in Nat /\ Len(p) # 0 /\ Len(w) \in Nat /\ Len(w) # 0
  BY EmptySeq DEF Paths, Root
<1>3. Len(p) - 1 \in 0 .. Len(p)
  BY <1>2
<1>4. d = SubSeq(p, 1, Len(p) - 1)
  BY <1>1 DEF Parent
<1>5. d \in Paths /\ Len(d) = Len(p) - 1 /\ \A i \in 1 .. Len(p) - 1 : d[i] = p[i]
  BY <1>3, <1>4, PrefixOf
<1>6. Within(d, p)
  BY <1>2, <1>5, WithinMeans
<1>7. (Ancestors(d) \union {d}) \ {Root} = Ancestors(p)
  BY <1>1, ParentFacts
<1>8. ASSUME Within(w, p), w # p PROVE Within(w, d)
  <2>1. w \in Ancestors(p)
    BY <1>8, BelowIsAncestor
  <2>2. w = d \/ w \in Ancestors(d)
    BY <1>7, <2>1
  <2> QED
    BY <1>5, <2>2, AncestorFacts, WithinOrder
<1>9. ASSUME Within(w, d) PROVE Within(w, p)
  BY <1>5, <1>6, <1>9, WithinOrder
<1> QED
  BY <1>1, <1>8, <1>9, WithinOrder

\* Nothing is its own parent.
LEMMA ParentIsOther == ASSUME NEW p \in Paths, p # Root PROVE Parent(p) # p
<1>1. Len(p) \in Nat /\ Len(p) # 0
  BY EmptySeq DEF Paths, Root
<1>2. Len(p) - 1 \in 0 .. Len(p)
  BY <1>1
<1>3. Len(Parent(p)) = Len(p) - 1
  BY <1>2, PrefixOf DEF Parent
<1> QED
  BY <1>1, <1>3

\* ReadDir lists the plain tree.
LEMMA ListAgrees ==
    ASSUME Shows, PathSet(Path), NEW d
    PROVE  /\ ReadDir(d) = Children(plain, d)
           /\ Children(plain, d) = {p \in Path : Parent(p) = d /\ p \in Names(plain)}
<1>1. /\ Tree(lower, Path) /\ Tree(upper, Path) /\ Tree(plain, Path)
      /\ whiteouts \subseteq Path
  BY DEF Shows, Agree, Layers
<1>2. Seen(d) /\ Reached(lower, upper, whiteouts, plain)
  BY Views, AgreeNames DEF Shows
<1>3. \A p \in Path : p \in Paths /\ p # Root /\ Parent(p) # p
  BY ParentIsOther DEF PathSet
<1>4. \A t : Tree(t, Path) => Names(t) \subseteq Path
  BY DEF Tree, IsTree
<1>5. \A t : Tree(t, Path) => Children(t, d) = {p \in Path : Parent(p) = d /\ p \in Names(t)}
  BY <1>3, <1>4 DEF Children
<1>6. ASSUME NEW p \in Path, Parent(p) = d
      PROVE  Covered(whiteouts, p) <=> Covered(whiteouts, d) \/ p \in whiteouts
  BY <1>1, <1>3, <1>6, WithinParent, WithinOrder DEF Covered
<1>7. ReadDir(d) = Children(upper, d) \union
        (IF Covered(whiteouts, d) THEN {} ELSE {p \in Children(lower, d) : p \notin whiteouts})
  BY <1>2 DEF ReadDir, Seen
<1>8. \A p \in Path : Parent(p) = d =>
         (p \in Names(plain) <=> \/ p \in Names(upper)
                                 \/ /\ p \in Names(lower) /\ ~Covered(whiteouts, d)
                                    /\ p \notin whiteouts)
  BY <1>2, <1>6 DEF Reached
<1>9. /\ Children(upper, d) = {p \in Path : Parent(p) = d /\ p \in Names(upper)}
      /\ Children(lower, d) = {p \in Path : Parent(p) = d /\ p \in Names(lower)}
      /\ Children(plain, d) = {p \in Path : Parent(p) = d /\ p \in Names(plain)}
  BY <1>1, <1>5
<1>10. ReadDir(d) = {p \in Path : Parent(p) = d /\ p \in Names(plain)}
  BY <1>7, <1>8, <1>9
<1> QED
  BY <1>9, <1>10

(***************************************************************************)
(* The steps of a call.                                                    *)
(***************************************************************************)
Named(o) ==
    /\ o.path \in Path
    /\ o.name \in {"write", "mkdir", "remove", "rename", "link", "truncate"}
    /\ o.name = "remove" => o.rec \in BOOLEAN
    /\ o.name \in {"rename", "link"} => o.to \in Path
    /\ o.name = "rename" => <<o.path, o.to>> \in Moves

\* Every call names paths of the program.
LEMMA CallFacts == ASSUME NEW o \in Calls PROVE Named(o)
<1>1. CASE o \in [name : {"write"}, path : Path, data : Content]
  BY <1>1 DEF Named
<1>2. CASE o \in [name : {"mkdir", "truncate"}, path : Path]
  BY <1>2 DEF Named
<1>3. CASE o \in [name : {"remove"}, path : Path, rec : BOOLEAN]
  BY <1>3 DEF Named
<1>4. CASE o \in [name : {"link"}, path : Path, to : Path]
  BY <1>4 DEF Named
<1>5. CASE o \in {[name |-> "rename", path |-> m[1], to |-> m[2]] : m \in Moves}
  <2>1. PICK m \in Moves : o = [name |-> "rename", path |-> m[1], to |-> m[2]]
    BY <1>5
  <2>2. m \in Path \X Path
    BY OverlayAssumption
  <2>3. m[1] \in Path /\ m[2] \in Path /\ m = <<m[1], m[2]>>
    BY <2>2
  <2>4. o.name = "rename" /\ o.path = m[1] /\ o.to = m[2]
    BY <2>1
  <2> QED
    BY <2>3, <2>4 DEF Named
<1> QED
  BY <1>1, <1>2, <1>3, <1>4, <1>5 DEF Calls

\* The paths of the program are closed under their ancestors.
LEMMA PathsAreSet == PathSet(Path)
BY OverlayAssumption DEF PathSet, Paths

\* No lower entry is in the way of a call, and clearing the whiteout at its
\* target uncovers nothing.
Clear(low, up, W, pl, o) ==
    LET q == Target(o) IN
    /\ o.name \in {"write", "mkdir", "rename", "link"} => SameWay(up, pl, q)
    /\ o.name = "write" => (q \in up.dirs <=> q \in pl.dirs)
    /\ o.name = "mkdir" =>
         /\ IsFileEntry(up, q) <=> IsFileEntry(pl, q)
         /\ q \in W => \A x \in Names(low) : Within(q, x) => x = q
    /\ o.name \in {"write", "rename", "link"} /\ q \in W => q \notin low.dirs
    /\ o.name = "rename" /\ q \in Names(low) /\ ~Covered(W, q) =>
         q \notin low.dirs /\ o.path \notin pl.dirs

\* What the first part of a call leaves for the second.
Prepared(up, pl, o) ==
    /\ o.name = "remove" =>
         /\ o.path \in Names(pl)
         /\ ~o.rec /\ o.path \in pl.dirs => Children(pl, o.path) = {}
    /\ o.name = "rename" =>
         /\ o.path \in Names(up)
         /\ \A x \in Names(pl) : /\ Remap(o.path, o.to, x) \in Path
                                 /\ Within(o.path, x) => x \in Names(up)
    /\ o.name = "link" => o.path \in Names(up) /\ o.to \notin Names(pl)
    /\ o.name = "truncate" => o.path \in Names(up)

Applied(o) == IF o.name = "remove" /\ ~InUpper(o.path) THEN Done(upper) ELSE On(upper, o)

\* Nothing is in the way of a call that does not depart.
LEMMA WayAgrees ==
    ASSUME Shows, NEW o, ~InTheWay(o)
    PROVE  SameWay(upper, plain, Target(o))
<1>1. Tree(lower, Path) /\ Reached(lower, upper, whiteouts, plain)
  BY AgreeNames DEF Shows, Agree, Layers
<1> SUFFICES ASSUME NEW x \in Ancestors(Target(o)), IsFileEntry(plain, x), ~IsFileEntry(upper, x)
             PROVE  FALSE
  BY <1>1 DEF SameWay, Reached
<1>2. x \in DOMAIN lower.files /\ ~Covered(whiteouts, x) /\ x \notin Names(upper)
  BY <1>1 DEF Reached
<1>3. x \in Names(lower) /\ x \notin lower.dirs
  BY <1>1, <1>2 DEF Tree, IsTree, Names
<1>4. OnlyLower(x) /\ ~IsDir(lower, x)
  BY <1>2, <1>3, Views DEF Seen, Below
<1> QED
  BY <1>4 DEF InTheWay

\* So a call that does not depart is clear.
LEMMA ClearOfDepartures ==
    ASSUME Shows, NEW o \in Calls, ~Departs(o)
    PROVE  Clear(lower, upper, whiteouts, plain, o)
<1>1. Named(o) /\ PathSet(Path) /\ Agree(lower, upper, whiteouts, plain)
  BY CallFacts, PathsAreSet DEF Shows
<1>2. /\ Tree(lower, Path) /\ Tree(upper, Path) /\ Tree(plain, Path)
      /\ Reached(lower, upper, whiteouts, plain)
  BY <1>1, AgreeNames DEF Agree, Layers
<1>3. PICK q : q = Target(o)
  OBVIOUS
<1>4. Seen(q) /\ q \in Path
  BY <1>1, <1>3, Views DEF Named, Target
<1>5. o.name \in {"write", "mkdir", "rename", "link"} => ~InTheWay(o) /\ ~Unhides(o)
  BY DEF Departs
<1>6. o.name \in {"write", "mkdir", "rename", "link"} => SameWay(upper, plain, q)
  BY <1>3, <1>5, WayAgrees
<1>7. o.name = "write" => (q \in upper.dirs <=> q \in plain.dirs)
  <2> SUFFICES ASSUME o.name = "write", q \in plain.dirs, q \notin upper.dirs PROVE FALSE
    BY <1>2 DEF Reached
  <2>1. q \in lower.dirs /\ ~Covered(whiteouts, q)
    BY <1>1 DEF Agree, DirsAgree
  <2>2. q \notin Names(upper)
    BY <1>2 DEF Reached, Names, IsFileEntry, Tree, IsTree
  <2>3. OnlyLower(q) /\ IsDir(lower, q)
    BY <1>4, <2>1, <2>2 DEF Seen, Below, Names
  <2> QED
    BY <1>3, <1>5, <2>3 DEF InTheWay
<1>8. o.name = "mkdir" => (IsFileEntry(upper, q) <=> IsFileEntry(plain, q))
  <2> SUFFICES ASSUME o.name = "mkdir", IsFileEntry(plain, q), ~IsFileEntry(upper, q) PROVE FALSE
    BY <1>2 DEF Reached
  <2>1. q \in DOMAIN lower.files /\ ~Covered(whiteouts, q) /\ q \notin Names(upper)
    BY <1>2 DEF Reached
  <2>2. q \in Names(lower) /\ q \notin lower.dirs
    BY <1>2, <2>1 DEF Tree, IsTree, Names
  <2>3. OnlyLower(q) /\ ~IsDir(lower, q)
    BY <1>4, <2>1, <2>2 DEF Seen, Below
  <2> QED
    BY <1>3, <1>5, <2>3 DEF InTheWay
<1>9. o.name = "mkdir" /\ q \in whiteouts => \A x \in Names(lower) : Within(q, x) => x = q
  <2> SUFFICES ASSUME o.name = "mkdir", q \in whiteouts
               PROVE  \A x \in Names(lower) : Within(q, x) => x = q
    OBVIOUS
  <2>1. IsDir(lower, q) => Children(lower, q) = {}
    BY <1>3, <1>5 DEF Unhides
  <2> QED
    BY <1>1, <1>2, <1>4, <2>1, NothingBelow
<1>10. o.name \in {"write", "rename", "link"} /\ q \in whiteouts => q \notin lower.dirs
  BY <1>3, <1>4, <1>5 DEF Unhides, Seen
<1>11. o.name = "rename" /\ q \in Names(lower) /\ ~Covered(whiteouts, q) =>
         q \notin lower.dirs /\ o.path \notin plain.dirs
  <2> SUFFICES ASSUME o.name = "rename", Below(q)
               PROVE  q \notin lower.dirs /\ o.path \notin plain.dirs
    BY DEF Below
  <2>1. LowerVisible(q)
    BY <1>4 DEF Seen
  <2>2. ~IsDir(lower, q) /\ Stat(o.path).kind # "dir"
    BY <1>3, <1>5, <2>1 DEF InTheWay
  <2>3. Stat(o.path).kind = "dir" <=> o.path \in plain.dirs
    BY <1>2, StatAgrees, EntryKinds
  <2> QED
    BY <1>4, <2>2, <2>3 DEF Seen
<1> QED
  BY <1>3, <1>6, <1>7, <1>8, <1>9, <1>10, <1>11 DEF Clear

\* The second part of a call.
LEMMA ApplyAgrees ==
    ASSUME NoSelfMove, Shows, NEW o \in Calls, Prepared(upper, plain, o),
           Clear(lower, upper, whiteouts, plain, o)
    PROVE  Both(lower, Applied(o), whiteouts, Marked(o, LowerVisible(o.path)), On(plain, o))
<1>1. Named(o) /\ PathSet(Path) /\ Agree(lower, upper, whiteouts, plain)
  BY CallFacts, PathsAreSet DEF Shows
<1>2. PICK p, q : p = o.path /\ q = Target(o)
  OBVIOUS
<1>3. Seen(p) /\ p \in Path
  BY <1>1, <1>2, Views DEF Named
<1>4. PICK V : V = Marked(o, LowerVisible(o.path))
  OBVIOUS
<1>5. PICK r, s : r = Applied(o) /\ s = On(plain, o)
  OBVIOUS
<1>6. CASE o.name = "write"
  <2>1. /\ SameWay(upper, plain, p) /\ (p \in upper.dirs <=> p \in plain.dirs)
        /\ p \in whiteouts => p \notin lower.dirs
    BY <1>2, <1>6 DEF Clear, Target
  <2>2. r = WriteFile(upper, p, o.data) /\ s = WriteFile(plain, p, o.data)
    BY <1>2, <1>5, <1>6 DEF Applied, On
  <2>3. V = whiteouts \ {p}
    BY <1>2, <1>4, <1>6 DEF Marked
  <2>4. Both(lower, r, whiteouts, whiteouts \ {p}, s)
    BY <1>1, <1>3, <2>1, <2>2, WriteAgree
  <2> QED
    BY <1>4, <1>5, <2>3, <2>4
<1>7. CASE o.name = "mkdir"
  <2>1. /\ SameWay(upper, plain, p) /\ (IsFileEntry(upper, p) <=> IsFileEntry(plain, p))
        /\ p \in whiteouts => \A x \in Names(lower) : Within(p, x) => x = p
    BY <1>2, <1>7 DEF Clear, Target
  <2>2. r = MkdirAll(upper, p) /\ s = MkdirAll(plain, p)
    BY <1>2, <1>5, <1>7 DEF Applied, On
  <2>3. V = whiteouts \ {p}
    BY <1>2, <1>4, <1>7 DEF Marked
  <2>4. Both(lower, r, whiteouts, whiteouts \ {p}, s)
    BY <1>1, <1>3, <2>1, <2>2, MkdirAgree
  <2> QED
    BY <1>4, <1>5, <2>3, <2>4
<1>8. CASE o.name = "remove"
  <2>1. /\ p \in Names(plain) /\ o.rec \in BOOLEAN
        /\ ~o.rec /\ p \in plain.dirs => Children(plain, p) = {}
    BY <1>1, <1>2, <1>8 DEF Prepared, Named
  <2>2. r = IF p \in Names(upper) THEN Remove(upper, p, o.rec) ELSE Done(upper)
    BY <1>2, <1>3, <1>5, <1>8 DEF Applied, On, Seen
  <2>3. s = Remove(plain, p, o.rec)
    BY <1>2, <1>5, <1>8 DEF On
  <2>4. V = IF p \in Names(lower) /\ ~Covered(whiteouts, p) THEN whiteouts \union {p} ELSE whiteouts
    BY <1>2, <1>3, <1>4, <1>8 DEF Marked, Seen, Below
  <2>5. Both(lower, r, whiteouts, V, s)
    BY <1>1, <1>3, <2>1, <2>2, <2>3, <2>4, RemoveCallAgree
  <2> QED
    BY <1>4, <1>5, <2>5
<1>9. CASE o.name = "rename"
  <2>1. q = o.to /\ q \in Path /\ <<p, q>> \in Moves
    BY <1>1, <1>2, <1>9 DEF Target, Named
  <2>2. /\ SameWay(upper, plain, q)
        /\ q \in whiteouts \/ (q \in Names(lower) /\ ~Covered(whiteouts, q)) => q \notin lower.dirs
        /\ q \in Names(lower) /\ ~Covered(whiteouts, q) => p \notin plain.dirs
    BY <1>2, <1>9 DEF Clear
  <2>3. /\ p \in Names(upper)
        /\ \A x \in Names(plain) : /\ Remap(p, q, x) \in Path
                                   /\ Within(p, x) => x \in Names(upper)
    BY <1>2, <1>9, <2>1 DEF Prepared
  <2>4. ~Within(p, q)
    BY <2>1 DEF NoSelfMove
  <2>5. r = Rename(upper, p, q) /\ s = Rename(plain, p, q)
    BY <1>2, <1>5, <1>9, <2>1 DEF Applied, On
  <2>6. V = (IF p \in Names(lower) THEN whiteouts \union {p} ELSE whiteouts) \ {q}
    <3>1. Exists(lower, p) <=> p \in Names(lower)
      BY DEF Exists, IsFileEntry, Names
    <3> QED
      BY <1>2, <1>4, <1>9, <2>1, <3>1 DEF Marked
  <2>7. Both(lower, r, whiteouts, V, s)
    BY <1>1, <1>3, <2>1, <2>2, <2>3, <2>4, <2>5, <2>6, RenameAgree
  <2> QED
    BY <1>4, <1>5, <2>7
<1>10. CASE o.name = "link"
  <2>1. q = o.to /\ q \in Path
    BY <1>1, <1>2, <1>10 DEF Target, Named
  <2>2. SameWay(upper, plain, q) /\ (q \in whiteouts => q \notin lower.dirs)
    BY <1>2, <1>10 DEF Clear
  <2>3. p \in Names(upper) /\ q \notin Names(plain)
    BY <1>2, <1>10, <2>1 DEF Prepared
  <2>4. r = Link(upper, p, q) /\ s = Link(plain, p, q)
    BY <1>2, <1>5, <1>10, <2>1 DEF Applied, On
  <2>5. V = whiteouts \ {q}
    BY <1>4, <1>10, <2>1 DEF Marked
  <2>6. Both(lower, r, whiteouts, whiteouts \ {q}, s)
    BY <1>1, <2>1, <2>2, <2>3, <2>4, LinkAgree
  <2> QED
    BY <1>4, <1>5, <2>5, <2>6
<1>11. CASE o.name = "truncate"
  <2>1. p \in Names(upper)
    BY <1>2, <1>11 DEF Prepared
  <2>2. r = Truncate(upper, p, "") /\ s = Truncate(plain, p, "")
    BY <1>2, <1>5, <1>11 DEF Applied, On
  <2>3. V = whiteouts
    BY <1>4, <1>11 DEF Marked
  <2>4. Both(lower, r, whiteouts, whiteouts, s)
    BY <1>1, <2>1, <2>2, TruncateAgree
  <2> QED
    BY <1>4, <1>5, <2>3, <2>4
<1> QED
  BY <1>1, <1>6, <1>7, <1>8, <1>9, <1>10, <1>11 DEF Named

\* What lies in p and shows, and the directories on the way to it.
Uncovered(low, W, p) ==
    /\ ~Covered(W, p) /\ p \in Names(low)
    /\ \A x \in Ancestors(p) : x \in low.dirs /\ ~Covered(W, x)

\* No whiteout covers the directories above a lower entry that shows.
LEMMA WayUncovered ==
    ASSUME NEW low, NEW up, NEW W, NEW pl, Agree(low, up, W, pl), PathSet(Path),
           NEW p \in Names(low), ~Covered(W, p)
    PROVE  p \in Paths /\ p \in Path /\ Uncovered(low, W, p)
<1>1. Tree(low, Path) /\ W \subseteq Path /\ Path \subseteq Paths
  BY DEF Agree, Layers, PathSet
<1>2. p \in Path /\ p \in Paths /\ Ancestors(p) \subseteq low.dirs
  BY <1>1 DEF Tree, IsTree
<1>3. ASSUME NEW x \in Ancestors(p) PROVE ~Covered(W, x)
  BY <1>1, <1>2, <1>3, AncestorFacts DEF Covered
<1> QED
  BY <1>2, <1>3 DEF Uncovered

\* t is a copy of up with more of the lower layer, and p in it.
Fuller(low, up, W, pl, t, p) ==
    /\ Agree(low, t, W, pl) /\ Names(up) \subseteq Names(t) /\ p \in Names(t)
    /\ \A x : IsFileEntry(up, x) => IsFileEntry(t, x)

\* copyUp: a lower entry is copied with the directories it lies in.
LEMMA CopyUpAgree ==
    ASSUME Shows, PathSet(Path), NEW p \in Names(lower), ~Covered(whiteouts, p),
           p \notin Names(upper), NEW r, r = CopyUp(upper, p)
    PROVE  r.res = "ok" /\ Fuller(lower, upper, whiteouts, plain, r.fs, p)
<1>1. /\ Agree(lower, upper, whiteouts, plain) /\ Tree(lower, Path) /\ Tree(upper, Path)
      /\ DOMAIN lower.links = {}
  BY DEF Shows, Agree, Layers
<1>2. /\ p \in Path /\ p \in Paths /\ p # Root
      /\ \A x \in Ancestors(p) : x \in lower.dirs /\ ~Covered(whiteouts, x)
  BY <1>1, WayUncovered DEF PathSet, Uncovered
<1>3. PICK N : N = Ancestors(p) \union {p}
  OBVIOUS
<1>4. DOMAIN lower.files \cap lower.dirs = {} /\ lower.dirs \subseteq Names(lower)
  BY <1>1 DEF Tree, IsTree, Names
<1>5. ASSUME NEW x \in N
      PROVE  /\ x \in Names(lower) /\ ~Covered(whiteouts, x)
             /\ x \in DOMAIN lower.files => x \notin Names(upper)
             /\ Ancestors(x) \subseteq N \union upper.dirs
  BY <1>2, <1>3, <1>4, AncestorFacts
<1>6. Resolves(upper, p)
  BY <1>1, <1>2 DEF Resolves, Agree, NoClash
<1>7. p \notin upper.dirs /\ ~IsFileEntry(upper, p)
  BY DEF Names, IsFileEntry
<1>8. r.res = "ok" /\ Copied(lower, upper, N, r.fs)
  <2>1. CASE p \in lower.dirs
    <3>1. IsDir(lower, p)
      BY <1>1, <2>1 DEF IsDir, IsFileEntry, Tree, IsTree
    <3>2. N \ {Root} = N
      BY <1>2, <1>3, AncestorFacts
    <3>3. r.res = "ok" /\ r.fs = [upper EXCEPT !.dirs = @ \union N]
      BY <1>3, <1>6, <1>7, <3>1, <3>2 DEF CopyUp, MkdirAll, Done, RecordDir
    <3>4. r.fs = [files |-> upper.files, dirs |-> upper.dirs \union N, links |-> upper.links]
      BY <1>1, <3>3 DEF Tree, IsFs
    <3>5. /\ r.fs.files = upper.files /\ r.fs.dirs = upper.dirs \union N
          /\ r.fs.links = upper.links /\ IsFs(r.fs)
      BY <3>4 DEF IsFs
    <3>6. N \cap lower.dirs = N /\ N \cap DOMAIN lower.files = {}
      BY <1>2, <1>3, <1>4, <2>1
    <3> QED
      BY <3>3, <3>5, <3>6 DEF Copied
  <2>2. CASE p \notin lower.dirs
    <3>1. p \in DOMAIN lower.files /\ ~IsDir(lower, p)
      BY <1>1, <2>2 DEF Names, IsDir
    <3>2. Canon(upper, p) = p /\ ReadFile(lower, p) = lower.files[p]
      BY <1>1, <1>7 DEF Canon, ReadFile, IsFileEntry
    <3>3. PICK t : t = RecordDir(upper, Parent(p))
      OBVIOUS
    <3>4. /\ Tree(t, Path) /\ t.files = upper.files /\ t.links = upper.links
          /\ t.dirs = upper.dirs \union Ancestors(p)
      BY <1>1, <1>2, <1>6, <3>3, RecordParents
    <3>5. r.res = "ok" /\ r.fs = [t EXCEPT !.files = With(@, p, lower.files[p])]
      BY <1>6, <1>7, <3>1, <3>2, <3>3 DEF CopyUp, WriteFile, Done
    <3>6. r.fs = [files |-> With(upper.files, p, lower.files[p]), dirs |-> t.dirs,
                  links |-> upper.links]
      BY <3>4, <3>5 DEF Tree, IsFs
    <3>7. /\ r.fs.files = With(upper.files, p, lower.files[p])
          /\ r.fs.dirs = upper.dirs \union Ancestors(p)
          /\ r.fs.links = upper.links /\ IsFs(r.fs)
      BY <3>4, <3>6 DEF IsFs
    <3>8. N \cap lower.dirs = Ancestors(p) /\ N \cap DOMAIN lower.files = {p}
      BY <1>2, <1>3, <1>4, <2>2, <3>1
    <3>9. /\ DOMAIN r.fs.files = DOMAIN upper.files \union {p}
          /\ \A x \in DOMAIN r.fs.files :
                r.fs.files[x] = IF x \in DOMAIN upper.files THEN upper.files[x] ELSE lower.files[x]
      BY <1>7, <3>7 DEF With, IsFileEntry
    <3> QED
      BY <3>5, <3>7, <3>8, <3>9 DEF Copied
  <2> QED
    BY <2>1, <2>2
<1>9. Agree(lower, r.fs, whiteouts, plain) /\ Names(r.fs) = Names(upper) \union N
  BY <1>1, <1>5, <1>8, CopyAgree
<1>10. \A x : IsFileEntry(upper, x) => IsFileEntry(r.fs, x)
  BY <1>8 DEF Copied, IsFileEntry
<1> QED
  BY <1>3, <1>8, <1>9, <1>10 DEF Fuller

\* copyUpTree: all that shows of a lower directory; it meets no file.
LEMMA CopyTreeAgree ==
    ASSUME Shows, PathSet(Path), NEW p \in lower.dirs, ~Covered(whiteouts, p),
           NEW r, r = CopyUpTree(p)
    PROVE  /\ r.res = "ok" /\ Fuller(lower, upper, whiteouts, plain, r.fs, p)
           /\ \A x \in Names(plain) : Within(p, x) => x \in Names(r.fs)
<1>1. /\ Agree(lower, upper, whiteouts, plain) /\ Tree(lower, Path) /\ Tree(upper, Path)
      /\ DOMAIN lower.links = {} /\ whiteouts \subseteq Path
      /\ Reached(lower, upper, whiteouts, plain)
  BY AgreeNames DEF Shows, Agree, Layers
<1>2. p \in Names(lower)
  BY DEF Names
<1>3. /\ p \in Path /\ p \in Paths /\ p # Root
      /\ \A x \in Ancestors(p) : x \in lower.dirs /\ ~Covered(whiteouts, x)
  BY <1>1, <1>2, WayUncovered DEF PathSet, Uncovered
<1>4. /\ DOMAIN lower.files \cap lower.dirs = {} /\ lower.dirs \subseteq Names(lower)
      /\ \A x \in Names(lower) : x \in Paths /\ x # Root /\ Ancestors(x) \subseteq lower.dirs
      /\ \A w \in whiteouts : w \in Paths
  BY <1>1 DEF Tree, IsTree, Names, PathSet
<1> DEFINE S == {x \in Names(lower) : Within(p, x) /\
                   \A w \in whiteouts : ~(w # p /\ Within(p, w) /\ Within(w, x))}
           C == {x \in S : ~Exists(upper, x)}
           N == C \union Ancestors(p)
           F == [x \in DOMAIN upper.files \union (C \cap DOMAIN lower.files) |->
                   IF x \in DOMAIN upper.files THEN upper.files[x] ELSE lower.files[x]]
           D == upper.dirs \union (C \cap lower.dirs) \union (Ancestors(p) \ {Root})
<1>5. \A x \in Names(lower) : x \in S <=> Within(p, x) /\ ~Covered(whiteouts, x)
  <2> SUFFICES ASSUME NEW x \in Names(lower), Within(p, x)
               PROVE  (\A w \in whiteouts : ~(w # p /\ Within(p, w) /\ Within(w, x)))
                        <=> ~Covered(whiteouts, x)
    OBVIOUS
  <2>1. ASSUME NEW w \in whiteouts, Within(w, x) PROVE w # p /\ Within(p, w)
    <3>1. ~Within(w, p) /\ Within(p, p)
      BY <1>3, WithinOrder DEF Covered
    <3>2. Within(w, p) \/ Within(p, w)
      BY <1>3, <1>4, <2>1, WithinOrder
    <3> QED
      BY <3>1, <3>2
  <2> QED
    BY <2>1 DEF Covered
<1>6. S \subseteq Names(lower) /\ C = {x \in S : x \notin Names(upper)}
  BY DEF Exists, IsFileEntry, Names
<1>7. ~\E x \in S : IsDir(lower, x) /\ IsFileEntry(upper, x)
  <2> SUFFICES ASSUME NEW x \in S, IsDir(lower, x), IsFileEntry(upper, x) PROVE FALSE
    OBVIOUS
  <2>1. x \in lower.dirs /\ ~Covered(whiteouts, x)
    BY <1>5, <1>6 DEF IsDir
  <2> QED
    BY <1>1, <2>1 DEF Agree, NoClash
<1>8. r.res = "ok" /\ r.fs = [upper EXCEPT !.dirs = D, !.files = F]
  BY <1>7 DEF CopyUpTree, Done
<1> HIDE DEF S, C
<1>9. C \subseteq Names(lower) /\ \A x \in C : Within(p, x) /\ ~Covered(whiteouts, x) /\ x \notin Names(upper)
  BY <1>5, <1>6
<1>10. /\ DOMAIN F = DOMAIN upper.files \union (C \cap DOMAIN lower.files)
       /\ \A x \in DOMAIN F : F[x] = IF x \in DOMAIN upper.files THEN upper.files[x] ELSE lower.files[x]
  OBVIOUS
<1>11. D = upper.dirs \union (N \cap lower.dirs)
  <2>1. Root \notin Ancestors(p)
    BY <1>3, AncestorFacts
  <2> QED
    BY <1>3, <2>1
<1>12. N \cap DOMAIN lower.files = C \cap DOMAIN lower.files
  BY <1>3, <1>4
<1> HIDE DEF D, F
<1>13. Copied(lower, upper, N, r.fs)
  <2>1. r.fs = [files |-> F, dirs |-> D, links |-> upper.links]
    BY <1>1, <1>8 DEF Tree, IsFs
  <2>2. r.fs.files = F /\ r.fs.dirs = D /\ r.fs.links = upper.links /\ IsFs(r.fs)
    BY <2>1 DEF IsFs
  <2> QED
    BY <1>10, <1>11, <1>12, <2>2 DEF Copied
<1>14. ASSUME NEW x \in N
       PROVE  /\ x \in Names(lower) /\ ~Covered(whiteouts, x)
              /\ x \in DOMAIN lower.files => x \notin Names(upper)
              /\ Ancestors(x) \subseteq N \union upper.dirs
  <2>1. CASE x \in Ancestors(p)
    BY <1>3, <1>4, <2>1, AncestorFacts
  <2>2. CASE x \in C
    <3>1. x \in Names(lower) /\ Within(p, x) /\ ~Covered(whiteouts, x) /\ x \notin Names(upper)
      BY <1>9, <2>2
    <3>2. ASSUME NEW a \in Ancestors(x) PROVE a \in N \union upper.dirs
      <4>1. x \in Paths /\ a \in lower.dirs
        BY <1>4, <3>1, <3>2
      <4>2. a \in Paths /\ Within(a, x) /\ a # Root
        BY <3>2, <4>1, AncestorFacts
      <4>3. ~Covered(whiteouts, a)
        BY <1>4, <3>1, <4>1, <4>2, WithinOrder DEF Covered
      <4>4. CASE Within(p, a)
        <5>1. a \in S
          BY <1>4, <1>5, <4>1, <4>3, <4>4
        <5>2. a \in Names(upper) => a \in upper.dirs
          BY <1>1, <4>1, <4>3 DEF Agree, NoClash, IsFileEntry, Names
        <5> QED
          BY <1>6, <5>1, <5>2
      <4>5. CASE ~Within(p, a)
        <5>1. Within(a, p)
          BY <1>3, <3>1, <4>1, <4>2, <4>5, WithinOrder
        <5>2. a # p
          BY <1>3, <4>5, WithinOrder
        <5> QED
          BY <1>3, <4>2, <5>1, <5>2, BelowIsAncestor
      <4> QED
        BY <4>4, <4>5
    <3> QED
      BY <3>1, <3>2
  <2> QED
    BY <2>1, <2>2
<1>15. Agree(lower, r.fs, whiteouts, plain) /\ Names(r.fs) = Names(upper) \union N
  <2>1. \A x \in N : /\ x \in Names(lower) /\ ~Covered(whiteouts, x)
                     /\ x \in DOMAIN lower.files => x \notin Names(upper)
                     /\ Ancestors(x) \subseteq N \union upper.dirs
    BY <1>14
  <2>2. PICK M : M = N
    OBVIOUS
  <2>3. Copied(lower, upper, M, r.fs) /\ Agree(lower, upper, whiteouts, plain)
    BY <1>1, <1>13, <2>2
  <2>4. \A x \in M : /\ x \in Names(lower) /\ ~Covered(whiteouts, x)
                     /\ x \in DOMAIN lower.files => x \notin Names(upper)
                     /\ Ancestors(x) \subseteq M \union upper.dirs
    BY <2>1, <2>2
  <2> HIDE DEF N
  <2>5. Agree(lower, r.fs, whiteouts, plain) /\ Names(r.fs) = Names(upper) \union M
    BY <2>3, <2>4, CopyAgree
  <2> QED
    BY <2>2, <2>5
<1>16. \A x \in Names(plain) : Within(p, x) => x \in Names(r.fs)
  BY <1>1, <1>5, <1>6, <1>15 DEF Reached
<1>17. p \in Names(plain) /\ Within(p, p)
  BY <1>1, <1>2, <1>3, WithinOrder DEF Reached
<1>18. \A x : IsFileEntry(upper, x) => IsFileEntry(r.fs, x)
  BY <1>13 DEF Copied, IsFileEntry
<1> QED
  BY <1>8, <1>15, <1>16, <1>17, <1>18 DEF Fuller

\* What Finish reports of the plain tree.
PlainClass(o) ==
    IF o.name = "remove" /\ o.rec /\ ~Resolves(plain, o.path) THEN "ok" ELSE On(plain, o).res

\* r is what the first part of a call may come to: the union shows what it
\* did and the rest of the call can be done, or the plain tree refuses too.
Sets(o, r) ==
    IF r.res = "ok"
    THEN /\ Agree(lower, r.fs, whiteouts, plain) /\ Prepared(r.fs, plain, o)
         /\ Clear(lower, r.fs, whiteouts, plain, o)
    ELSE /\ r.fs = upper /\ On(plain, o).fs = plain
         /\ r.res = "skip" <=> PlainClass(o) = "ok"

\* A call stays clear while more is copied up.
LEMMA FullerClear ==
    ASSUME NEW low, NEW up, NEW W, NEW pl, NEW t, NEW p, Fuller(low, up, W, pl, t, p),
           NEW o, o.name \in {"rename", "link", "truncate"}, Clear(low, up, W, pl, o)
    PROVE  Clear(low, t, W, pl, o)
<1>1. \A x : IsFileEntry(t, x) => IsFileEntry(pl, x)
  BY AgreeNames DEF Fuller, Reached
<1>2. PICK q : q = Target(o)
  OBVIOUS
<1>3. SameWay(up, pl, q) => SameWay(t, pl, q)
  BY <1>1 DEF SameWay, Fuller
<1>4. /\ o.name # "write" /\ o.name # "mkdir"
      /\ o.name \in {"rename", "link"} => SameWay(up, pl, q) /\ (q \in W => q \notin low.dirs)
      /\ o.name = "rename" /\ q \in Names(low) /\ ~Covered(W, q) =>
           q \notin low.dirs /\ o.path \notin pl.dirs
  BY <1>2 DEF Clear
<1> QED
  BY <1>2, <1>3, <1>4 DEF Clear

\* mutateInUpper, and the target of a link.
LEMMA PrepareChangeAgree ==
    ASSUME Shows, NEW p \in Path, NEW r, r = PrepareChange(p)
    PROVE  IF r.res = "ok" THEN Fuller(lower, upper, whiteouts, plain, r.fs, p)
           ELSE r.fs = upper /\ r.res = "notexist" /\ p \notin Names(plain)
<1>1. Seen(p) /\ Reached(lower, upper, whiteouts, plain) /\ PathSet(Path)
  BY Views, AgreeNames, PathsAreSet DEF Shows
<1>2. CASE p \in Names(upper)
  <2>1. r.res = "ok" /\ r.fs = upper
    BY <1>1, <1>2 DEF PrepareChange, Done, Seen
  <2> QED
    BY <1>2, <2>1 DEF Fuller, Shows
<1>3. CASE p \notin Names(upper) /\ Below(p)
  <2>1. r = CopyUp(upper, p)
    BY <1>1, <1>3 DEF PrepareChange, Seen
  <2> QED
    BY <1>1, <1>3, <2>1, CopyUpAgree DEF Below
<1>4. CASE p \notin Names(upper) /\ ~Below(p)
  <2>1. r.res = "notexist" /\ r.fs = upper
    BY <1>1, <1>4 DEF PrepareChange, Refuse, Seen
  <2>2. p \notin Names(plain)
    BY <1>1, <1>4 DEF Reached, Below
  <2> QED
    BY <2>1, <2>2
<1> QED
  BY <1>2, <1>3, <1>4

\* Before a rename: everything below the name is in the upper layer, or the
\* name exists nowhere.
LEMMA PrepareRenameAgree ==
    ASSUME Shows, NEW p \in Path, NEW r, r = PrepareRename(p)
    PROVE  IF r.res = "ok"
           THEN /\ Fuller(lower, upper, whiteouts, plain, r.fs, p)
                /\ \A x \in Names(plain) : Within(p, x) => x \in Names(r.fs)
           ELSE r.fs = upper /\ r.res = "notexist" /\ p \notin Names(plain)
<1>1. /\ Seen(p) /\ Reached(lower, upper, whiteouts, plain) /\ PathSet(Path)
      /\ Tree(lower, Path) /\ p \in Paths /\ p # Root /\ whiteouts \subseteq Path
  BY Views, AgreeNames, PathsAreSet DEF Shows, PathSet, Agree, Layers
<1>2. CASE Below(p) /\ p \in lower.dirs
  <2>1. r = CopyUpTree(p)
    BY <1>1, <1>2 DEF PrepareRename, Seen
  <2> QED
    BY <1>1, <1>2, <2>1, CopyTreeAgree DEF Below
<1>3. CASE ~(Below(p) /\ p \in lower.dirs)
  <2>1. r = PrepareChange(p)
    BY <1>1, <1>3 DEF PrepareRename, PrepareChange, Seen
  <2>2. IF r.res = "ok" THEN Fuller(lower, upper, whiteouts, plain, r.fs, p)
        ELSE r.fs = upper /\ r.res = "notexist" /\ p \notin Names(plain)
    BY <2>1, PrepareChangeAgree
  <2>3. ASSUME NEW x \in Names(plain), Within(p, x), r.res = "ok" PROVE x \in Names(r.fs)
    <3>1. Names(upper) \subseteq Names(r.fs) /\ p \in Names(r.fs)
      BY <2>2, <2>3 DEF Fuller
    <3>2. CASE x \in Names(upper) \/ x = p
      BY <3>1, <3>2
    <3>3. CASE x \notin Names(upper) /\ x # p
      <4>1. x \in Names(lower) /\ ~Covered(whiteouts, x)
        BY <1>1, <2>3, <3>3 DEF Reached
      <4>2. /\ x \in Paths /\ \A y \in Ancestors(x) : y \in lower.dirs /\ ~Covered(whiteouts, y)
        BY <1>1, <4>1, WayUncovered DEF Shows, Uncovered
      <4>3. p \in Ancestors(x)
        BY <1>1, <2>3, <3>3, <4>2, BelowIsAncestor
      <4> QED
        BY <1>3, <4>2, <4>3 DEF Below, Names
    <3> QED
      BY <3>2, <3>3
  <2> QED
    BY <2>2, <2>3
<1> QED
  BY <1>2, <1>3

\* The first part of a call.
LEMMA PrepareAgrees ==
    ASSUME Shows, NEW o \in Calls, Clear(lower, upper, whiteouts, plain, o),
           o.name = "rename" => \A x \in Names(lower) \union Names(upper) :
                                  Remap(o.path, o.to, x) \in Path,
           NEW r, r = Prepare(o)
    PROVE  Sets(o, r)
<1>1. Named(o) /\ PathSet(Path) /\ Agree(lower, upper, whiteouts, plain)
  BY CallFacts, PathsAreSet DEF Shows
<1>2. Tree(plain, Path) /\ Reached(lower, upper, whiteouts, plain)
  BY <1>1, AgreeNames DEF Agree, Layers
<1>3. PICK p : p = o.path
  OBVIOUS
<1>4. Seen(p) /\ p \in Path
  BY <1>1, <1>3, Views DEF Named
<1>5. p \notin Names(plain) =>
        ~Exists(plain, p) /\ p \notin plain.dirs /\ Canon(plain, p) \notin DOMAIN plain.files
  BY DEF Exists, IsFileEntry, Names, Canon
<1>6. CASE o.name \in {"write", "mkdir"}
  <2>1. r.res = "ok" /\ r.fs = upper
    BY <1>6 DEF Prepare, Done
  <2>2. Prepared(upper, plain, o)
    BY <1>6 DEF Prepared
  <2> QED
    BY <1>1, <2>1, <2>2 DEF Sets
<1>7. CASE o.name = "remove"
  <2>1. r = PrepareRemove(p, o.rec)
    BY <1>3, <1>7 DEF Prepare
  <2>2. /\ On(plain, o) = Remove(plain, p, o.rec)
        /\ PlainClass(o) = IF o.rec /\ ~Resolves(plain, p) THEN "ok" ELSE Remove(plain, p, o.rec).res
    BY <1>3, <1>7 DEF On, PlainClass
  <2>3. ~InUpper(p) /\ ~LowerVisible(p) <=> p \notin Names(plain)
    BY <1>2, <1>4 DEF Seen, Below, Reached
  <2>4. CASE p \notin Names(plain)
    <3>1. r.fs = upper /\ r.res = IF o.rec THEN "skip" ELSE "notexist"
      BY <2>1, <2>3, <2>4 DEF PrepareRemove, Refuse
    <3>2. CASE ~Resolves(plain, p)
      <4>1. Remove(plain, p, o.rec) = [fs |-> plain, res |-> "notdir"]
        BY <3>2 DEF Remove, Refuse
      <4> QED
        BY <2>2, <3>1, <3>2, <4>1 DEF Sets
    <3>3. CASE Resolves(plain, p)
      <4>1. Remove(plain, p, o.rec) = [fs |-> plain, res |-> IF o.rec THEN "ok" ELSE "notexist"]
        BY <1>5, <2>4, <3>3 DEF Remove, Refuse, Done
      <4> QED
        BY <2>2, <3>1, <3>3, <4>1 DEF Sets
    <3> QED
      BY <3>2, <3>3
  <2>5. CASE p \in Names(plain)
    <3>1. Stat(p).kind = "dir" <=> p \in plain.dirs
      BY <1>2, StatAgrees, EntryKinds
    <3>2. ReadDir(p) = Children(plain, p)
      BY <1>1, ListAgrees
    <3>3. CASE ~o.rec /\ p \in plain.dirs /\ Children(plain, p) # {}
      <4>1. r.fs = upper /\ r.res = "notempty"
        BY <2>1, <2>3, <2>5, <3>1, <3>2, <3>3 DEF PrepareRemove, Refuse
      <4>2. Resolves(plain, p) /\ Exists(plain, p) /\ IsDir(plain, p)
        BY <1>2, <2>5, <3>3 DEF Tree, IsTree, Resolves, Exists, IsDir, IsFileEntry
      <4>3. Remove(plain, p, o.rec) = [fs |-> plain, res |-> "notempty"]
        BY <3>3, <4>2 DEF Remove, Refuse
      <4> QED
        BY <2>2, <3>3, <4>1, <4>3 DEF Sets
    <3>4. CASE ~(~o.rec /\ p \in plain.dirs /\ Children(plain, p) # {})
      <4>1. r.fs = upper /\ r.res = "ok"
        BY <2>1, <2>3, <2>5, <3>1, <3>2, <3>4 DEF PrepareRemove, Done
      <4>2. Prepared(upper, plain, o)
        BY <1>3, <1>7, <2>5, <3>4 DEF Prepared
      <4> QED
        BY <1>1, <4>1, <4>2 DEF Sets
    <3> QED
      BY <3>3, <3>4
  <2> QED
    BY <2>4, <2>5
<1>8. CASE o.name = "rename"
  <2>1. r = PrepareRename(p)
    BY <1>3, <1>8 DEF Prepare
  <2>2. IF r.res = "ok"
        THEN /\ Fuller(lower, upper, whiteouts, plain, r.fs, p)
             /\ \A x \in Names(plain) : Within(p, x) => x \in Names(r.fs)
        ELSE r.fs = upper /\ r.res = "notexist" /\ p \notin Names(plain)
    BY <1>4, <2>1, PrepareRenameAgree
  <2>3. CASE r.res = "ok"
    <3>1. Agree(lower, r.fs, whiteouts, plain) /\ p \in Names(r.fs)
      BY <2>2, <2>3 DEF Fuller
    <3>2. Clear(lower, r.fs, whiteouts, plain, o)
      BY <1>8, <2>2, <2>3, FullerClear
    <3>3. \A x \in Names(plain) : Remap(p, o.to, x) \in Path
      BY <1>2, <1>3, <1>8 DEF Reached
    <3>4. Prepared(r.fs, plain, o)
      BY <1>3, <1>8, <2>2, <2>3, <3>1, <3>3 DEF Prepared
    <3> QED
      BY <2>3, <3>1, <3>2, <3>4 DEF Sets
  <2>4. CASE r.res # "ok"
    <3>1. r.fs = upper /\ r.res = "notexist" /\ p \notin Names(plain)
      BY <2>2, <2>4
    <3>2. On(plain, o) = Rename(plain, p, o.to) /\ PlainClass(o) = On(plain, o).res
      BY <1>3, <1>8 DEF On, PlainClass
    <3>3. Rename(plain, p, o.to).fs = plain /\ Rename(plain, p, o.to).res # "ok"
      BY <1>5, <3>1 DEF Rename, Refuse
    <3> QED
      BY <3>1, <3>2, <3>3 DEF Sets
  <2> QED
    BY <2>3, <2>4
<1>9. CASE o.name = "link"
  <2>1. PICK q : q = o.to
    OBVIOUS
  <2>2. On(plain, o) = Link(plain, p, q) /\ PlainClass(o) = On(plain, o).res
    BY <1>3, <1>9, <2>1 DEF On, PlainClass
  <2>3. r = PrepareLink(p, q)
    BY <1>3, <1>9, <2>1 DEF Prepare
  <2>4. Stat(q).kind = "none" <=> q \notin Names(plain)
    BY <1>2, StatAgrees, EntryKinds
  <2>5. CASE q \in Names(plain)
    <3>1. r.fs = upper /\ r.res = "exist"
      BY <2>3, <2>4, <2>5 DEF PrepareLink, Refuse
    <3>2. Exists(plain, q)
      BY <2>5 DEF Exists, IsFileEntry, Names
    <3>3. Link(plain, p, q).fs = plain /\ Link(plain, p, q).res # "ok"
      BY <3>2 DEF Link, Refuse
    <3> QED
      BY <2>2, <3>1, <3>3 DEF Sets
  <2>6. CASE q \notin Names(plain)
    <3>1. r = PrepareChange(p)
      BY <2>3, <2>4, <2>6 DEF PrepareLink
    <3>2. IF r.res = "ok" THEN Fuller(lower, upper, whiteouts, plain, r.fs, p)
          ELSE r.fs = upper /\ r.res = "notexist" /\ p \notin Names(plain)
      BY <1>4, <3>1, PrepareChangeAgree
    <3>3. CASE r.res = "ok"
      <4>1. Agree(lower, r.fs, whiteouts, plain) /\ p \in Names(r.fs)
        BY <3>2, <3>3 DEF Fuller
      <4>2. Clear(lower, r.fs, whiteouts, plain, o)
        BY <1>9, <3>2, <3>3, FullerClear
      <4>3. Prepared(r.fs, plain, o)
        BY <1>3, <1>9, <2>1, <2>6, <4>1 DEF Prepared
      <4> QED
        BY <3>3, <4>1, <4>2, <4>3 DEF Sets
    <3>4. CASE r.res # "ok"
      <4>1. Link(plain, p, q).fs = plain /\ Link(plain, p, q).res # "ok"
        BY <1>5, <3>2, <3>4 DEF Link, Refuse
      <4> QED
        BY <2>2, <3>2, <3>4, <4>1 DEF Sets
    <3> QED
      BY <3>3, <3>4
  <2> QED
    BY <2>5, <2>6
<1>10. CASE o.name = "truncate"
  <2>1. r = PrepareChange(p)
    BY <1>3, <1>10 DEF Prepare
  <2>2. On(plain, o) = Truncate(plain, p, "") /\ PlainClass(o) = On(plain, o).res
    BY <1>3, <1>10 DEF On, PlainClass
  <2>3. IF r.res = "ok" THEN Fuller(lower, upper, whiteouts, plain, r.fs, p)
        ELSE r.fs = upper /\ r.res = "notexist" /\ p \notin Names(plain)
    BY <1>4, <2>1, PrepareChangeAgree
  <2>4. CASE r.res = "ok"
    <3>1. Agree(lower, r.fs, whiteouts, plain) /\ p \in Names(r.fs)
      BY <2>3, <2>4 DEF Fuller
    <3>2. Clear(lower, r.fs, whiteouts, plain, o)
      BY <1>10, <2>3, <2>4, FullerClear
    <3>3. Prepared(r.fs, plain, o)
      BY <1>3, <1>10, <3>1 DEF Prepared
    <3> QED
      BY <2>4, <3>1, <3>2, <3>3 DEF Sets
  <2>5. CASE r.res # "ok"
    <3>1. Truncate(plain, p, "").fs = plain /\ Truncate(plain, p, "").res # "ok"
      BY <1>5, <2>3, <2>5 DEF Truncate, Refuse
    <3> QED
      BY <2>2, <2>3, <2>5, <3>1 DEF Sets
  <2> QED
    BY <2>4, <2>5
<1> QED
  BY <1>1, <1>6, <1>7, <1>8, <1>9, <1>10 DEF Named

\* The maps of an empty tree.
LEMMA EmptyMapping == Mapping(<< >>)
<1>1. DOMAIN << >> = {}
  OBVIOUS
<1> QED
  BY <1>1 DEF Mapping

(***************************************************************************)
(* The invariant.  At rest the union shows the plain tree; when a call has *)
(* been prepared it still does, and the call is ready to be applied; once  *)
(* it is applied, the upper layer with the whiteouts to come shows what    *)
(* the plain tree will be.                                                 *)
(***************************************************************************)
AtRest(c) ==
    /\ doing[c] = Resting /\ Shows
    /\ outcome.union = "ok" <=> outcome.plain = "ok"

Applying(c, o) ==
    /\ doing[c] = [st |-> "apply", op |-> o, visible |-> LowerVisible(o.path)] /\ Shows
    /\ Prepared(upper, plain, o) /\ Clear(lower, upper, whiteouts, plain, o)

Marking(c, o, v) ==
    /\ doing[c] = [st |-> "mark", op |-> o, visible |-> v]
    /\ Agree(lower, upper, Marked(o, v), On(plain, o).fs) /\ On(plain, o).res = "ok"

OverlayInv(c) ==
    /\ DOMAIN doing = Callers
    /\ departed \in BOOLEAN
    /\ ~departed => \/ AtRest(c)
                    \/ \E o \in Calls : Applying(c, o)
                    \/ \E o \in Calls, v \in BOOLEAN : Marking(c, o, v)

\* An empty upper layer shows the lower tree.
LEMMA OverlayInitInv ==
    ASSUME NEW c \in Callers, OverlayInit
    PROVE  OverlayInv(c)
<1>1. /\ lower = [files |-> lower.files, dirs |-> lower.dirs, links |-> << >>]
      /\ IsTree(lower, Path) /\ plain = lower /\ upper = EmptyTree /\ whiteouts = {}
      /\ doing[c] = Resting /\ DOMAIN doing = Callers /\ departed = FALSE
      /\ outcome.union = "ok" /\ outcome.plain = "ok"
  BY OverlayAssumption DEF OverlayInit
<1>2. lower.links = << >> /\ Tree(lower, Path)
  BY <1>1 DEF Tree, IsFs
<1>3. /\ upper.files = << >> /\ upper.dirs = {} /\ upper.links = << >>
      /\ DOMAIN upper.files = {} /\ DOMAIN upper.links = {}
  BY <1>1 DEF EmptyTree
<1>4. Names(upper) = {} /\ Tree(upper, Path) /\ \A x : ~Covered(whiteouts, x)
  BY <1>1, <1>3, EmptyIsTree DEF Names, Covered
<1>5. Layers(lower, upper, whiteouts, plain)
  BY <1>1, <1>2, <1>4 DEF Layers
<1>6. LinksAgree(upper, plain)
  BY <1>1, <1>2, <1>3, EmptyMapping DEF LinksAgree
<1>7. DirsAgree(lower, upper, whiteouts, plain) /\ FilesAgree(lower, upper, whiteouts, plain)
  BY <1>1, <1>3, <1>4 DEF DirsAgree, FilesAgree
<1>8. DataAgree(lower, upper, plain) /\ NoClash(lower, upper, whiteouts)
  BY <1>1, <1>3 DEF DataAgree, NoClash, IsFileEntry
<1>9. AtRest(c)
  BY <1>1, <1>5, <1>6, <1>7, <1>8 DEF AtRest, Shows, Agree
<1> QED
  BY <1>1, <1>9 DEF OverlayInv

\* Between its calls the caller sees the plain tree.
LEMMA RestingIsAtRest ==
    ASSUME NEW c, OverlayInv(c), ~departed, doing[c] = Resting
    PROVE  AtRest(c)
<1>1. doing[c].st = "idle"
  BY DEF Resting
<1>2. ASSUME NEW o, Applying(c, o) PROVE FALSE
  <2>1. doing[c].st = "apply"
    BY <1>2 DEF Applying
  <2> QED
    BY <1>1, <2>1
<1>3. ASSUME NEW o, NEW v, Marking(c, o, v) PROVE FALSE
  <2>1. doing[c].st = "mark"
    BY <1>3 DEF Marking
  <2> QED
    BY <1>1, <2>1
<1> QED
  BY <1>2, <1>3 DEF OverlayInv

\* The checks and the copying up.
LEMMA BeginInv ==
    ASSUME NEW c \in Callers, OverlayInv(c), NEW o \in Calls, Begin(c, o)
    PROVE  OverlayInv(c)'
<1>1. PICK r : r = Prepare(o)
  OBVIOUS
<1>2. /\ doing[c] = Resting /\ ~departed /\ upper' = r.fs
      /\ lower' = lower /\ whiteouts' = whiteouts
      /\ o.name = "rename" => \A x \in Names(lower) \union Names(upper) :
                                Remap(o.path, o.to, x) \in Path
  BY <1>1 DEF Begin
<1>3. Shows /\ DOMAIN doing = Callers
  BY <1>2, RestingIsAtRest DEF OverlayInv, AtRest
<1>4. DOMAIN doing' = Callers
  BY <1>3 DEF Begin, Finish
<1>5. departed' \in BOOLEAN /\ (departed' <=> Departs(o))
  <2>1. departed' = Departs(o)
    BY DEF Begin
  <2>2. Departs(o) \in BOOLEAN
    BY Zenon DEF Departs
  <2>3. departed' \in BOOLEAN
    BY <2>1, <2>2, Zenon
  <2>4. departed' <=> Departs(o)
    BY <2>1, Zenon
  <2> QED
    BY <2>3, <2>4
<1>6. CASE Departs(o)
  BY <1>4, <1>6, <1>5 DEF OverlayInv
<1>7. CASE ~Departs(o)
  <2>1. Clear(lower, upper, whiteouts, plain, o)
    BY <1>3, <1>7, ClearOfDepartures
  <2>2. Sets(o, r)
    BY <1>1, <1>2, <1>3, <2>1, PrepareAgrees
  <2>3. CASE r.res = "ok"
    <3>1. /\ doing' = [doing EXCEPT ![c] =
                         [st |-> "apply", op |-> o, visible |-> LowerVisible(o.path)]]
          /\ plain' = plain
      BY <1>1, <2>3 DEF Begin
    <3>2. doing'[c] = [st |-> "apply", op |-> o, visible |-> LowerVisible(o.path)]
      BY <1>3, <3>1
    <3>3. LowerVisible(o.path)' = LowerVisible(o.path)
      BY <1>2 DEF LowerVisible, Hidden
    <3>4. /\ Agree(lower, upper', whiteouts, plain) /\ Prepared(upper', plain, o)
          /\ Clear(lower, upper', whiteouts, plain, o)
      BY <1>2, <2>2, <2>3 DEF Sets
    <3>5. Shows' /\ Prepared(upper, plain, o)' /\ Clear(lower, upper, whiteouts, plain, o)'
      BY <1>2, <3>1, <3>4 DEF Shows
    <3>6. Applying(c, o)'
      BY <3>2, <3>3, <3>5 DEF Applying
    <3> QED
      BY <1>4, <1>7, <1>5, <3>6 DEF OverlayInv
  <2>4. CASE r.res # "ok"
    <3>1. Finish(c, o, IF r.res = "skip" THEN "ok" ELSE r.res)
      BY <1>1, <2>4 DEF Begin
    <3>2. doing'[c] = Resting /\ plain' = On(plain, o).fs
      BY <1>3, <3>1 DEF Finish
    <3>3. /\ outcome'.union = (IF r.res = "skip" THEN "ok" ELSE r.res)
          /\ outcome'.plain = PlainClass(o)
      BY <3>1 DEF Finish, PlainClass
    <3>4. r.fs = upper /\ On(plain, o).fs = plain /\ (r.res = "skip" <=> PlainClass(o) = "ok")
      BY <2>2, <2>4 DEF Sets
    <3>5. Shows'
      BY <1>2, <1>3, <3>2, <3>4 DEF Shows
    <3>6. AtRest(c)'
      BY <2>4, <3>2, <3>3, <3>4, <3>5 DEF AtRest, Resting
    <3> QED
      BY <1>4, <1>7, <1>5, <3>6 DEF OverlayInv
  <2> QED
    BY <2>3, <2>4
<1> QED
  BY <1>6, <1>7

\* The call on the upper layer.
LEMMA ApplyInv ==
    ASSUME NEW c \in Callers, NoSelfMove, OverlayInv(c), ApplyUpper(c)
    PROVE  OverlayInv(c)'
<1>1. /\ doing[c].st = "apply" /\ departed' = departed /\ lower' = lower
      /\ whiteouts' = whiteouts /\ DOMAIN doing = Callers
  BY DEF ApplyUpper, OverlayInv
<1>2. DOMAIN doing' = Callers
  BY <1>1 DEF ApplyUpper, Finish
<1>3. CASE departed
  BY <1>1, <1>2, <1>3 DEF OverlayInv
<1>4. CASE ~departed
  <2>1. PICK o \in Calls : Applying(c, o)
    BY <1>1, <1>4 DEF OverlayInv, AtRest, Marking, Resting
  <2>2. PICK v : v = LowerVisible(o.path)
    OBVIOUS
  <2>3. /\ doing[c] = [st |-> "apply", op |-> o, visible |-> v] /\ Shows /\ v \in BOOLEAN
        /\ Prepared(upper, plain, o) /\ Clear(lower, upper, whiteouts, plain, o)
    BY <2>1, <2>2 DEF Applying, LowerVisible
  <2>4. PICK r : r = Applied(o)
    OBVIOUS
  <2>5. doing[c].op = o
    BY <2>3
  <2>6. /\ upper' = r.fs
        /\ IF r.res = "ok" THEN doing' = [doing EXCEPT ![c].st = "mark"] /\ plain' = plain
           ELSE Finish(c, o, r.res)
    BY <2>4, <2>5 DEF ApplyUpper, Applied
  <2>7. Both(lower, r, whiteouts, Marked(o, v), On(plain, o))
    BY <2>2, <2>3, <2>4, ApplyAgrees
  <2>8. CASE r.res = "ok"
    <3>1. doing' = [doing EXCEPT ![c].st = "mark"] /\ plain' = plain
      BY <2>6, <2>8
    <3>2. doing'[c] = [st |-> "mark", op |-> o, visible |-> v]
      BY <1>1, <2>3, <3>1
    <3>3. Marked(o, v)' = Marked(o, v)
      BY <1>1 DEF Marked
    <3>4. On(plain, o).res = "ok" /\ Agree(lower, r.fs, Marked(o, v), On(plain, o).fs)
      BY <2>7, <2>8 DEF Both
    <3>5. Marking(c, o, v)'
      BY <1>1, <2>6, <3>1, <3>2, <3>3, <3>4 DEF Marking
    <3> QED
      BY <1>1, <1>2, <1>4, <2>3, <3>5 DEF OverlayInv
  <2>9. CASE r.res # "ok"
    <3>1. Finish(c, o, r.res)
      BY <2>6, <2>9
    <3>2. doing'[c] = Resting /\ plain' = On(plain, o).fs
      BY <1>1, <3>1 DEF Finish
    <3>3. On(plain, o).res # "ok" /\ Agree(lower, r.fs, whiteouts, On(plain, o).fs)
      BY <2>7, <2>9 DEF Both
    <3>4. ~(o.name = "remove" /\ o.rec /\ ~Resolves(plain, o.path))
      <4>1. Tree(plain, Path)
        BY <2>3 DEF Shows, Agree, Layers
      <4>2. o.path \in Names(plain) => Resolves(plain, o.path)
        BY <4>1 DEF Tree, IsTree, Resolves, IsFileEntry
      <4> QED
        BY <2>3, <4>2 DEF Prepared
    <3>5. outcome'.union = r.res /\ outcome'.plain = On(plain, o).res
      BY <3>1, <3>4 DEF Finish
    <3>6. Shows'
      BY <1>1, <2>6, <3>2, <3>3 DEF Shows
    <3>7. AtRest(c)'
      BY <2>9, <3>2, <3>3, <3>5, <3>6 DEF AtRest, Resting
    <3> QED
      BY <1>1, <1>2, <1>4, <3>7 DEF OverlayInv
  <2> QED
    BY <2>8, <2>9
<1> QED
  BY <1>3, <1>4 DEF OverlayInv

\* The whiteouts, and with them the end of the call.
LEMMA MarkInv ==
    ASSUME NEW c \in Callers, OverlayInv(c), Mark(c)
    PROVE  OverlayInv(c)'
<1>1. /\ doing[c].st = "mark" /\ departed' = departed /\ lower' = lower /\ upper' = upper
      /\ DOMAIN doing = Callers
  BY DEF Mark, OverlayInv
<1>2. DOMAIN doing' = Callers
  BY <1>1 DEF Mark, Finish
<1>3. CASE departed
  BY <1>1, <1>2, <1>3 DEF OverlayInv
<1>4. CASE ~departed
  <2>1. PICK o \in Calls, v \in BOOLEAN : Marking(c, o, v)
    BY <1>1, <1>4 DEF OverlayInv, AtRest, Applying, Resting
  <2>2. /\ doing[c].op = o /\ doing[c].visible = v /\ On(plain, o).res = "ok"
        /\ Agree(lower, upper, Marked(o, v), On(plain, o).fs)
    BY <2>1 DEF Marking
  <2>3. whiteouts' = Marked(o, v) /\ Finish(c, o, "ok")
    BY <2>2 DEF Mark
  <2>4. doing'[c] = Resting /\ plain' = On(plain, o).fs
    BY <1>1, <2>3 DEF Finish
  <2>5. outcome'.union = "ok" /\ outcome'.plain = "ok"
    BY <2>2, <2>3 DEF Finish
  <2>6. Shows'
    BY <1>1, <2>2, <2>3, <2>4 DEF Shows
  <2>7. AtRest(c)'
    BY <2>4, <2>5, <2>6 DEF AtRest, Resting
  <2> QED
    BY <1>1, <1>2, <1>4, <2>7 DEF OverlayInv
<1> QED
  BY <1>3, <1>4 DEF OverlayInv

\* Between its calls a program that is the only one to use the overlay, and
\* moves no directory into itself, sees one ordinary tree: what any path is and
\* holds, what any directory lists and whether the last call succeeded are as
\* if all calls had been made to a single MemFileOps - but after one of the
\* departures that Departs names (UnionIsATree; OverlayFileOps).
THEOREM OverlayShowsOneTree ==
    ASSUME NoSelfMove, NEW CONSTANT me, Callers = {me}
    PROVE  OverlaySpec => []UnionIsATree
<1>1. OverlayInit => OverlayInv(me)
  BY OverlayInitInv
<1>2. OverlayInv(me) /\ [OverlayNext]_overlayVars => OverlayInv(me)'
  <2> SUFFICES ASSUME OverlayInv(me), [OverlayNext]_overlayVars PROVE OverlayInv(me)'
    OBVIOUS
  <2>1. CASE \E o \in Calls : Begin(me, o)
    BY <2>1, BeginInv
  <2>2. CASE ApplyUpper(me)
    BY <2>2, ApplyInv
  <2>3. CASE Mark(me)
    BY <2>3, MarkInv
  <2>4. CASE UNCHANGED overlayVars
    <3>1. /\ lower' = lower /\ upper' = upper /\ whiteouts' = whiteouts /\ doing' = doing
          /\ plain' = plain /\ outcome' = outcome /\ departed' = departed
      BY <2>4 DEF overlayVars
    <3>2. AtRest(me)' <=> AtRest(me)
      BY <3>1 DEF AtRest, Shows, Resting
    <3>3. \A o : Applying(me, o)' <=> Applying(me, o)
      BY <3>1 DEF Applying, Shows, LowerVisible, Hidden
    <3>4. \A o, v : Marking(me, o, v)' <=> Marking(me, o, v)
      BY <3>1 DEF Marking, Marked
    <3> QED
      BY <3>1, <3>2, <3>3, <3>4 DEF OverlayInv
  <2> QED
    BY <2>1, <2>2, <2>3, <2>4 DEF OverlayNext
<1>3. OverlayInv(me) => UnionIsATree
  <2> SUFFICES ASSUME OverlayInv(me), Quiet, ~departed
               PROVE  /\ \A p \in Path : Stat(p) = Entry(plain, p)
                      /\ \A d \in Path \union {Root} :
                           ReadDir(d) = {p \in Path : Parent(p) = d /\ Stat(p).kind # "none"}
                      /\ (outcome.union = "ok") <=> (outcome.plain = "ok")
    BY DEF UnionIsATree
  <2>1. doing[me] = Resting
    BY DEF Quiet
  <2>2. AtRest(me)
    BY <2>1, RestingIsAtRest
  <2>3. Shows /\ (outcome.union = "ok" <=> outcome.plain = "ok")
    BY <2>2 DEF AtRest
  <2>4. \A p : Stat(p) = Entry(plain, p)
    BY <2>3, StatAgrees
  <2>5. \A p : Stat(p).kind # "none" <=> p \in Names(plain)
    <3>1. Tree(plain, Path)
      BY <2>3 DEF Shows, Agree, Layers
    <3> QED
      BY <2>4, <3>1, EntryKinds
  <2>6. ASSUME NEW d
        PROVE  ReadDir(d) = {p \in Path : Parent(p) = d /\ Stat(p).kind # "none"}
    <3>1. ReadDir(d) = {p \in Path : Parent(p) = d /\ p \in Names(plain)}
      BY <2>3, ListAgrees, PathsAreSet
    <3> QED
      BY <2>5, <3>1
  <2>7. (outcome.union = "ok") <=> (outcome.plain = "ok")
    BY <2>3
  <2> QED
    BY <2>4, <2>6, <2>7
<1> QED
  BY <1>1, <1>2, <1>3, PTL DEF OverlaySpec
==============================================================================
