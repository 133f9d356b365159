--------------------------- MODULE ProcessRuntime ---------------------------
(***************************************************************************)
(* The engine-wide process state of core/go/process.go: the pid table, the *)
(* name registry and the shutdown flag of ProcessRuntime.  Every method of *)
(* the Go type runs under rt.mu from its first to its last line, so each   *)
(* is one action here; Insert and RegisterName answer ErrRuntimeDown and   *)
(* change nothing once the runtime is down.  Processes.tla adds the        *)
(* mailboxes and the goroutines that call these methods.                   *)
(***************************************************************************)
CONSTANTS Proc,      \* process handles; a Pid value is a pointer to one
          Name,      \* registered names (registerHandler refuses "")
          NoProc,    \* "no binding" in the name registry
          NoName     \* the empty string in Process.name

ASSUME RuntimeAssumption == /\ NoProc \notin Proc
                            /\ NoName \notin Name

VARIABLES pids,      \* processes NewProcess has allocated: a Pid for each may be held
          table,     \* ProcessRuntime.table
          names,     \* ProcessRuntime.names
          name,      \* Process.name of every process, guarded by rt.mu
          down       \* ProcessRuntime.down

rtVars == <<pids, table, names, name, down>>

RuntimeTypeOK == /\ pids \subseteq Proc
                 /\ table \subseteq pids
                 /\ names \in [Name -> pids \cup {NoProc}]
                 /\ name \in [Proc -> Name \cup {NoName}]
                 /\ down \in BOOLEAN

\* NewProcessRuntime
RuntimeInit == /\ pids = {}
               /\ table = {}
               /\ names = [n \in Name |-> NoProc]
               /\ name = [p \in Proc |-> NoName]
               /\ down = FALSE

-----------------------------------------------------------------------------
\* NewProcess followed by Insert, as in spawnHandler and ensureSelfProc.  A
\* refused Insert leaves a handle nobody can reach, hence no state.
Insert(p) == /\ p \notin pids
             /\ ~down
             /\ pids' = pids \cup {p}
             /\ table' = table \cup {p}
             /\ UNCHANGED <<names, name, down>>

\* Only the name the process remembers is looked up.
Remove(p) == /\ p \in table
             /\ table' = table \ {p}
             /\ names' = [n \in Name |-> IF n = name[p] /\ names[n] = p
                                         THEN NoProc ELSE names[n]]
             /\ name' = [name EXCEPT ![p] = NoName]
             /\ UNCHANGED <<pids, down>>

\* Mutant: the previous holder is not told that it lost the name.
RegisterName_PrevKeepsName(n, p) ==
    /\ p \in pids
    /\ ~down
    /\ names' = [names EXCEPT ![n] = p]
    /\ name' = [name EXCEPT ![p] = n]
    /\ UNCHANGED <<pids, table, down>>

\* Any Pid will do: neither RegisterName nor registerHandler asks whether
\* the process is still in the table.
RegisterName(n, p) ==
    /\ p \in pids
    /\ ~down
    /\ names' = [names EXCEPT ![n] = p]
    /\ name' = [q \in Proc |-> IF q = p THEN n
                               ELSE IF q = names[n] THEN NoName ELSE name[q]]
    /\ UNCHANGED <<pids, table, down>>

\* The holder forgets whatever name it remembers, even another one.
UnregisterName(n) == /\ names[n] # NoProc
                     /\ name' = [name EXCEPT ![names[n]] = NoName]
                     /\ names' = [names EXCEPT ![n] = NoProc]
                     /\ UNCHANGED <<pids, table, down>>

\* The state change of Shutdown; its broadcasts are in Processes.tla.
SetDown == /\ ~down
           /\ down' = TRUE
           /\ UNCHANGED <<pids, table, names, name>>

RuntimeNext == \/ \E p \in Proc : Insert(p) \/ Remove(p)
               \/ \E n \in Name, p \in Proc : RegisterName(n, p)
               \/ \E n \in Name : UnregisterName(n)
               \/ SetDown

RuntimeSpec == RuntimeInit /\ [][RuntimeNext]_rtVars

-----------------------------------------------------------------------------
\* A process that believes it is registered is registered: the name it
\* remembers (Process.name, what Remove will clean up) resolves back to it,
\* whatever rebinding, unregistering or exit of other processes came between.
NameBackPointer ==
    \A p \in Proc : name[p] # NoName => names[name[p]] = p

\* Remove's comment: it "drops its registered name (if any)", and
\* design/PROCESSES.0.md: on exit the process leaves "the table and the name
\* registry".  Stated of every exit: no name resolves to the process that left.
\* It does not hold of the code (README, Disagreements).
ExitDropsNames ==
    [][\A p \in table \ table' : \A n \in Name : names'[n] # p]_rtVars
=============================================================================
