---------------------------- MODULE MCProcesses ----------------------------
\* A top-level program, one spawned process and a second goroutine (an await
\* branch or a timer callback) that runs as the spawned process and may
\* outlive it.
EXTENDS Processes, TLC

CONSTANTS main, p1, gmain, gbody, gbranch

MCHome == gmain :> main @@ gbody :> p1 @@ gbranch :> p1
MCSend == gmain :> 2 @@ gbody :> 0 @@ gbranch :> 1
MCRecv == gmain :> 0 @@ gbody :> 1 @@ gbranch :> 1
MCSendLive == gmain :> 2 @@ gbody :> 0 @@ gbranch :> 0
MCRecvLive == gmain :> 0 @@ gbody :> 1 @@ gbranch :> 1
MCBody == main :> gmain @@ p1 :> gbody
=============================================================================
