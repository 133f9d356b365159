------------------------------ MODULE MCWatch ------------------------------
(***************************************************************************)
(* An overlay whose upper layer is in memory and whose lower layer is the  *)
(* real file system, streams of two events and three changes per layer.    *)
(***************************************************************************)
EXTENDS Watch

MCStopOrder == <<"up", "low">>
MCFsnotify == {"low"}

=============================================================================
