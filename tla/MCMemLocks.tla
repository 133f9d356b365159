------------------------------ MODULE MCMemLocks ------------------------------
EXTENDS MemLocks
MCPath == {<<"a">>, <<"b">>}
MCMoves == {m \in MCPath \X MCPath : m[1] # m[2]}
===============================================================================
