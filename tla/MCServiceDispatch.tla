------------------------- MODULE MCServiceDispatch -------------------------
EXTENDS ServiceDispatch

CONSTANTS front, back

\* The handlers of front call back; those of back call nothing.
MCCalls == [s \in Service |-> IF s = front THEN Service \ {s} ELSE {}]

\* Chains of up to two handlers where calls nest.
MCMaxHandler == [s \in Service |-> IF s = front THEN 2 ELSE 1]
=============================================================================
