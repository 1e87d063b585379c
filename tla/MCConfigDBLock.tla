--------------------------- MODULE MCConfigDBLock ---------------------------
(* Small instances of ConfigDBLock for TLC: the REST and the gNMI server.   *)
EXTENDS ConfigDBLock

CONSTANTS rest, gnmi, w1, w2, s1, s2

\* Each executable runs at most one writer (writeMutex admits one at a time)
\* and one goroutine that opens Config Sessions (csMutex admits one at a time).
MCProcOf ==
    [t \in Thread |-> IF t \in {w1, s1} THEN rest ELSE gnmi]
=============================================================================
