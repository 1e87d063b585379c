-------------------------- MODULE MCDBTransaction --------------------------
(* Small instances of DBTransaction for TLC.                                *)
EXTENDS DBTransaction

CONSTANTS k1, k2, f, g, v

\* CVL accepts f alone, and g only beside f (g has a "when" on f).
MCRejected == {[x \in Field |-> IF x = g THEN v ELSE None]}
\* Apps write f, g, or both.
MCNewValues == Entry \ {Empty}
MCFew == {[x \in Field |-> IF x = f THEN v ELSE None], [x \in Field |-> v]}
=============================================================================
