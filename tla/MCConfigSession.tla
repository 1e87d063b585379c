-------------------------- MODULE MCConfigSession --------------------------
\* Instances of ConfigSession for TLC.
EXTENDS ConfigSession, TLC

\* The terminals are interchangeable.
MCSymmetry == Permutations(Terminal)
=============================================================================
