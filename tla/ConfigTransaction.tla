------------------------- MODULE ConfigTransaction -------------------------
(***************************************************************************)
(* What translib/db promises to translib.go and to Config Sessions about   *)
(* ConfigDB, without redis commands and caches: one transaction edits a    *)
(* candidate, may mark it and go back to the mark, and becomes the running *)
(* configuration as a whole or not at all. A transaction that somebody     *)
(* else's write has overtaken is doomed: it never commits.                 *)
(***************************************************************************)
CONSTANTS
    Key,      \* redis keys of ConfigDB
    Entry,    \* the values an entry may have
    Closed,   \* no transaction
    Doomed,   \* a transaction that will not commit
    NoMark    \* no savepoint

VARIABLES
    running,  \* the running configuration
    tx        \* the transaction: Closed, Doomed or its candidate and mark

vars == <<running, tx>>

Configuration == [Key -> Entry]
Open == tx \notin {Closed, Doomed}

Init == running \in Configuration /\ tx = Closed

Begin ==
    /\ tx = Closed
    /\ tx' \in {[candidate |-> running, mark |-> NoMark], Doomed}
    /\ UNCHANGED running

Edit(k, e) ==
    /\ Open
    /\ tx' = [tx EXCEPT !.candidate[k] = e]
    /\ UNCHANGED running

Declare ==
    /\ Open /\ tx.mark = NoMark
    /\ tx' = [tx EXCEPT !.mark = tx.candidate]
    /\ UNCHANGED running

Release ==
    /\ Open /\ tx.mark # NoMark
    /\ tx' = [tx EXCEPT !.mark = NoMark]
    /\ UNCHANGED running

Rollback ==
    /\ Open /\ tx.mark # NoMark
    /\ tx' = [candidate |-> tx.mark, mark |-> NoMark]
    /\ UNCHANGED running

Commit ==
    /\ Open
    /\ running' = tx.candidate
    /\ tx' = Closed

\* An abort, or a commit that fails.
Discard == tx # Closed /\ tx' = Closed /\ UNCHANGED running

\* A rollback that fails leaves a transaction that cannot commit.
Doom == Open /\ tx' = Doomed /\ UNCHANGED running

\* A write outside a transaction.
DirectWrite(k, e) ==
    /\ tx = Closed
    /\ running' = [running EXCEPT ![k] = e]
    /\ UNCHANGED tx

\* Somebody else writes: nobody's transaction survives that.
Overtake(k, e) ==
    /\ running' = [running EXCEPT ![k] = e]
    /\ tx' = IF tx = Closed THEN Closed ELSE Doomed

Next ==
    \/ Begin \/ Declare \/ Release \/ Rollback \/ Commit \/ Discard \/ Doom
    \/ \E k \in Key, e \in Entry :
          Edit(k, e) \/ DirectWrite(k, e) \/ Overtake(k, e)

Spec == Init /\ [][Next]_vars
=============================================================================
