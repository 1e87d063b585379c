--------------------------- MODULE ConfirmedCommit -------------------------
(***************************************************************************)
(* What a Config Session promises: ConfigDB is edited by whoever holds the *)
(* ConfigDB lock, and a commit that waits for its confirmation is kept or  *)
(* taken back in full before the lock goes to somebody else.               *)
(***************************************************************************)
CONSTANTS
    Config,     \* running configurations
    Holder,     \* sessions and writers
    Free,       \* nobody holds the lock
    Settled     \* no commit waits for its confirmation

VARIABLES
    running,    \* the running configuration
    holder,     \* who holds the ConfigDB lock
    undo        \* what an unconfirmed commit replaced, or Settled

vars == <<running, holder, undo>>

Init == running \in Config /\ holder = Free /\ undo = Settled

Acquire(h) ==
    /\ holder = Free
    /\ holder' = h
    /\ UNCHANGED <<running, undo>>

\* Nobody leaves an unconfirmed commit behind.
Release ==
    /\ holder # Free /\ undo = Settled
    /\ holder' = Free
    /\ UNCHANGED <<running, undo>>

Write ==
    /\ holder # Free
    /\ running' \in Config
    /\ UNCHANGED <<holder, undo>>

\* The last write of a writer or session and the release in one step.
WriteAndRelease ==
    /\ holder # Free /\ undo = Settled
    /\ running' \in Config
    /\ holder' = Free
    /\ UNCHANGED undo

CommitUnconfirmed ==
    /\ holder # Free /\ undo = Settled
    /\ undo' = running
    /\ running' \in Config
    /\ UNCHANGED holder

\* The configuration stays, the session is over.
Confirm ==
    /\ undo # Settled
    /\ undo' = Settled /\ holder' = Free
    /\ UNCHANGED running

Revert ==
    /\ undo # Settled
    /\ running' = undo
    /\ undo' = Settled
    /\ UNCHANGED holder

Next ==
    \/ \E h \in Holder : Acquire(h)
    \/ Release \/ Write \/ WriteAndRelease
    \/ CommitUnconfirmed \/ Confirm \/ Revert

Spec == Init /\ [][Next]_vars
=============================================================================
