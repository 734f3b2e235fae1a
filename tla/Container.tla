----------------------------- MODULE Container -----------------------------
(***************************************************************************)
(* What a SNII container promises its readers, whatever happens to the     *)
(* writer: it is published in one step, it then lists exactly the logical  *)
(* indexes whose add succeeded, and nothing changes it after finish() has  *)
(* returned OK.  Until then a crash may take it back.                      *)
(***************************************************************************)
EXTENDS FiniteSets

CONSTANTS Indexes, Unreadable

VARIABLES
    added,     \* the indexes whose add_logical_index returned OK
    visible,   \* the indexes a reader of the file finds, or Unreadable
    durable    \* finish() has returned OK

cvars == <<added, visible, durable>>

CInit == added = {} /\ visible = Unreadable /\ durable = FALSE

CAdd == /\ visible = Unreadable
        /\ \E i \in Indexes \ added : added' = added \cup {i}
        /\ UNCHANGED <<visible, durable>>

CPublish == /\ visible = Unreadable /\ visible' = added
            /\ UNCHANGED <<added, durable>>

CCommit == /\ ~durable /\ durable' = TRUE
           /\ UNCHANGED <<added, visible>>

CLose == /\ ~durable /\ visible' = Unreadable
         /\ UNCHANGED <<added, durable>>

CNext == CAdd \/ CPublish \/ CCommit \/ CLose

CSpec == CInit /\ [][CNext]_cvars
============================================================================
