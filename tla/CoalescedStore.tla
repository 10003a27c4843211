--------------------------- MODULE CoalescedStore ---------------------------
(***************************************************************************)
(* What the message store promises for one message: of the states given to  *)
(* Update some are written, each newer than the one before, until the row   *)
(* is deleted.  States are numbered in the order they are given.            *)
(***************************************************************************)
EXTENDS Naturals

VARIABLES
    accepted, \* states given to Update so far
    row,      \* the state in the database, 0 for the one it was created with
    deleted   \* the row was deleted

storeVars == <<accepted, row, deleted>>

StoreInit == accepted = 0 /\ row = 0 /\ deleted = FALSE

Accept == accepted' = accepted + 1 /\ UNCHANGED <<row, deleted>>

Store ==
    /\ ~deleted
    /\ row' \in row..accepted
    /\ UNCHANGED <<accepted, deleted>>

Remove == deleted' = TRUE /\ UNCHANGED <<accepted, row>>

StoreNext == Accept \/ Store \/ Remove

StoreSpec == StoreInit /\ [][StoreNext]_storeVars
=============================================================================
