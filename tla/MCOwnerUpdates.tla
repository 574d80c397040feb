--------------------------- MODULE MCOwnerUpdates ---------------------------
(* Small instances of OwnerUpdates for TLC. *)
EXTENDS OwnerUpdates, TLC

CONSTANTS m, o1, o2

Snapshot(text, reaction) ==
    [message |-> m, family |-> "snapshot", text |-> text, reaction |-> reaction]
Deletion == [message |-> m, family |-> "delete", text |-> "none", reaction |-> "none"]

OneMessage == {m}
TwoLocks == {o1, o2}
AsPlaced == [text |-> "a", reaction |-> "none"]

\* An edit, then the edit taken back and a reaction put on.
ThereAndBack == <<Snapshot("b", "none"), Snapshot("a", "heart")>>
\* And then the message is deleted.
AndDeleted == Append(ThereAndBack, Deletion)

TwoUpdates == 0..2
ThreeUpdates == 0..3
Interchangeable == Permutations(TwoLocks)
=============================================================================
