---------------------------- MODULE MCMessageMap ----------------------------
(* Small instances of MessageMap for TLC. *)
EXTENDS MessageMap

CONSTANTS m1, m2, u1, l1, l2

OneMessage  == {m1}
TwoMessages == {m1, m2}
OneOwn      == {u1}
NoOwn       == {}
OneLive     == {l1}
TwoLive     == {l1, l2}
=============================================================================
