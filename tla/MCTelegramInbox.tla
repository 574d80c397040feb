-------------------------- MODULE MCTelegramInbox --------------------------
(* Small instances of TelegramInbox for TLC. *)
EXTENDS TelegramInbox

AllReadable == {}
SecondUnreadable == {2}
=============================================================================
