------------------------------ MODULE MCOutbox ------------------------------
(* Small instances of Outbox for TLC. *)
EXTENDS OutboxInvariant, TLC

CONSTANTS h1, h2

OneHandler  == {h1}
TwoHandlers == {h1, h2}

Interchangeable == Permutations({h1, h2})

FromMax  == MaxKinds
Messages == {"max_send"}
OwnersOwn == {"tg_text", "tg_media"}
AllMessages == {"max_send", "tg_text", "tg_media"}
=============================================================================
