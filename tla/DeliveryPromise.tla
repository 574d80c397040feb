-------------------------- MODULE DeliveryPromise --------------------------
(***************************************************************************)
(* What the queue promises about each message, without saying how          *)
(* (docs/architecture/delivery-semantics.md as the code keeps it): at any  *)
(* time a message is in exactly one visible standing, an attempt creates it*)
(* on the remote side at most once, whatever may have landed is either     *)
(* confirmed or put to the owner, and only the owner gives a message a     *)
(* second chance once its fate was declared.                               *)
(***************************************************************************)
EXTENDS Naturals

CONSTANTS Message

VARIABLES
    standing,  \* where the message stands, as the owner is shown it
    making,    \* the messages whose delivery creates something there
    copies,    \* how many times the remote side has created it
    allowed    \* how many copies have been allowed for: one, and one more
               \* each time the owner retries a message of unknown fate

vars == <<standing, making, copies, allowed>>

Standings == {"unknown", "waiting", "delivered", "failed", "ambiguous",
              "expired", "archived"}

Init ==
    /\ standing = [m \in Message |-> "unknown"]
    /\ making = {}
    /\ copies = [m \in Message |-> 0]
    /\ allowed = [m \in Message |-> 1]

Move(m, from, to) ==
    standing[m] = from /\ standing' = [standing EXCEPT ![m] = to]

\* A message taken in: several at once when they are the parts of one text.
Accept ==
    \E S \in SUBSET Message :
        /\ S # {} /\ \A m \in S : standing[m] = "unknown"
        /\ standing' = [m \in Message |-> IF m \in S THEN "waiting" ELSE standing[m]]
        /\ making \subseteq making' /\ making' \subseteq making \union S
        /\ UNCHANGED <<copies, allowed>>

Land(m) ==
    /\ standing[m] = "waiting" /\ copies[m] < allowed[m]
    /\ copies' = [copies EXCEPT ![m] = @ + 1]
    /\ UNCHANGED <<standing, making, allowed>>

\* What is shown as delivered is there, unless there is nothing to be there.
Confirm(m) ==
    /\ m \in making => copies[m] > 0
    /\ Move(m, "waiting", "delivered") /\ UNCHANGED <<making, copies, allowed>>

Ask(m) == Move(m, "waiting", "ambiguous") /\ UNCHANGED <<making, copies, allowed>>

\* Only what has used no copy of its allowance may be called unsent.
GiveUp(m) ==
    /\ copies[m] < allowed[m]
    /\ \E to \in {"failed", "expired"} : Move(m, "waiting", to)
    /\ UNCHANGED <<making, copies, allowed>>

\* The owner withdraws an unsent message, or sets a declared one aside.
SetAside(m) ==
    /\ \/ copies[m] < allowed[m] /\ Move(m, "waiting", "archived")
       \/ \E from \in {"failed", "ambiguous", "expired"} : Move(m, from, "archived")
    /\ UNCHANGED <<making, copies, allowed>>

Vouch(m) == Move(m, "ambiguous", "delivered") /\ UNCHANGED <<making, copies, allowed>>

TryAgain(m) ==
    /\ \/ Move(m, "failed", "waiting") /\ UNCHANGED allowed
       \/ /\ Move(m, "ambiguous", "waiting")
          /\ allowed' = [allowed EXCEPT ![m] = @ + 1]
    /\ UNCHANGED <<making, copies>>

Next == \/ Accept
        \/ \E m \in Message : \/ Land(m) \/ Confirm(m) \/ Ask(m) \/ GiveUp(m)
                              \/ SetAside(m) \/ Vouch(m) \/ TryAgain(m)

Spec == Init /\ [][Next]_vars
=============================================================================
