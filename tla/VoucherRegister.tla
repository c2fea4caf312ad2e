--------------------------- MODULE VoucherRegister ---------------------------
(***************************************************************************)
(* What a voucher log promises its callers, without files, lines or        *)
(* crashes: for each channel, a stored highest voucher and the part of it  *)
(* that has been promised to somebody.  A store may be undone until it is  *)
(* promised; afterwards never.  persistence/voucher-log.ts implements it   *)
(* (module VoucherLog); the agent and the server build on it.              *)
(***************************************************************************)
EXTENDS Integers

CONSTANTS Channels, Amounts

VARIABLES stored,    \* highest voucher a restart would find, per channel
          promised   \* highest voucher acknowledged to a caller, per channel

None == -1
Levels == [Channels -> Amounts \cup {None}]

Init == /\ stored = [c \in Channels |-> None]
        /\ promised = [c \in Channels |-> None]

\* A higher voucher reaches the medium; nobody has been told yet.
Store == \E c \in Channels, a \in Amounts :
           /\ a > stored[c]
           /\ stored' = [stored EXCEPT ![c] = a]
           /\ UNCHANGED promised

\* A caller is told of a stored voucher.
Promise == \E c \in Channels, a \in Amounts :
             /\ a <= stored[c]
             /\ a >= promised[c]
             /\ promised' = [promised EXCEPT ![c] = a]
             /\ UNCHANGED stored

\* A failure loses what was stored and not promised.
Lose == /\ stored' \in Levels
        /\ \A c \in Channels : promised[c] <= stored'[c] /\ stored'[c] <= stored[c]
        /\ UNCHANGED promised

Next == Store \/ Promise \/ Lose

Spec == Init /\ [][Next]_<<stored, promised>>
=============================================================================
