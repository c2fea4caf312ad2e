--------------------------- MODULE ChannelSettlement ---------------------------
(***************************************************************************)
(* What closing promises about one channel: it ends once, either by the    *)
(* payee's close, which collects an amount the payee has accepted, or by   *)
(* the payer's refund, which a dispute precedes.  A close that answers a   *)
(* dispute collects at least what had been accepted when it began; one the *)
(* payee decides on for another reason may collect any accepted amount.    *)
(***************************************************************************)
EXTENDS Integers

VARIABLES
  accepted,  \* the highest voucher the payee keeps, or None
  dispute,   \* the payer has begun the unilateral exit
  owed,      \* what the payee had accepted at that moment, or None
  ended,     \* "open", "closed" or "refunded"
  paid,      \* what the payee has collected
  answered   \* the close that ended the channel answered the dispute

vars == <<accepted, dispute, owed, ended, paid, answered>>

None == -1
Init == accepted = None /\ ~dispute /\ owed = None /\ ended = "open" /\ paid = 0 /\ ~answered

Accept ==
  /\ accepted' \in Nat /\ accepted' > accepted
  /\ UNCHANGED <<dispute, owed, ended, paid, answered>>

Dispute ==
  /\ ended = "open" /\ ~dispute
  /\ dispute' = TRUE /\ owed' = accepted
  /\ UNCHANGED <<accepted, ended, paid, answered>>

Settle ==
  /\ ended = "open" /\ ended' = "closed"
  /\ paid' \in Nat /\ paid' <= accepted
  /\ answered' \in BOOLEAN /\ (answered' => dispute /\ paid' >= owed)
  /\ UNCHANGED <<accepted, dispute, owed>>

Refund ==
  /\ ended = "open" /\ dispute /\ ended' = "refunded"
  /\ UNCHANGED <<accepted, dispute, owed, paid, answered>>

Next == Accept \/ Dispute \/ Settle \/ Refund

Spec == Init /\ [][Next]_vars
=============================================================================
