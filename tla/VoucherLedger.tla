----------------------------- MODULE VoucherLedger -----------------------------
(***************************************************************************)
(* What the voucher pipeline promises about one channel, whatever crashes, *)
(* is lost or times out in between: the payee accepts only growing amounts *)
(* the deposit covers and at most MaxDelta above what the payer has on     *)
(* record, and the payer records only what the payee has accepted.         *)
(***************************************************************************)
EXTENDS Integers

CONSTANTS MaxDelta, MaxDeposit

VARIABLES
  deposit,   \* what the channel holds for vouchers
  accepted,  \* the highest voucher the payee keeps, or None
  recorded   \* the highest voucher the payer keeps, or None

vars == <<deposit, accepted, recorded>>

None == -1
AtLeast0(n) == IF n < 0 THEN 0 ELSE n

Init == deposit \in 1..MaxDeposit /\ accepted = None /\ recorded = None

\* A voucher reaches the payee.
Accept ==
  /\ accepted' \in (AtLeast0(accepted) + 1)..deposit
  /\ accepted' <= AtLeast0(recorded) + MaxDelta
  /\ UNCHANGED <<deposit, recorded>>

\* The payer learns that a voucher was accepted.
Learn ==
  /\ recorded' \in (recorded + 1)..accepted
  /\ UNCHANGED <<deposit, accepted>>

TopUp ==
  /\ deposit' \in (deposit + 1)..MaxDeposit
  /\ UNCHANGED <<accepted, recorded>>

Next == Accept \/ Learn \/ TopUp

Spec == Init /\ [][Next]_vars
=============================================================================
