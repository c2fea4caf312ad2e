---------------------------- MODULE MCVoucherFlow ----------------------------
(* TLC instances of VoucherFlow.                                             *)
EXTENDS VoucherFlow, TLC

Amounts1 == {0, 1}
Amounts2 == 0..2
Symmetry == Permutations(Req) \cup Permutations(Dlv)

\* The gateway forgets a reading that was settled without a voucher: the
\* invariants and the guards only tell "pending" and "signed" answers apart.
Forgets(r) == answer[r].kind \notin {"pending", "signed"}
View ==
  <<deposit, closing, record, agent, dlv, shigh,
    [r \in Req |-> IF Forgets(r) THEN <<>> ELSE <<asked[r], answer[r]>>]>>
=============================================================================
