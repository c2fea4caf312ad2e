---------------------------- MODULE MCChannelClose ----------------------------
(* TLC instances of ChannelClose.                                            *)
EXTENDS ChannelClose, TLC

Symmetry == Permutations(Poll)
=============================================================================
