---------------------------- MODULE MCVoucherLog ----------------------------
(* TLC instances of VoucherLog: three amounts, and two sets of positions at *)
(* which append() may fail. CleanErrors are the failures that leave no      *)
(* partial line behind.                                                     *)
EXTENDS VoucherLog

MCAmounts == 1..3
CleanErrors == {"begun", "line"}
AnyError == {"begun", "part", "json", "line"}
=============================================================================
