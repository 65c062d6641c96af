------------------------------ MODULE MCKHeap ------------------------------
(***************************************************************************)
(* A heap of 10 to 12 sixteen-byte units for TLC: room for a list of five  *)
(* blocks, and a word small enough that addresses near its end occur.      *)
(***************************************************************************)
EXTENDS KHeap

MCWordSize       == 256
MCKernelEnd      == 20          \* rounds up to 32
MCDefaultTotal   == 240
MCTopGuard       == 16
MCReportedTotals == {0, 60, 215, 255}
MCRequests       == {0, 1, 17, 40, 64, 240}
=============================================================================
