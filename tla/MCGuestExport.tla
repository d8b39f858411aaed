----------------------------- MODULE MCGuestExport -----------------------------
(* A small instance of GuestExport for TLC.                                 *)
EXTENDS GuestExport, TLC

CONSTANT w1

MCOf == [r \in Rows |-> w1]
=============================================================================
