--------------------------- MODULE MCConfirmations ---------------------------
(* A small instance of Confirmations for TLC. *)
EXTENDS Confirmations

CONSTANTS t1, t2

TwoTxs == {t1, t2}
=============================================================================
