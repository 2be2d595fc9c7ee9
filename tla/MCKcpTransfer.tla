--------------------------- MODULE MCKcpTransfer ---------------------------
(* Small instances of KcpTransfer for TLC.                                  *)
EXTENDS KcpTransfer
=============================================================================
