---------------------------- MODULE MCTcpSocket ----------------------------
(***************************************************************************)
(* TcpSocket for TLC: one message without and one with a payload, headers  *)
(* that arrive in two pieces, a kernel buffer smaller than two frames.     *)
(***************************************************************************)
EXTENDS TcpSocket, TLC

CONSTANTS Short, Long

Sizes == Short :> 0 @@ Long :> 1

=============================================================================
