----------------------------- MODULE MCTcpServer -----------------------------
(* TcpServer with model values for connections, and the points of the main *)
(* thread at which the runs let signals arrive.                            *)
EXTENDS TcpServer, TLC

(* Connections differ only in what may happen to them. *)
ConnSymmetry == Permutations(Conns \ (InPieces \cup Silent \cup Leavers \cup Failing))

NoPoints == {}

Anywhere == MainPoints \cup {"malloc"}

(* Before running_ is set. *)
Early == {"ctor", "main", "start"}

(* With the server running and main neither in the logger nor in malloc(). *)
Serving == MainPoints \ (LogPoints \cup Early)

=============================================================================
