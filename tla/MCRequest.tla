------------------------------ MODULE MCRequest ------------------------------
(* Request with every request around limits of a few bytes: headers and    *)
(* bodies below, at and above them, arriving in all possible pieces.       *)
EXTENDS Request

Sizes == 0..4

AllRequests ==
  {r \in [head : 1..6, body : Sizes, line : BOOLEAN,
          field : {"number", "bad", "quoted", "none"}, n : Sizes, quoteEnd : Sizes] :
     /\ r.field \in {"bad", "none"} => r.n = 0
     /\ r.quoteEnd \in IF r.field = "quoted" THEN 1..r.body ELSE {0}}

=============================================================================
