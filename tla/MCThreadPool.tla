---------------------------- MODULE MCThreadPool ----------------------------
(* The pool with two submitting threads, one of them the owner. *)
EXTENDS ThreadPool

=============================================================================
