---------------------------- MODULE MCThreadPool ----------------------------
(* ThreadPool on a small instance: two workers, a function and a           *)
(* coroutine that sleeps or goes from stack to stack meanwhile.            *)
EXTENDS ThreadPool
=============================================================================
