---------------------------- MODULE MCThreadPool ----------------------------
(***************************************************************************)
(* An instance of ThreadPool.  The pool is destroyed at the end of its     *)
(* client's scope, so deadlock is not checked.                             *)
(***************************************************************************)
EXTENDS ThreadPool

CONSTANTS w1, w2, c1, c2, t1, t2, t3

TwoWorkers == {w1, w2}
TwoClients == {c1, c2}
ThreeTasks == {t1, t2, t3}
=============================================================================
