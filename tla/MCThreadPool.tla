---------------------------- MODULE MCThreadPool ----------------------------
(* Small instances of ThreadPool.                                          *)
EXTENDS ThreadPool

CONSTANTS w1, w2, c1, c2, t1, t2
=============================================================================
