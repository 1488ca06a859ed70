---------------------------- MODULE MCKernelSync ----------------------------
(* Small instances of KernelSync.                                          *)
EXTENDS KernelSync

CONSTANTS e1, t1, t2

(* Empty, repeated, mixed and automatically signaled handles, a thread's   *)
(* handle among them.                                                      *)
MixedLists == {<<>>, <<e1, e1>>, <<e1, t2>>, <<e1, FakeHandle>>}

SingleEvent == {<<e1>>}
=============================================================================
