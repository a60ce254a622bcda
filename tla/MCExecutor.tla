------------------------------ MODULE MCExecutor ------------------------------
(* Instances of Executor for TLC.                                          *)
EXTENDS Executor

CONSTANTS t1, t2, e1
================================================================================
