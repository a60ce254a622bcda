-------------------------------- MODULE MCNotify --------------------------------
(* Instances of Notify for TLC.                                            *)
EXTENDS Notify, TLC

CONSTANTS m1, m2, w1, w2, c1, i1, i2, p1, p2

WorkerSymmetry == Permutations({p1, p2})
=================================================================================
