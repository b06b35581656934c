----------------------------- MODULE MCAuditChain -----------------------------
(* Small instances of AuditChain.                                            *)
EXTENDS AuditChain, TLC

CONSTANTS w1, w2, u1, u2

TwoWorkers == {w1, w2}
OneWorker  == {w1}
TwoUsers   == {u1, u2}
OneUser    == {u1}
Nothing    == {}

WorkersAlike == Permutations(TwoWorkers)
===============================================================================
