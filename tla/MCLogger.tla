------------------------------ MODULE MCLogger ------------------------------
(* Small instances of Logger for TLC.                                       *)
EXTENDS Logger, TLC

CONSTANTS t1, t2, t3, f1, f2, f3, f4, l1, l2

LoggerSymmetry ==
    Permutations(Threads) \cup Permutations(Files) \cup Permutations(Lines)
=============================================================================
