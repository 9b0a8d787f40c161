---------------------------- MODULE MCThreadQueue ----------------------------
(* Small instances of ThreadQueue for TLC.                                  *)
EXTENDS ThreadQueue, TLC

CONSTANTS t1, t2, t3, a, b

SingleItems == {<<a>>}
SinglesAndBatches == {<<a>>, <<a, b>>}
EmptyOnly == {<<>>}
EmptyAndOne == {<<>>, <<b>>}

AllWaits == {"none", "some", "forever"}
OnlyForever == {"forever"}
OnlySome == {"some"}

ThreadSymmetry == Permutations(Threads)
=============================================================================
