---------------------------- MODULE MCBlockBuffer ----------------------------
(* Small instances of BlockBuffer for TLC.                                   *)
EXTENDS BlockBuffer, TLC

CONSTANTS input, output, x, y

TheBuffers == {input, output}
TheBytes == {x, y}
SomeStrings == {<<y>>, <<x, y>>, <<y, x, y>>}
SmallCounts == 0..5

BufferSymmetry == Permutations(TheBuffers)
=============================================================================
