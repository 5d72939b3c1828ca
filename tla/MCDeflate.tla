------------------------------ MODULE MCDeflate ------------------------------
(* The capture compressor on small buffers: a window of 32 bytes, blocks of *)
(* at most 14 codes and an output buffer of 7 bytes, with chunks that make  *)
(* matches of every kind, blocks of all three types and long codes.         *)
EXTENDS Deflate

Word(n) == [i \in 1 .. n |-> 97 + (i % 2)]              \* abab...: matches at distance 2
Run(n)  == [i \in 1 .. n |-> 99]                        \* cccc...: overlapping matches
Mixed   == <<97, 101, 102, 97, 101, 103, 98, 200, 201, 97, 101, 102, 104>>
Skewed  == <<100, 101, 100, 102, 100, 101, 100, 98, 100, 101, 100, 102, 100, 97, 101, 97, 102>>
MCChunks == {<<98>>, Word(9), Run(21), Mixed, Skewed}
=============================================================================
