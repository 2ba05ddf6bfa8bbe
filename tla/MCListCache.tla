----------------------------- MODULE MCListCache -----------------------------
(* Instances of ListCache for TLC.  Rows and writes are interchangeable:    *)
(* no definition orders or chooses among them.                              *)
EXTENDS ListCache, TLC

Interchangeable == Permutations(Id) \cup Permutations(Write)
=============================================================================
