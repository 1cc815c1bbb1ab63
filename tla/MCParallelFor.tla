--------------------------- MODULE MCParallelFor ---------------------------
(* A call whose first invocation makes a call of its own, beside another    *)
(* call from another thread.                                                *)
EXTENDS ParallelFor, TLC
CONSTANTS outer, inner, other, first
MCCalls == {outer, inner, other}
MCThreads == {first}
MCNest == [place \in MCCalls \X Indices |-> IF place = <<outer, 1>> THEN inner ELSE NoCall]
=============================================================================
