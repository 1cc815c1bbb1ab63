-------------------------- MODULE MCProjectArchive --------------------------
(* One writer with two names beside a reader, and two writers of one file. *)
EXTENDS ProjectArchive
CONSTANTS w1, w2, r1, name1, name2

\* Payloads of different sizes, so that a replaced chunk moves the later ones.
SmallPayloads == {1, 2}
SizeOf(v) == v
TwoTypes == 1 .. 2

MCCrews == {[objects |-> {w1, r1}, paths |-> {name1, name2}],
            [objects |-> {w1, w2}, paths |-> {name1}]}
MCWriters == {w1, w2}
MCReaders == {r1}
MCPaths == {name1, name2}
=============================================================================
