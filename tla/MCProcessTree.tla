----------------------------- MODULE MCProcessTree -----------------------------
(* ProcessTree for TLC: two children, one grandchild, and a thread. *)
EXTENDS ProcessTree

MCProcs == 1..4
MCChildren == <<<<2, 3>>, <<>>, <<4>>, <<>>>>
MCThreads == {<<3, 1>>}
MCKeys == {<<p, 0>> : p \in MCProcs} \cup MCThreads
MCData == [nrProcs |-> 4, procs |-> <<0, 1, 1, 3>>]
=============================================================================
