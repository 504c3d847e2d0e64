----------------------------- MODULE MCSuperstep -----------------------------
(* Three concurrent steps: one key shared by three or two readers, and one *)
(* or two mutating steps beside a reader.                                  *)
EXTENDS Superstep, Sequences

CONSTANTS k1, k2, m

MCNodes == {0, 1, 2}
Mix(a, b, c) == [i \in MCNodes |-> <<a, b, c>>[i + 1]]

MCMixes == {Mix(k1, k1, k1), Mix(k1, k1, k2), Mix(k1, k1, m), Mix(k1, m, m)}

==============================================================================
