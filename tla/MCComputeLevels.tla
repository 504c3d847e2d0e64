--------------------------- MODULE MCComputeLevels ---------------------------
(* Every depends_on list over three steps, out-of-range indices included.  *)
EXTENDS ComputeLevels

MCInputs == [Steps -> SUBSET (-1 .. N)]
==============================================================================
