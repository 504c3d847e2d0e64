----------------------------- MODULE MCDelegation -----------------------------
EXTENDS Delegation

(* Two specialists: one that reads, one that declares a mutating tool too. *)
MCAgentTools == [a \in Agents |-> IF a = "reader" THEN {"query"} ELSE {"post"}]

(* Steps differ in nothing.                                                *)
MCSymmetry == Permutations(Steps)
===============================================================================
