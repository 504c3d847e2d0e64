----------------------------- MODULE MCTenantApi -----------------------------
(* Two tenants, and one kind of rows a behaviour, since no route touches   *)
(* two kinds but those of users and keys.                                  *)
EXTENDS TenantApi

(* A procedure that only reads, one that writes, and one that composes     *)
(* another skill as one that reads.                                        *)
MCDocuments == {[tool |-> "fetch", declares |-> "read_only"], [tool |-> "send", declares |-> "mutating"],
                [tool |-> "a", declares |-> "read_only"]}
==============================================================================
