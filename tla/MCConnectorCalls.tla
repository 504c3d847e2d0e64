--------------------------- MODULE MCConnectorCalls ---------------------------
(* Two callers, one of them retrying its describe, and every kind of       *)
(* connector, read-only and not.                                           *)
EXTENDS ConnectorCalls

MCConnectors == [kind : Kinds, readOnly : BOOLEAN]
==============================================================================
