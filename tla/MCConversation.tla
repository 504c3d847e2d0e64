---------------------------- MODULE MCConversation ----------------------------
(* One turn, one watcher, one re-plan; the queue holds every event *)
(* such a turn publishes, so the passing run is the case without drops.    *)
EXTENDS Conversation
==============================================================================
