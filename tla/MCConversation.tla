--------------------------- MODULE MCConversation ---------------------------
(* The conversation with upstreams of the providers a configuration lists.  *)
EXTENDS Conversation
=============================================================================
