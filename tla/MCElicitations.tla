--------------------------- MODULE MCElicitations ---------------------------
(* Small instances of Elicitations. *)
EXTENDS Elicitations

\* Each post publishes one request of the sub-agent's session, which may start a handler.
ModelHandlers == 1..MaxPosts
=============================================================================
