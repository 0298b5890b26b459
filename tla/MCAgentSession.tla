--------------------------- MODULE MCAgentSession ---------------------------
(* Instances of AgentSession for TLC. *)
EXTENDS AgentSession

\* Replies that take a turn through every gate and wait, alone and followed by another call.
MixedReplies == {<<"edit">>, <<"ask", "task">>, <<"done", "read">>}

\* Two calls that change something.
EditReplies == {<<"edit", "edit">>}
=============================================================================
