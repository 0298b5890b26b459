--------------------------- MODULE AgentChannels ---------------------------
(***************************************************************************)
(* What runs between a frontend and one agent of di-core: the messages and *)
(* events of protocol/mod.rs that steer a task, and the three queues they  *)
(* wait in.  Texts are numbers; a prompt carries the tool call it is about *)
(* (for an approval, the approval_id that the frontend never sends back).  *)
(***************************************************************************)
EXTENDS Naturals, Sequences, FiniteSets, SequencesExt

CONSTANT MaxEvents   \* bound: events printed and not handled (the pipe to the frontend)

VARIABLES
  stdin,    \* lines the frontend has written and di-core's main loop has not read
  inbox,    \* the agent's frontend_rx
  events    \* lines di-core has printed and the frontend has not handled

channelVars == <<stdin, inbox, events>>

\* A tool call of a model reply.
Kinds == {"read", "edit", "ask", "done", "task"}
Call == [id : Nat \ {0}, kind : Kinds]
NoCall == [id |-> 0, kind |-> "none"]

UserResponse(text) == [type |-> "UserResponse", text |-> text]
FollowupAnswer(text) == [type |-> "FollowupAnswer", text |-> text]
ApprovalResponse(approved) == [type |-> "ApprovalResponse", approved |-> approved]
SetMode(mode) == [type |-> "SetMode", mode |-> mode]
Interrupt == [type |-> "Interrupt"]

Says(messages, type) == \E m \in ToSet(messages) : m.type = type
Texts == {"UserResponse"}
Answers == {"ApprovalResponse", "FollowupAnswer"}
IsYes(m) == m.type = "ApprovalResponse" /\ m.approved

\* Those of some types, in their order.
OfTypes(messages, types) ==
  LET upTo[n \in 0 .. Len(messages)] ==
        IF n = 0 THEN <<>>
        ELSE IF messages[n].type \in types THEN Append(upTo[n - 1], messages[n])
        ELSE upTo[n - 1]
  IN  upTo[Len(messages)]

Event(type, call) == [type |-> type, call |-> call]
TaskFinished(success) == [type |-> "TaskFinished", success |-> success]

\* Lines are printed; a writer waits while the pipe is full.
Emit(lines) ==
  /\ Len(events \o lines) <= MaxEvents
  /\ events' = events \o lines
=============================================================================
