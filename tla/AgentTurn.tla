----------------------------- MODULE AgentTurn -----------------------------
(***************************************************************************)
(* One agent of di-core (agent/engine.rs): run_task's loop of turns and,   *)
(* inside run_turn, the tool calls of a model reply, each behind the mode  *)
(* gate, the approval gate and the waits for the frontend.                 *)
(*                                                                         *)
(* A reply is a sequence of tool calls: "read" stands for the tools that   *)
(* need no approval, "edit" for those that change something (write, edit,  *)
(* bash), "ask", "done" and "task" for themselves.  The trajectory keeps   *)
(* the calls, their results and what the user said, in order; compaction,  *)
(* which shortens it, and the hooks' messages are not modelled.            *)
(***************************************************************************)
EXTENDS AgentChannels

CONSTANTS
  Replies,    \* the replies the model may give: sequences of kinds
  Timed,      \* whether a frontend timeout is set (recv_frontend may give up)
  MaxCalls    \* bound: tool calls of the task

ASSUME RepliesAssumption == Replies \subseteq Seq(Kinds)

VARIABLES
  pc,            \* where run_task is
  mode,
  abort,
  reinject,      \* drain_user_responses: to_reinject
  calls,         \* tools of this turn not yet gone through
  counter,       \* tool_call_counter
  trajectory,
  ran            \* the calls that were executed

turnVars == <<pc, mode, abort, reinject, calls, counter, trajectory, ran>>

NeedsApproval(c) == c.kind \notin {"read", "ask"}
PlanModeTools == {"read", "ask", "done"}

Issued(c) == [type |-> "call", call |-> c]
Result(c) == [type |-> "result", call |-> c]

TurnInit ==
  /\ pc = "drain"
  /\ mode = "act"
  /\ abort = FALSE
  /\ reinject = <<>>
  /\ calls = <<>>
  /\ counter = 0
  /\ trajectory = <<>>
  /\ ran = {}

Record(entries) == trajectory' = trajectory \o entries

Finish(lines) == pc' = "finished" /\ Emit(lines)

-----------------------------------------------------------------------------
(* Between turns: drain_user_responses.                                    *)

\* The last mode that the user asked for, if any.
LastMode(messages) ==
  FoldLeft(LAMBDA old, m : IF m.type = "SetMode" THEN m.mode ELSE old, mode, messages)

\* All that is waiting is taken at once; an answer nobody waits for is kept aside.
Drain ==
  /\ pc = "drain"
  /\ pc' = "reinject"
  /\ inbox' = <<>>
  /\ Record(OfTypes(inbox, Texts))
  /\ abort' = (abort \/ Says(inbox, "Interrupt"))
  /\ mode' = LastMode(inbox)
  /\ reinject' = OfTypes(inbox, Answers)
  /\ UNCHANGED <<events, calls, counter, ran>>

\* It goes back into the channel, behind what has come in since.
Reinject ==
  /\ pc = "reinject"
  /\ reinject # <<>>
  /\ inbox' = Append(inbox, Head(reinject))
  /\ reinject' = Tail(reinject)
  /\ UNCHANGED <<pc, mode, abort, calls, counter, trajectory, ran, events>>

Drained == pc = "reinject" /\ reinject = <<>>

Interrupted_GoesOn ==
  /\ Drained
  /\ abort
  /\ pc' = "stream"
  /\ UNCHANGED <<mode, abort, reinject, calls, counter, trajectory, ran, inbox, events>>

Interrupted ==
  /\ Drained
  /\ abort
  /\ Finish(<<TaskFinished(FALSE)>>)
  /\ UNCHANGED <<mode, abort, reinject, calls, counter, trajectory, ran, inbox>>

StartTurn ==
  /\ Drained
  /\ ~abort
  /\ pc' = "stream"
  /\ UNCHANGED <<mode, abort, reinject, calls, counter, trajectory, ran, inbox, events>>

-----------------------------------------------------------------------------
(* The model's reply.                                                      *)

\* "complete" has arrived; the chunk loop looks at the abort flag before each chunk.
ReplyArrives(kinds) ==
  /\ pc = "stream"
  /\ ~abort
  /\ kinds # <<>>
  /\ counter + Len(kinds) <= MaxCalls
  /\ pc' = "tools"
  /\ counter' = counter + Len(kinds)
  /\ calls' = [i \in DOMAIN kinds |-> [id |-> counter + i, kind |-> kinds[i]]]
  /\ Record([i \in DOMAIN kinds |-> Issued([id |-> counter + i, kind |-> kinds[i]])])
  /\ UNCHANGED <<mode, abort, reinject, ran, inbox, events>>

\* No usable reply (gateway error, interrupted stream, a reply without a tool call): the
\* agent is told and tries again, until it has failed too often.
NoReply ==
  /\ pc = "stream"
  /\ pc' = "drain"
  /\ UNCHANGED <<mode, abort, reinject, calls, counter, trajectory, ran, inbox, events>>

\* After too many gateway errors run_task returns Err, which main.rs reports once more.
GivesUp ==
  /\ pc = "stream"
  /\ \/ Finish(<<TaskFinished(FALSE), TaskFinished(FALSE)>>)
     \/ Finish(<<TaskFinished(FALSE)>>)
  /\ UNCHANGED <<mode, abort, reinject, calls, counter, trajectory, ran, inbox>>

-----------------------------------------------------------------------------
(* The tool loop of run_turn.                                              *)

\* The next call: the loop has looked at the abort flag.
Current(c) == pc = "tools" /\ ~abort /\ calls # <<>> /\ c = Head(calls)

\* The call is over with these entries in the trajectory; the loop goes on.
Continue(entries) ==
  /\ pc' = "tools"
  /\ calls' = Tail(calls)
  /\ Record(entries)

\* Plan mode lets only reading tools through.
Blocked(c) ==
  /\ Current(c)
  /\ mode = "plan" /\ c.kind \notin PlanModeTools
  /\ Continue(<<Result(c)>>)
  /\ UNCHANGED <<mode, abort, reinject, counter, ran, inbox, events>>

Allowed(c) == Current(c) /\ (mode = "plan" => c.kind \in PlanModeTools)

\* What execution does, after "lines" were emitted: an open circuit or the pre-flight
\* firewall answers the call instead, "ask" and "done" go on to wait for the user, and
\* "task" ends the task.
Run(c, lines) ==
  \/ /\ Continue(<<Result(c)>>)
     /\ Emit(lines)
     /\ UNCHANGED <<ran, abort>>
  \/ /\ ran' = ran \cup {c}
     /\ \/ /\ c.kind \in {"read", "edit"}
           /\ Continue(<<Result(c)>>)
           /\ Emit(lines)
           /\ UNCHANGED abort
        \/ /\ c.kind = "ask"
           /\ pc' = "ask"
           /\ Emit(lines \o <<Event("FollowupQuestion", c)>>)
           /\ UNCHANGED <<calls, trajectory, abort>>
        \/ /\ c.kind = "done"
           /\ pc' = "present"
           /\ calls' = Tail(calls)
           /\ Record(<<Result(c)>>)
           /\ Emit(lines \o <<Event("TaskPresented", c)>>)
           /\ UNCHANGED abort
        \/ /\ c.kind = "task"
           /\ pc' = "gate"
           /\ abort' = TRUE
           /\ Emit(lines \o <<TaskFinished(TRUE)>>)
           /\ UNCHANGED <<calls, trajectory>>

RunAtOnce(c) ==
  /\ Allowed(c)
  /\ ~NeedsApproval(c)
  /\ Run(c, <<Event("ToolCallStarted", c)>>)
  /\ UNCHANGED <<mode, reinject, counter, inbox>>

AskApproval(c) ==
  /\ Allowed(c)
  /\ NeedsApproval(c)
  /\ pc' = "approve"
  /\ Emit(<<Event("ToolCallStarted", c), Event("ApprovalNeeded", c)>>)
  /\ UNCHANGED <<mode, abort, reinject, calls, counter, trajectory, ran, inbox>>

\* The turn ends, its calls done or cut short; too many mistakes end the task.
EndTurn ==
  /\ pc = "tools"
  /\ abort \/ calls = <<>>
  /\ calls' = <<>>
  /\ \/ pc' = "drain" /\ UNCHANGED events
     \/ Finish(<<TaskFinished(FALSE)>>)
  /\ UNCHANGED <<mode, abort, reinject, counter, trajectory, ran, inbox>>

-----------------------------------------------------------------------------
(* The waits.  "approve" and "ask" are the heads of loops that look at the  *)
(* abort flag; "approving", "asking" and "present" block in recv_frontend.  *)

Receives(types) == inbox # <<>> /\ Head(inbox).type \in types /\ inbox' = Tail(inbox)

\* No answer: a message that is none, or the timeout.
NoAnswer(types) ==
  \/ Receives(types)
  \/ Timed /\ UNCHANGED inbox

Heard == OfTypes(<<Head(inbox)>>, Texts)

LoopHead ==
  /\ pc \in {"approve", "ask"}
  /\ \/ abort /\ Continue(<<Result(Head(calls))>>)
     \/ /\ ~abort
        /\ pc' = IF pc = "approve" THEN "approving" ELSE "asking"
        /\ UNCHANGED <<calls, trajectory>>
  /\ UNCHANGED <<mode, abort, reinject, counter, ran, inbox, events>>

Approved_Peeked ==
  /\ pc = "approving"
  /\ inbox # <<>> /\ IsYes(Head(inbox))
  /\ Run(Head(calls), <<>>)
  /\ UNCHANGED <<mode, reinject, counter, inbox>>

\* Any approval is taken for this one: without an id it always matches.
Approved ==
  /\ pc = "approving"
  /\ inbox # <<>> /\ IsYes(Head(inbox))
  /\ inbox' = Tail(inbox)
  /\ Run(Head(calls), <<>>)
  /\ UNCHANGED <<mode, reinject, counter>>

\* Denied by the user, by an interrupt, by a timeout, or by any other message.
Denied ==
  /\ pc = "approving"
  /\ \/ /\ inbox # <<>> /\ ~IsYes(Head(inbox))
        /\ Receives({"ApprovalResponse", "Interrupt"})
        /\ abort' = (abort \/ Head(inbox).type = "Interrupt")
        /\ UNCHANGED events
     \/ /\ NoAnswer({"SetMode"})
        /\ Emit(<<Event("FrontendTimeout", Head(calls))>>)
        /\ UNCHANGED abort
  /\ Continue(<<Result(Head(calls))>>)
  /\ UNCHANGED <<mode, reinject, counter, ran>>

ApprovalGoesOn_ModeTaken ==
  /\ pc = "approving"
  /\ Receives({"UserResponse", "FollowupAnswer", "SetMode"})
  /\ Record(Heard)
  /\ mode' = IF Head(inbox).type = "SetMode" THEN Head(inbox).mode ELSE mode
  /\ pc' = "approve"
  /\ UNCHANGED <<abort, reinject, calls, counter, ran, events>>

\* What the user says meanwhile is recorded, an answer to some question is discarded.
ApprovalGoesOn ==
  /\ pc = "approving"
  /\ Receives({"UserResponse", "FollowupAnswer"})
  /\ Record(Heard)
  /\ pc' = "approve"
  /\ UNCHANGED <<mode, abort, reinject, calls, counter, ran, events>>

\* Any answer is taken for this question, any other message for a timeout.
Answered ==
  /\ pc = "asking"
  /\ \/ /\ Receives({"FollowupAnswer", "Interrupt"})
        /\ abort' = (abort \/ Head(inbox).type = "Interrupt")
        /\ UNCHANGED events
     \/ /\ NoAnswer({"ApprovalResponse", "SetMode"})
        /\ Emit(<<Event("FrontendTimeout", Head(calls))>>)
        /\ UNCHANGED abort
  /\ Continue(<<Result(Head(calls))>>)
  /\ UNCHANGED <<mode, reinject, counter, ran>>

QuestionGoesOn_Discarded ==
  /\ pc = "asking"
  /\ Receives({"UserResponse"})
  /\ pc' = "ask"
  /\ UNCHANGED <<mode, abort, reinject, calls, counter, trajectory, ran, events>>

QuestionGoesOn ==
  /\ pc = "asking"
  /\ Receives({"UserResponse"})
  /\ Record(Heard)
  /\ pc' = "ask"
  /\ UNCHANGED <<mode, abort, reinject, calls, counter, ran, events>>

\* After "done": the user's next words let the turn go on with its remaining calls.
FollowUp ==
  /\ pc = "present"
  /\ Receives({"UserResponse"})
  /\ Record(Heard)
  /\ pc' = "tools"
  /\ UNCHANGED <<mode, abort, reinject, calls, counter, ran, events>>

\* A refusal or an interrupt returns from run_turn and drops the remaining calls.
Refused ==
  /\ pc = "present"
  /\ inbox # <<>> /\ ~IsYes(Head(inbox))
  /\ Receives({"ApprovalResponse", "Interrupt"})
  /\ abort' = (abort \/ Head(inbox).type = "Interrupt")
  /\ pc' = "tools"
  /\ calls' = <<>>
  /\ UNCHANGED <<mode, reinject, counter, trajectory, ran, events>>

StillPresented ==
  /\ pc = "present"
  /\ inbox # <<>>
  /\ IsYes(Head(inbox)) \/ Head(inbox).type \in {"FollowupAnswer", "SetMode"}
  /\ inbox' = Tail(inbox)
  /\ UNCHANGED <<turnVars, events>>

\* fire_pre_finish_gate, reached from "task" only and with the abort flag set: a gate
\* that blocks prompts the user and gives up before it listens.
Gate ==
  /\ pc = "gate"
  /\ \/ Finish(<<>>)
     \/ Finish(<<Event("FollowupQuestion", NoCall), TaskFinished(FALSE)>>)
  /\ UNCHANGED <<mode, abort, reinject, calls, counter, trajectory, ran, inbox>>

-----------------------------------------------------------------------------

Wait ==
  \/ LoopHead
  \/ Approved \/ Denied \/ ApprovalGoesOn
  \/ Answered \/ QuestionGoesOn
  \/ FollowUp \/ Refused \/ StillPresented

AgentNext ==
  \/ Drain \/ Reinject \/ Interrupted \/ StartTurn
  \/ \E kinds \in Replies : ReplyArrives(kinds)
  \/ NoReply \/ GivesUp
  \/ \E c \in ToSet(calls) : Blocked(c) \/ RunAtOnce(c) \/ AskApproval(c)
  \/ EndTurn
  \/ Wait
  \/ Gate
=============================================================================
