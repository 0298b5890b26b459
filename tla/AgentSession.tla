---------------------------- MODULE AgentSession ----------------------------
(***************************************************************************)
(* An agent, its frontend and di-core's main loop between them (main.rs,   *)
(* MultiAgentOrchestrator in agent/engine.rs).                             *)
(***************************************************************************)
EXTENDS AgentTurn, Frontend

sessionVars == <<channelVars, turnVars, frontendVars>>

SessionInit ==
  /\ stdin = <<>> /\ inbox = <<>> /\ events = <<>>
  /\ TurnInit
  /\ FrontendInit

\* An interrupt raises the abort flag first ...
RaiseAbort ==
  /\ stdin # <<>> /\ Head(stdin).type = "Interrupt"
  /\ ~abort
  /\ abort' = TRUE
  /\ UNCHANGED <<channelVars, pc, mode, reinject, calls, counter, trajectory, ran, frontendVars>>

\* ... and then goes into the agent's channel like every other message.  For an agent that
\* has ended it is dropped; a text is answered with the news that it has.
Route ==
  /\ stdin # <<>>
  /\ Head(stdin).type = "Interrupt" => abort
  /\ stdin' = Tail(stdin)
  /\ IF pc # "finished"
     THEN inbox' = Append(inbox, Head(stdin)) /\ UNCHANGED events
     ELSE /\ UNCHANGED inbox
          /\ Emit(IF Head(stdin).type \in Texts THEN <<TaskFinished(FALSE)>> ELSE <<>>)
  /\ UNCHANGED <<turnVars, frontendVars>>

AgentStep == AgentNext /\ UNCHANGED <<stdin, frontendVars>>
FrontendStep == HandleEvent /\ UNCHANGED <<inbox, turnVars>>
UserStep == UserNext /\ UNCHANGED <<inbox, turnVars>>

SessionNext ==
  \/ RaiseAbort \/ Route
  \/ AgentStep
  \/ FrontendStep
  \/ UserStep

\* The tasks of di-core and the frontend's event loop go on; the user owes nothing, and
\* the model may fail for ever (NoReply).
SessionFairness ==
  /\ WF_sessionVars(RaiseAbort \/ Route)
  /\ WF_sessionVars(AgentStep)
  /\ WF_sessionVars(FrontendStep)

SessionSpec == SessionInit /\ [][SessionNext]_sessionVars /\ SessionFairness

-----------------------------------------------------------------------------
(* Properties.                                                             *)

Finished == pc = "finished"

\* What can end a wait.
Ends(types) == \E type \in types : Says(stdin, type) \/ Says(inbox, type)

\* An agent never waits for an answer nobody is asked for: its question is shown, on its
\* way to the screen, or answered.  When the agent has ended, no question stays.
PromptsHonest ==
  /\ status # "Closed" /\ pc = "approving" =>
       \/ Event("ApprovalNeeded", Head(calls)) \in ToSet(events) \cup {prompt}
       \/ Ends({"ApprovalResponse", "SetMode", "Interrupt"})
  /\ status # "Closed" /\ pc = "asking" =>
       \/ Event("FollowupQuestion", Head(calls)) \in ToSet(events) \cup {prompt}
       \/ Ends({"FollowupAnswer", "ApprovalResponse", "SetMode", "Interrupt"})
  /\ Finished /\ events = <<>> => prompt = NoPrompt

\* Every approval that let a call run was given by the user, and was spent on that one
\* call: approvals taken and approvals on their way never exceed those given.
Yeses(messages) == Cardinality({i \in DOMAIN messages : IsYes(messages[i])})
YesesUnderWay == Yeses(stdin) + Yeses(inbox) + Yeses(reinject)

OneYesPerRun ==
  Cardinality({c \in ran : NeedsApproval(c)}) + YesesUnderWay <= Cardinality(approved)

\* What the user says reaches the trajectory once and in order, whichever of the places of
\* the loop it arrives at; only the end of the task loses what is still under way.
HeardInOrder ==
  LET heard == OfTypes(trajectory \o inbox \o stdin, Texts) IN
  IF Finished THEN IsPrefix(OfTypes(trajectory, Texts), said) ELSE heard = said

\* In plan mode nothing is changed, although the mode is looked at before a wait of any
\* length and the call runs after it.
PlanChangesNothing ==
  [][\A c \in ran' \ ran : mode = "plan" => c.kind \in PlanModeTools]_sessionVars

\* An interrupt ends the task wherever the agent is, also while it waits for an answer.
InterruptEnds == (abort \/ Says(stdin, "Interrupt")) ~> Finished

\* A call runs only if the user said yes to its own prompt ("Match on approval_id to
\* prevent replay attacks from stale responses").
OnlyApprovedRun == \A c \in ran : NeedsApproval(c) => c \in approved
=============================================================================
