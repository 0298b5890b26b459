------------------------------ MODULE Frontend ------------------------------
(***************************************************************************)
(* The frontend's view of one agent (divrr/src/event.rs, app.rs,           *)
(* commands.rs): its status, the prompt it shows, and the keys and         *)
(* commands by which the user answers, speaks, switches the mode,          *)
(* interrupts the agent or closes its tab.                                 *)
(***************************************************************************)
EXTENDS AgentChannels

CONSTANT MaxSends   \* bound: texts, mode switches and interrupts of the user

VARIABLES
  status,     \* AgentStatus, or "Closed" when the tab is gone
  prompt,     \* pending_input: the event that asked, or NoPrompt
  sent,       \* how many messages that are no answer to an approval were sent
  said,       \* those of them that are texts of their own
  approved    \* the calls whose approval prompt the user answered with yes

frontendVars == <<status, prompt, sent, said, approved>>

NoPrompt == Event("none", NoCall)

FrontendInit ==
  /\ status = "Running"
  /\ prompt = NoPrompt
  /\ sent = 0
  /\ said = <<>>
  /\ approved = {}

Final == {"Finished", "Error"}
NotWaiting == IF status = "Waiting" THEN "Running" ELSE status

-----------------------------------------------------------------------------
(* handle_core_event.                                                      *)

Shows(e) ==
  /\ e.type \in {"ApprovalNeeded", "FollowupQuestion"}
  /\ status' = "Waiting"
  /\ prompt' = e

ShowsActivity(e) == e.type = "ToolCallStarted" /\ status' = "Running" /\ UNCHANGED prompt

Withdraws(e) ==
  /\ e.type = "FrontendTimeout"
  /\ status' = NotWaiting
  /\ prompt' = NoPrompt

\* A second end is ignored.
ShowsEnd(e) ==
  /\ e.type \in {"TaskPresented", "TaskFinished"}
  /\ \/ status \in Final /\ UNCHANGED <<status, prompt>>
     \/ /\ status \notin Final
        /\ status' = IF e = TaskFinished(FALSE) THEN "Error" ELSE "Finished"
        /\ prompt' = NoPrompt

HandleEvent ==
  /\ events # <<>>
  /\ events' = Tail(events)
  /\ \/ status = "Closed" /\ UNCHANGED <<status, prompt>>
     \/ /\ status # "Closed"
        /\ \/ Shows(Head(events)) \/ ShowsActivity(Head(events))
           \/ Withdraws(Head(events)) \/ ShowsEnd(Head(events))
  /\ UNCHANGED <<sent, said, approved, stdin>>

-----------------------------------------------------------------------------
(* What the user does.                                                     *)

Send(m) == stdin' = Append(stdin, m)

\* clear_pending_for_agent
Clear == prompt' = NoPrompt /\ status' = NotWaiting

\* y or n at an approval prompt.
Decide(yes) ==
  /\ prompt.type = "ApprovalNeeded"
  /\ Send(ApprovalResponse(yes))
  /\ Clear
  /\ approved' = IF yes THEN approved \cup {prompt.call} ELSE approved
  /\ UNCHANGED <<sent, said, events>>

CanSend == status # "Closed" /\ sent < MaxSends /\ sent' = sent + 1

Submit_AtApproval ==
  /\ CanSend
  /\ \/ /\ prompt.type = "FollowupQuestion"
        /\ Send(FollowupAnswer(sent'))
        /\ Clear
        /\ UNCHANGED said
     \/ /\ prompt.type # "FollowupQuestion"
        /\ Send(UserResponse(sent'))
        /\ Clear
        /\ said' = Append(said, UserResponse(sent'))
  /\ UNCHANGED <<approved, events>>

\* Enter in the input box: the answer to the question shown, or a message of its own; at
\* an approval prompt the text is not sent.
Submit ==
  /\ CanSend
  /\ \/ /\ prompt.type = "FollowupQuestion"
        /\ Send(FollowupAnswer(sent'))
        /\ Clear
        /\ UNCHANGED said
     \/ /\ prompt = NoPrompt
        /\ Send(UserResponse(sent'))
        /\ said' = Append(said, UserResponse(sent'))
        /\ UNCHANGED <<prompt, status>>
  /\ UNCHANGED <<approved, events>>

\* ":plan", ":act"
SwitchMode(mode) ==
  /\ CanSend
  /\ Send(SetMode(mode))
  /\ UNCHANGED <<prompt, status, said, approved, events>>

\* ":interrupt"
Stop ==
  /\ CanSend
  /\ Send(Interrupt)
  /\ UNCHANGED <<prompt, status, said, approved, events>>

\* ":close" interrupts an agent that runs, as far as the frontend knows.
CloseTab ==
  /\ CanSend
  /\ IF status \in {"Running", "Waiting"} THEN Send(Interrupt) ELSE UNCHANGED stdin
  /\ status' = "Closed"
  /\ prompt' = NoPrompt
  /\ UNCHANGED <<said, approved, events>>

UserNext ==
  \/ \E yes \in BOOLEAN : Decide(yes)
  \/ Submit
  \/ \E mode \in {"plan", "act"} : SwitchMode(mode)
  \/ Stop
  \/ CloseTab
=============================================================================
