--------------------------- MODULE MCFrontendParts ---------------------------
(* The frontend's parts, one in each behaviour: the session of an agent    *)
(* with its user, the settings dialog, the text editors, and what the      *)
(* screen shows of the conversations.                                      *)
EXTENDS MCAgentSession, MCSettings, Editors, Conversation

\* A wide letter everywhere, and in the hooks editor one character of each class that
\* normalising or checking tells apart.
MCChar == [e \in {"input", "hooks", "secret", "path"} |->
  CASE e \in {"input", "secret"} -> {"x", "wide"}
    [] e = "hooks" -> {"x", "hint", "wide", ")", ":", Space, Quote, Backslash}
    [] e = "path" -> {"x", Space, ".."}]
MCPastes == [e \in {"input", "hooks", "secret", "path"} |->
  IF e = "path" THEN {<<Space, "x">>} ELSE {<<"x", "wide">>, <<NewLine, "wide">>}]
MCHookFiles == {<<>>, <<"wide", NewLine>>}

-----------------------------------------------------------------------------
VARIABLE part

partsVars == <<part, sessionVars, settingsVars, editorVars, talkVars>>

Session == part = "session" /\ SessionNext /\ UNCHANGED <<part, settingsVars, editorVars, talkVars>>
Settles == /\ \/ part = "start" /\ Starting
              \/ part = "dialog" /\ Choosing
           /\ UNCHANGED <<part, sessionVars, editorVars, talkVars>>

Edits == part = "editors" /\ EditorsNext /\ UNCHANGED <<part, sessionVars, settingsVars, talkVars>>

Watched == part = "view" /\ TalkNext /\ UNCHANGED <<part, sessionVars, settingsVars, editorVars>>

PartsInit ==
  /\ part \in {"session", "start", "dialog", "editors", "view"}
  /\ SessionInit
  /\ EditorsInit
  /\ TalkInit
  /\ part # "editors" => uses = "input"
  /\ part # "view" => width = "wide"
  /\ IF part = "dialog" THEN Settled ELSE SettingsInit
  /\ part \in {"session", "editors", "view"} => file = CHOOSE f \in Files : TRUE
PartsNext == Session \/ Settles \/ Edits \/ Watched

PartsSpec == PartsInit /\ [][PartsNext]_partsVars /\ SessionFairness
=============================================================================
