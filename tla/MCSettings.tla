----------------------------- MODULE MCSettings -----------------------------
(* Instances of Settings for TLC: the start of the program, with a dialog  *)
(* in which the user changes nothing but roles and panels, and a user at   *)
(* every field of the dialog once the start is over and one agent runs.    *)
EXTENDS Settings

MCRoles == <<"act", "observer">>
MCListed == <<"p", "q">>
MCModels == [p \in {"p", "q"} |-> IF p = "p" THEN <<"m", "n">> ELSE <<"o">>]
RS(p, k, m, n) == [provider |-> p, key |-> k, model |-> m, number |-> n]
MCFiles ==
  {[roles |-> [r \in {"act", "observer"} |-> IF r = "act" THEN RS("p", "k", "n", None) ELSE rs],
    on |-> [r \in {"act", "observer"} |-> FALSE], theme |-> "dark"] :
     rs \in {NoRole, RS("p", None, "m", 2)}}
MCThemes == <<"dark", "light">>

Starting == Key \/ Esc \/ Open \/ NewAgent \/ Threads \/ TakeMessage
Choosing == Key \/ View \/ Esc \/ Open \/ Threads \/ TakeMessage

\* Everything the start has to send has arrived.
Settled ==
  /\ file \in Files
  /\ gateway = [k \in ToSet(Listed) \X Role |->
                  IF file.roles[k[2]].provider = k[1] THEN file.roles[k[2]] ELSE NoRole]
  /\ core = [inbox |-> <<>>, defaults |-> file.roles,
             agents |-> <<[roles |-> file.roles, on |-> FALSE]>>]
  /\ dlg = Closed
  /\ threads = <<>>
  /\ pressed = 0 /\ opened = 0 /\ trouble = 0
  /\ calm = TRUE
=============================================================================
