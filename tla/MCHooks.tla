------------------------------ MODULE MCHooks ------------------------------
(* Files "a" and "b", of which the group has patterns for each, and one that *)
(* is called like the group; repositories with one handler of every shape,   *)
(* and one with handlers for all events beside overlays that fit and clash.  *)
EXTENDS Hooks, HookLang

\* any_match("code"), all_match("code"), and the same of the glob "a*".
MCGroups == [code |-> {{"a"}, {"a", "b"}}]
MCAsGlob == [n \in {"code", "a*"} |-> IF n = "code" THEN {"code"} ELSE {"a"}]
MCMatchOf == [any |-> [any |-> "code", any_a |-> "a*"], all |-> [all |-> "code", all_a |-> "a*"]]
MCText == [w \in {"'critic'"} |-> "critic"]
MCItems == [w \in {"['critic']"} |-> {"'critic'"}]
MCChanges == {{}, {"a"}, {"b", "c"}, {"code"}}

Word(w) == <<"word", w>>
Name == Word("observer.name")
Critic == <<"==", Name, Word("'critic'")>>
Simple == {Word("any"), Word("changed_files"), Critic, Word("tool_ok")}
Conds == Simple \cup {<<"not", c>> : c \in Simple}
         \cup {<<op, Word("any"), <<"not", Word("changed_files")>>>> : op \in {"and", "or"}}
         \cup {<<"not", <<op, Word("any"), Word("False")>>>> : op \in {"and", "or"}}
         \cup {<<"and", <<"or", Word("any"), Word("True")>>, Word("changed_files")>>,
               <<"or", Word("any"), <<"and", Word("True"), Word("changed_files")>>>>,
               <<"not", <<"()", Critic>>>>, <<"and", Word("any_a"), <<"!=", Name, Word("'critic'")>>>>,
               <<"in", Name, Word("['critic']")>>, Word("all_a"), Word("all")}
Hint == <<Do("hint")>>
Branch == {Hint, <<Do("review"), Do("hint")>>}
Ifs == {If(c, t, e) : c \in Conds, t \in Branch, e \in {<<>>, <<Do("gate")>>}}
Nested == {If(Word("changed_files"), <<If(Word("any"), Hint, <<>>)>>, <<>>),
           If(Word("any"), Hint, <<If(Word("changed_files"), <<Do("gate")>>, Hint)>>)}
Blocks == {<<s>> : s \in Ifs \cup Nested}
          \cup {<<Do("hint"), s, Do("check")>> : s \in {x \in Ifs : x.else # <<>>}}

HookFile(on) == [on |-> on, binds |-> TRUE, group |-> FALSE, role |-> FALSE]
OneRule(b) == [repo |-> HookFile([e \in {"post_tool_use"} |-> b]), overlays |-> {NoFile}, fires |-> 3]

AskingDisk == [repo |->
  [on |-> [e \in {"session_start", "post_tool_use", "observer_result"} |->
             CASE e = "session_start" -> <<Do("check")>>
               [] e = "post_tool_use" -> <<If(Word("changed_files"), <<Do("check"), Do("review")>>, <<>>)>>
               [] e = "observer_result" -> <<If(Critic, <<Do("gate")>>, <<Do("review")>>)>>],
   binds |-> TRUE, group |-> TRUE, role |-> TRUE],
  overlays |->
    {NoFile,
     [on |-> [e \in {"user_prompt"} |-> <<Do("check"), Do("review"), Do("review")>>],
      binds |-> FALSE, group |-> FALSE, role |-> FALSE],
     [on |-> [e \in {"post_tool_use"} |-> <<Do("review")>>],
      binds |-> FALSE, group |-> FALSE, role |-> FALSE],
     [on |-> [e \in {"task_complete", "pre_finish"} |-> <<Do("check"), Do("gate")>>],
      binds |-> FALSE, group |-> FALSE, role |-> FALSE]},
  fires |-> 6]

MCDisks == {OneRule(b) : b \in Blocks} \cup {AskingDisk}
LangDisks == {OneRule(b) : b \in Blocks}

-----------------------------------------------------------------------------
(* The handlers there can be, as HookLang has them.                        *)

Texts == UNION {{g.on[e] : e \in Handles(g)} :
                g \in UNION {({d.repo} \cup d.overlays) \ {NoFile} : d \in MCDisks}}
MCProgram == Programs(Texts, Context)

Says(block, ctx) == Upto(Meaning(block, ctx), ActionLimit)

\* The rules of the handler that ran last are within the evaluator's limits.
Small == {b \in Texts : Within(RulesIn(b))} \cup {<<>>}
FiredWhole == fired.handler \in Small

\* A handler without an "if" inside a branch does what it says: its rules,
\* lexed, parsed, compiled and evaluated, give the actions that a reader of
\* the text expects, in order, up to the limit of actions.  Conditions that
\* the evaluator reads in a way of its own are excepted (Misread).
PlainRulesMeanIt ==
  /\ Flat(fired.handler) /\ FiredWhole /\ ~Misreads(fired.handler, fired.ctx)
  => fired.acts = Says(fired.handler, fired.ctx)

\* So does a handler with an "if" inside a branch ("Only if/elif/else
\* conditional statements are available", compiler.rs:453).
RulesMeanIt ==
  FiredWhole /\ ~Misreads(fired.handler, fired.ctx)
  => fired.acts = Says(fired.handler, fired.ctx)
=============================================================================
