------------------------------ MODULE HookLang ------------------------------
(***************************************************************************)
(* The rule language of .dhook files (di-core/src/hooks): lines become     *)
(* tokens, tokens statements, statements rules, and an event turns rules   *)
(* into actions.  Beside it stands what such a program means to a reader   *)
(* of Python, which it looks like.                                         *)
(*                                                                         *)
(* A statement is [act |-> a] or [if, then, else]; an action is a word.    *)
(* Words that are no keyword and no known name are strings, hence true; a   *)
(* string literal, and a list of them, is one word.                        *)
(***************************************************************************)
EXTENDS Integers, Sequences, FiniteSets

CONSTANTS Groups,      \* group(name, [...]): for each name its patterns, sets of files
          AsGlob,      \* the files that a name matches when it is read as a glob
          MatchOf,     \* the names in any_match(...) and all_match(...), by word
          Text,        \* string literals: the text of each
          Items,       \* list literals: the string literals in each
          RuleLimit,   \* max_rules (50)
          ActionLimit, \* max_actions_per_event (20)
          StepLimit    \* max_eval_steps (1000)

Comparison == {"==", "!=", "in"}
Keyword == {"if", "else", "elif", ":", "(", ")", "and", "or", "not", "True", "False"}
           \cup Comparison

-----------------------------------------------------------------------------
(* Lexer: a line is [col, words]; an empty line has column 0.              *)

\* handle_indent: odd columns are rounded down where that still opens a block.
Effective(width, top, col) ==
  LET even == (col \div width) * width
  IN  IF width > 0 /\ col % width # 0 /\ even > top THEN even ELSE col

\* handle_indent.  (A dedent to a column that opened no block is left out: it
\* pops the whole stack, and the next line panics.)
Opened(stack, width, col) ==
  LET top == stack[Len(stack)]
      eff == IF width = 0 THEN col ELSE Effective(width, top, col)
      Below == {i \in DOMAIN stack : stack[i] > eff}
  IN  CASE eff > top -> [stack |-> Append(stack, eff), out |-> <<">">>]
        [] eff < top -> [stack |-> SubSeq(stack, 1, Len(stack) - Cardinality(Below)),
                         out |-> [i \in 1..Cardinality(Below) |-> "<"]]
        [] OTHER     -> [stack |-> stack, out |-> <<>>]

RECURSIVE LexFrom(_, _, _)
LexFrom(lines, stack, width) ==
  IF lines = <<>> THEN Opened(stack, width, 0).out \o <<"eof">>
  ELSE LET l == Head(lines)
           w == IF width = 0 THEN l.col ELSE width
           o == Opened(stack, w, l.col)
       IN  o.out \o l.words \o <<"nl">> \o LexFrom(Tail(lines), o.stack, w)
Lex(lines) == LexFrom(lines, <<0>>, 0)

-----------------------------------------------------------------------------
(* Parser: each function takes tokens and gives [ok, tree, rest].          *)

Got(tree, ts) == [ok |-> TRUE, tree |-> tree, rest |-> ts]
Error == [ok |-> FALSE, tree |-> <<>>, rest |-> <<"eof">>]

Binary(op, l, r) == [op |-> op, l |-> l, r |-> r]
Atom(w) == [op |-> "atom", word |-> w]
Not(e) == Binary("==", Atom("False"), e)    \* what parse_not_expr builds

Closed(e) == IF e.ok /\ Head(e.rest) = ")" THEN Got(e.tree, Tail(e.rest)) ELSE Error
Negated(e) == IF e.ok THEN Got(Not(e.tree), e.rest) ELSE Error
Joined(op, l, r) == IF r.ok THEN Got(Binary(op, l.tree, r.tree), r.rest) ELSE Error
Before(op, l) == l.ok /\ Head(l.rest) = op

RECURSIVE ParseOr(_), OrMore(_), ParseAnd(_), AndMore(_), ParseNot(_)
ParsePrimary(ts) ==
  CASE Head(ts) = "(" -> Closed(ParseOr(Tail(ts)))
    [] Head(ts) \in (Keyword \ {"(", "True", "False"}) \cup {">", "<", "nl", "eof"} -> Error
    [] OTHER -> Got(Atom(Head(ts)), Tail(ts))
ParseNot(ts) ==
  IF Head(ts) = "not" THEN Negated(ParseNot(Tail(ts))) ELSE ParsePrimary(ts)
\* One comparison at most: a == b == c is no expression.  "not" is read
\* before it: not a == b is (not a) == b.
Compared(l) ==
  IF \E op \in Comparison : Before(op, l)
  THEN Joined(Head(l.rest), l, ParseNot(Tail(l.rest))) ELSE l
ParseComparison(ts) == Compared(ParseNot(ts))
AndMore(l) ==
  IF Before("and", l) THEN AndMore(Joined("and", l, ParseComparison(Tail(l.rest)))) ELSE l
ParseAnd(ts) == AndMore(ParseComparison(ts))
OrMore(l) ==
  IF Before("or", l) THEN OrMore(Joined("or", l, ParseAnd(Tail(l.rest)))) ELSE l
ParseOr(ts) == OrMore(ParseAnd(ts))

RECURSIVE SkipNewlines(_)
SkipNewlines(ts) == IF Head(ts) = "nl" THEN SkipNewlines(Tail(ts)) ELSE ts

Do(a) == [act |-> a]
If(c, then, else) == [if |-> c, then |-> then, else |-> else]
IsIf(s) == "if" \in DOMAIN s

RECURSIVE ParseBlock(_, _), ParseIf(_)
\* ":", a new line, a block one level in, and out again.
Left(b) == IF Before("<", b) THEN Got(b.tree, Tail(b.rest)) ELSE Error
Indented(ts) == IF Head(ts) = ">" THEN Left(ParseBlock(Tail(ts), <<>>)) ELSE Error
ParseSuite(ts) == IF Head(ts) = ":" THEN Indented(SkipNewlines(Tail(ts))) ELSE Error
\* After "elif" a second "if" is expected; else-if is the only chain there is.
Whole(c, t, e) == IF e.ok THEN Got(If(c.tree, t.tree, e.tree), e.rest) ELSE Error
AsBlock(s) == [s EXCEPT !.tree = <<@>>]
Otherwise(c, t) ==
  CASE ~t.ok -> Error
    [] t.ok /\ Head(t.rest) \notin {"else", "elif"} -> Got(If(c.tree, t.tree, <<>>), t.rest)
    [] OTHER -> Whole(c, t, IF Head(Tail(t.rest)) = "if"
                            THEN AsBlock(ParseIf(Tail(Tail(t.rest))))
                            ELSE ParseSuite(Tail(t.rest)))
Branches(c) == IF c.ok THEN Otherwise(c, ParseSuite(c.rest)) ELSE Error
ParseIf(ts) == Branches(ParseOr(ts))

More(done, s) == IF s.ok THEN ParseBlock(s.rest, Append(done, s.tree)) ELSE Error
ParseBlock(ts, done) ==
  CASE Head(ts) \in {"<", "eof"} -> Got(done, ts)
    [] Head(ts) = "nl" -> ParseBlock(Tail(ts), done)
    [] Head(ts) = "if" -> More(done, ParseIf(Tail(ts)))
    [] Head(ts) \in (Keyword \ {"if"}) \cup {">"} -> Error
    [] OTHER -> ParseBlock(SkipNewlines(Tail(ts)), Append(done, Do(Head(ts))))

\* The body of a handler: one suite, and nothing after it.
ParseBody(lines) ==
  LET b == Indented(Lex(lines)) IN IF b.rest = <<"eof">> THEN b ELSE Error

-----------------------------------------------------------------------------
(* Compiler: blocks become a list of rules [cond, acts].                   *)

Always == [op |-> "always"]

\* compile_actions: of an "if" inside a branch only the actions of its first
\* branch remain, and not its condition.
RECURSIVE Flatten(_)
Flatten(block) ==
  IF block = <<>> THEN <<>>
  ELSE (IF IsIf(Head(block)) THEN Flatten(Head(block).then) ELSE <<Head(block).act>>)
       \o Flatten(Tail(block))

RulesOf_ElseAlways(s) ==
  IF ~IsIf(s) THEN <<[cond |-> Always, acts |-> <<s.act>>]>>
  ELSE <<[cond |-> s.if, acts |-> Flatten(s.then)]>>
       \o IF s.else = <<>> THEN <<>> ELSE <<[cond |-> Always, acts |-> Flatten(s.else)]>>

RulesOf(s) ==
  IF ~IsIf(s) THEN <<[cond |-> Always, acts |-> <<s.act>>]>>
  ELSE <<[cond |-> s.if, acts |-> Flatten(s.then)]>>
       \o IF s.else = <<>> THEN <<>>
          ELSE <<[cond |-> [op |-> "not", l |-> s.if], acts |-> Flatten(s.else)]>>

RECURSIVE Compile(_)
Compile(block) ==
  IF block = <<>> THEN <<>> ELSE RulesOf(Head(block)) \o Compile(Tail(block))

-----------------------------------------------------------------------------
(* Evaluator.  ctx: the changed files and the observer that reported.      *)

\* A name is tried as a group and as a glob; a group that is not defined
\* matches nothing.
AnyMatch(n, files) ==
  \/ n \in DOMAIN Groups /\ \E p \in Groups[n] : p \cap files # {}
  \/ files \cap AsGlob[n] # {}
AllMatch(n, files) ==
  \/ n \in DOMAIN Groups /\ \A p \in Groups[n] : files \subseteq p
  \/ files \subseteq AsGlob[n]

\* A value is "T", "F", or a word: a string or a list.
AsBool(b) == IF b THEN "T" ELSE "F"
Truthy(v) == v # "F"
AtomValue(w, ctx) ==
  CASE w = "True" -> "T"
    [] w = "False" -> "F"
    [] w = "changed_files" -> AsBool(ctx.files # {})
    [] w \in DOMAIN MatchOf.any -> AsBool(AnyMatch(MatchOf.any[w], ctx.files))
    [] w \in DOMAIN MatchOf.all -> AsBool(AllMatch(MatchOf.all[w], ctx.files))
    [] w = "observer.name" -> AsBool(ctx.observer # "none")
    [] OTHER -> w

\* eval_observer_compare: only beside a string literal is it the name itself.
Naming(e, s) == e.op \in {"==", "!="} /\ {e.l, e.r} = {Atom("observer.name"), Atom(s)}
Named(e) == \E s \in DOMAIN Text : Naming(e, s)
NameValue(e, ctx) ==
  LET same == \E s \in DOMAIN Text : Naming(e, s) /\ Text[s] = ctx.observer
  IN  AsBool(same <=> e.op = "==")

\* "in" wants a string: a Bool, as observer.name is here, is in no list.
In(l, r) == /\ l \notin {"T", "F"} \cup DOMAIN Items
            /\ IF r \in DOMAIN Items THEN l \in Items[r] ELSE l = r
Apply(op, l, r) ==
  CASE op = "and" -> Truthy(l) /\ Truthy(r)
    [] op = "or"  -> Truthy(l) \/ Truthy(r)
    [] op = "=="  -> l = r
    [] op = "!="  -> l # r
    [] op = "in"  -> In(l, r)

\* eval_expr: a value and the steps so far; after the last step all is false.
RECURSIVE Eval(_, _, _)
Eval(e, ctx, steps) ==
  LET n == steps + 1 IN
  CASE e.op = "always" -> [v |-> "T", n |-> steps]
    [] e.op # "always" /\ n > StepLimit -> [v |-> "F", n |-> n]
    [] e.op = "atom" /\ n <= StepLimit -> [v |-> AtomValue(e.word, ctx), n |-> n]
    [] e.op = "not" /\ n <= StepLimit ->
         LET i == Eval(e.l, ctx, n) IN [v |-> AsBool(~Truthy(i.v)), n |-> i.n]
    [] e.op \in {"and", "or"} \cup Comparison /\ n <= StepLimit ->
         IF Named(e) THEN [v |-> NameValue(e, ctx), n |-> n]
         ELSE LET l == Eval(e.l, ctx, n)
                  r == Eval(e.r, ctx, l.n)
              IN  [v |-> AsBool(Apply(e.op, l.v, r.v)), n |-> r.n]

\* evaluate: the actions of the rules that match, as far as the limits go.
RECURSIVE Fired(_, _, _, _, _)
Fired(rules, ctx, count, steps, acts) ==
  IF rules = <<>> \/ count >= RuleLimit \/ Len(acts) >= ActionLimit THEN acts
  ELSE LET c == Eval(Head(rules).cond, ctx, steps)
           all == acts \o Head(rules).acts
           upto == IF Len(all) > ActionLimit THEN ActionLimit ELSE Len(all)
       IN  Fired(Tail(rules), ctx, count + 1, c.n,
                 IF Truthy(c.v) THEN SubSeq(all, 1, upto) ELSE acts)
Evaluate(rules, ctx) == Fired(rules, ctx, 0, 0, <<>>)

-----------------------------------------------------------------------------
(* What the program says to a reader.                                      *)

\* A condition of the source: <<"word", w>>, <<"not", c>>, <<"()", c>> in
\* parentheses, <<op, c, d>> with "and" and "or", and a comparison of two words.
Term(w, ctx) == CASE w = "observer.name" -> ctx.observer
                  [] w \in DOMAIN Text -> Text[w]
                  [] OTHER -> AtomValue(w, ctx)
Patterns(n) == IF n \in DOMAIN Groups THEN Groups[n] ELSE {AsGlob[n]}
WordHolds(w, ctx) ==
  CASE w \in DOMAIN MatchOf.any -> \E f \in ctx.files, p \in Patterns(MatchOf.any[w]) : f \in p
    [] w \in DOMAIN MatchOf.all -> \A f \in ctx.files : \E p \in Patterns(MatchOf.all[w]) : f \in p
    [] OTHER -> Truthy(AtomValue(w, ctx))
RECURSIVE Holds(_, _)
Holds(c, ctx) ==
  CASE c[1] = "word" -> WordHolds(c[2], ctx)
    [] c[1] = "not"  -> ~Holds(c[2], ctx)
    [] c[1] = "()"   -> Holds(c[2], ctx)
    [] c[1] = "and"  -> Holds(c[2], ctx) /\ Holds(c[3], ctx)
    [] c[1] = "or"   -> Holds(c[2], ctx) \/ Holds(c[3], ctx)
    [] c[1] = "=="   -> Term(c[2][2], ctx) = Term(c[3][2], ctx)
    [] c[1] = "!="   -> Term(c[2][2], ctx) # Term(c[3][2], ctx)
    [] c[1] = "in"   -> Term(c[2][2], ctx) \in {Text[i] : i \in Items[c[3][2]]}

RECURSIVE Meaning(_, _)
Meaning(block, ctx) ==
  IF block = <<>> THEN <<>>
  ELSE LET s == Head(block) IN
       (IF ~IsIf(s) THEN <<s.act>>
        ELSE Meaning(IF Holds(s.if, ctx) THEN s.then ELSE s.else, ctx))
       \o Meaning(Tail(block), ctx)

(* How a writer puts it down: parentheses where Python needs them.         *)
Level(c) == CASE c[1] = "or" -> 1 [] c[1] = "and" -> 2 [] c[1] = "not" -> 3
              [] c[1] \in Comparison -> 4 [] OTHER -> 5
RECURSIVE Words(_, _)
Words(c, least) ==
  LET bare == CASE c[1] = "word" -> <<c[2]>>
                [] c[1] = "not" -> <<"not">> \o Words(c[2], 3)
                [] c[1] = "()" -> <<"(">> \o Words(c[2], 1) \o <<")">>
                [] OTHER -> Words(c[2], Level(c)) \o <<c[1]>> \o Words(c[3], Level(c) + 1)
  IN  IF Level(c) < least THEN <<"(">> \o bare \o <<")">> ELSE bare

Line(depth, words) == [col |-> 4 * depth, words |-> words]
RECURSIVE Lines(_, _)
Lines(block, depth) ==
  IF block = <<>> THEN <<>>
  ELSE LET s == Head(block) IN
       (IF ~IsIf(s) THEN <<Line(depth, <<s.act>>)>>
        ELSE <<Line(depth, <<"if">> \o Words(s.if, 1) \o <<":">>)>> \o Lines(s.then, depth + 1)
             \o IF s.else = <<>> THEN <<>>
                ELSE <<Line(depth, <<"else", ":">>)>> \o Lines(s.else, depth + 1))
       \o Lines(Tail(block), depth)

\* No "if" inside a branch.
Flat(block) ==
  \A i \in DOMAIN block : IsIf(block[i]) =>
    \A s \in {block[i].then[k] : k \in DOMAIN block[i].then}
             \cup {block[i].else[k] : k \in DOMAIN block[i].else} : ~IsIf(s)

\* What the evaluator is known to read otherwise than Python: "not" before a
\* comparison without parentheses, "in", all_match of a group with several
\* patterns, and a file called like a group.
RECURSIVE Misread(_, _)
Misread(c, ctx) ==
  CASE c[1] = "word" ->
         \/ /\ c[2] \in DOMAIN MatchOf.all
            /\ Cardinality(Patterns(MatchOf.all[c[2]])) > 1
         \/ \E m \in {MatchOf.any, MatchOf.all} :
              /\ c[2] \in DOMAIN m
              /\ m[c[2]] \in DOMAIN Groups /\ ctx.files \cap AsGlob[m[c[2]]] # {}
    [] c[1] = "in" -> TRUE
    [] c[1] = "not" -> c[2][1] \in Comparison \/ Misread(c[2], ctx)
    [] OTHER -> \E i \in 2..Len(c) : Misread(c[i], ctx)
RECURSIVE Misreads(_, _)
Misreads(block, ctx) ==
  \E i \in DOMAIN block : /\ IsIf(block[i])
                          /\ \/ Misread(block[i].if, ctx)
                             \/ Misreads(block[i].then, ctx) \/ Misreads(block[i].else, ctx)

\* Conditions are never cut short, nor rules left out.
RECURSIVE Nodes(_)
Nodes(e) == CASE e.op = "always" -> 0
              [] e.op = "atom" -> 1
              [] e.op = "not" -> 1 + Nodes(e.l)
              [] OTHER -> 1 + Nodes(e.l) + Nodes(e.r)
RECURSIVE Steps(_)
Steps(rules) == IF rules = <<>> THEN 0 ELSE Nodes(Head(rules).cond) + Steps(Tail(rules))
Within(rules) == Len(rules) <= RuleLimit /\ Steps(rules) <= StepLimit

-----------------------------------------------------------------------------
(* What the loader gets from a handler's text.                             *)

RECURSIVE ActsOf(_)
ActsOf(block) ==
  IF block = <<>> THEN {}
  ELSE (IF IsIf(Head(block)) THEN ActsOf(Head(block).then) \cup ActsOf(Head(block).else)
        ELSE {Head(block).act}) \cup ActsOf(Tail(block))

\* HookLoader::parse.
Parsed(block) == ParseBody(Lines(block, 1))
RulesIn(block) == Compile(Parsed(block).tree)

Programs(blocks, contexts) ==
  [b \in blocks |->
     LET rules == RulesIn(b)
     IN  [ok |-> Parsed(b).ok, uses |-> ActsOf(b), does |-> [c \in contexts |-> Evaluate(rules, c)]]]
=============================================================================
