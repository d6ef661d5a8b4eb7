-------------------------------- MODULE Grammar --------------------------------
(* The parser of Mesh: the machine of mesh-parser (parser/mod.rs), and its *)
(* parse functions, each a program for the machine.                        *)
EXTENDS Integers, Sequences, FiniteSets, SequencesExt

(* The machine: a position in the tokens, the events, and build_tree.  A     *)
(* parse function of the grammar is a program: a sequence of operations      *)
(* [o, k, n, c, p], made by the operators below.                             *)
CONSTANTS Uppers, Ints, Atoms, Comments   \* the words of a text that are not identifiers in lower case

Newline == "nl"
Eof == "eof"
Keywords == {"if", "else", "do", "end", "case", "match", "when", "fn", "def", "let", "return", "while", "for", "in", "break",
             "continue", "true", "false", "nil", "and", "or", "not", "pub", "module", "import", "struct", "interface", "impl",
             "type", "where", "actor", "service", "supervisor", "terminate", "call", "cast", "spawn", "send", "receive", "after",
             "self", "link", "monitor", "json"}
Signs == {"(", ")", "[", "]", "{", "}", ",", ";", ":", "::", ".", "..", "=", "==", "=>", "->", "|", "|>", "|2>", "||", "&&", "!", "!=",
          "<", ">", "<=", ">=", "<>", "++", "+", "-", "*", "/", "%", "?", "@", "quote", "text", "${", "}$", "unquote", Newline, Eof}
Kind(t) == CASE t \in Keywords \/ t \in Signs -> t
             [] t \in Ints -> "int"
             [] t \in Atoms -> "atom"
             [] t \in Comments -> "comment"
             [] OTHER -> "ident"

Start(text) == [in |-> text, ks |-> [i \in DOMAIN text |-> Kind(text[i])], pos |-> 1, depth |-> [d \in {"(", "[", "{"} |-> 0], erred |-> FALSE,
                quiet |-> FALSE, ev |-> <<>>, mark |-> 0, none |-> FALSE, as |-> "", ret |-> 0, brk |-> FALSE, fuel |-> 2000]

is_newline_insignificant(s) == \E d \in DOMAIN s.depth : s.depth[d] > 0
Skipped(s) == IF is_newline_insignificant(s) THEN {"comment", Newline} ELSE {"comment"}

(* The place of the n-th token from i on that is of none of the kinds.       *)
RECURSIVE Seek(_, _, _, _)
Seek(s, i, kinds, n) ==
    CASE i > Len(s.in) -> i
      [] i <= Len(s.in) /\ s.ks[i] \in kinds -> Seek(s, i + 1, kinds, n)
      [] OTHER -> IF n = 0 THEN i ELSE Seek(s, i + 1, kinds, n - 1)
Kinds(s, i) == IF i \in DOMAIN s.ks THEN s.ks[i] ELSE Eof
nth(s, n) == Kinds(s, Seek(s, s.pos, Skipped(s), n))
at(s, kinds) == nth(s, 0) \in kinds
Word(s) == LET i == Seek(s, s.pos, Skipped(s), 0) IN IF i \in DOMAIN s.in THEN s.in[i] ELSE Eof
peek_past_newlines(s) == Kinds(s, Seek(s, s.pos, {"comment", Newline}, 0))

Open == [e |-> "open", k |-> "", fp |-> 0]
Close == [Open EXCEPT !.e = "close"]
Advance == [Open EXCEPT !.e = "advance"]
Passed(s, i) == [s EXCEPT !.ev = @ \o [j \in 1..(i - s.pos) |-> Advance], !.pos = i]
PastAll(s, kinds) == Passed(s, Seek(s, s.pos, kinds, 0))

update_delimiter_depth_NoBrace(depth, t) ==
    [d \in DOMAIN depth |->
        IF t = d THEN depth[d] + 1
        ELSE IF <<d, t>> \in {<<"(", ")">>, <<"[", "]">>} /\ depth[d] > 0 THEN depth[d] - 1 ELSE depth[d]]

update_delimiter_depth(depth, t) ==
    [d \in DOMAIN depth |->
        IF t = d THEN depth[d] + 1
        ELSE IF <<d, t>> \in {<<"(", ")">>, <<"[", "]">>, <<"{", "}">>} /\ depth[d] > 0 THEN depth[d] - 1 ELSE depth[d]]

advance(s) ==
    LET m == PastAll(s, Skipped(s))
    IN IF m.pos > Len(m.in) THEN m
       ELSE [Passed(m, m.pos + 1) EXCEPT !.depth = update_delimiter_depth(@, m.in[m.pos])]

eat_newlines(s) == PastAll(s, IF is_newline_insignificant(s) THEN {"comment"} ELSE {"comment", Newline})

skip_newlines_for_continuation(s) == PastAll(s, {"comment", Newline})

error(s) == [s EXCEPT !.erred = TRUE]

open(s) == [s EXCEPT !.ev = Append(@, Open)]
open_before(s) == [s EXCEPT !.ev = Append([@ EXCEPT ![s.mark].fp = Len(s.ev) + 1], Open)]
close(s, i, k) ==
    [s EXCEPT !.ev = Append([@ EXCEPT ![i].k = IF s.as = "" THEN k ELSE s.as], Close), !.mark = i, !.none = FALSE,
              !.as = "", !.ret = IF @ > 0 THEN @ - 1 ELSE 0]

-----------------------------------------------------------------------------
(* Operations and conditions.                                                *)
Op(o, k, n, c, p) == [o |-> o, k |-> k, n |-> n, c |-> c, p |-> p]
Test(c, n, ks, a) == [c |-> c, n |-> n, ks |-> ks, a |-> a]
Always == Test("always", 0, {}, <<>>)
At(k) == Test("at", 0, {k}, <<>>)
AtAny(ks) == Test("at", 0, ks, <<>>)
Nth(n, ks) == Test("at", n, ks, <<>>)
Text(words) == Test("text", 0, words, <<>>)
Both(a, b) == Test("and", 0, {}, <<a, b>>)
Either(a, b) == Test("or", 0, {}, <<a, b>>)
No(a) == Test("not", 0, {}, <<a>>)
Erred == Test("erred", 0, {}, <<>>)
Loud == Test("loud", 0, {}, <<>>)
Upper == Test("upper", 0, {}, <<>>)
Variants(n) == Test("variants", n, {}, <<>>)

Adv == Op("adv", "", 0, Always, <<>>)
Eat(k) == Op("eat", k, 0, Always, <<>>)
Expect(k) == Op("expect", k, 0, Always, <<>>)
Error == Op("error", "", 0, Always, <<>>)
Nothing == Op("nothing", "", 0, Always, <<>>)       \* an error, and no node
Newlines == Op("newlines", "", 0, Always, <<>>)
Continuation == Op("continuation", "", 0, Always, <<>>)
Node(k, p) == Op("node", k, 0, Always, p)
Wrap(k, p) == Op("wrap", k, 0, Always, p)           \* around the node closed last, if there is one
As(k) == Op("as", k, 0, Always, <<>>)               \* the kind the node around is closed as
Call(f) == Op("call", f, 0, Always, <<>>)
Expr(n) == Op("expr", "", n, Always, <<>>)
Quiet(p) == Op("quiet", "", 0, Always, p)
When(c, p) == Op("if", "", 0, c, <<p, <<>>>>)
Choose(c, p, q) == Op("if", "", 0, c, <<p, q>>)
While(c, p) == Op("while", "", 0, c, p)
Loop(p) == While(Always, p)
Break == Op("break", "", 0, Always, <<>>)
Return(n) == Op("return", "", n, Always, <<>>)      \* closing n nodes
Bail == When(Erred, <<Break>>)

(* type Name<...> do, not type Name<...> =: after the name, or after what    *)
(* closes the angle bracket that follows it.                                 *)
RECURSIVE Angled(_, _, _)
Angled(s, n, depth) ==
    CASE depth = 0 \/ nth(s, n) = Eof -> n
      [] nth(s, n) = "<" -> Angled(s, n + 1, depth + 1)
      [] nth(s, n) = ">" -> Angled(s, n + 1, depth - 1)
      [] OTHER -> Angled(s, n + 1, depth)

RECURSIVE Holds(_, _)
Holds(s, c) ==
    CASE c.c = "always" -> TRUE
      [] c.c = "at" -> nth(s, c.n) \in c.ks
      [] c.c = "text" -> at(s, {"ident"}) /\ Word(s) \in c.ks
      [] c.c = "and" -> Holds(s, c.a[1]) /\ Holds(s, c.a[2])
      [] c.c = "or" -> Holds(s, c.a[1]) \/ Holds(s, c.a[2])
      [] c.c = "not" -> ~Holds(s, c.a[1])
      [] c.c = "erred" -> s.erred
      [] c.c = "loud" -> ~s.quiet
      [] c.c = "upper" -> Word(s) \in Uppers
      [] c.c = "variants" -> nth(s, IF nth(s, c.n) = "<" THEN Angled(s, c.n + 1, 1) ELSE c.n) = "do"
-----------------------------------------------------------------------------
(* build_tree: a leaf is a token, a node is a kind with its children.        *)
Leaf(t) == [k |-> "", t |-> t, c |-> <<>>]
Tree(k, c) == [k |-> k, t |-> "", c |-> c]
Parents(ev) == {ev[i].fp : i \in DOMAIN ev} \ {0}

RECURSIVE Chain(_, _)
Chain(ev, i) == (IF ev[i].fp = 0 THEN <<>> ELSE Chain(ev, ev[i].fp)) \o <<ev[i].k>>

Grown(stack, n) == [stack EXCEPT ![Len(stack)].c = Append(@, n)]

RECURSIVE Built(_, _, _)
Built(s, acc, i) ==
    CASE i > Len(s.ev) -> acc
      [] i <= Len(s.ev) /\ s.ev[i].e = "open" ->
             Built(s, IF i \in acc.wrappers THEN acc
                      ELSE [acc EXCEPT !.st = @ \o [j \in DOMAIN Chain(s.ev, i) |-> Tree(Chain(s.ev, i)[j], <<>>)]], i + 1)
      [] i <= Len(s.ev) /\ s.ev[i].e = "advance" -> Built(s, [acc EXCEPT !.st = Grown(@, Leaf(s.in[acc.tok])), !.tok = @ + 1], i + 1)
      [] OTHER -> Built(s, [acc EXCEPT !.st = Grown(Front(@), Last(@))], i + 1)
build_tree(s) == Built(s, [st |-> <<Tree("", <<>>)>>, tok |-> 1, wrappers |-> Parents(s.ev)], 1).st[1].c[1]

RECURSIVE Leaves(_)
Leaves(n) == IF n.k = "" THEN <<n.t>> ELSE FlattenSeq([i \in DOMAIN n.c |-> Leaves(n.c[i])])

-----------------------------------------------------------------------------
(* The parse functions (parser/expressions.rs, patterns.rs, items.rs,        *)
(* mod.rs).                                                                  *)
Ending(k) == Choose(At(k), <<Adv>>, <<Error>>)     \* `end`, or an error that points back
Naming == Node("NAME", <<Adv>>)
NameOr(n) == Choose(At("ident"), <<Naming>>, <<Error, Return(n)>>)
Annotation == Node("TYPE_ANNOTATION", <<Adv, Call("type")>>)
Annotated(k) == When(At(k), <<Annotation>>)
(* p, and more of it after commas, up to a trailing comma or the end.        *)
Separated(p, ends) == p \o <<While(At(","), <<Adv, When(AtAny(ends), <<Break>>)>> \o p)>>
List(p, end) == <<When(No(At(end)), Separated(p, {end}))>>
Literals == {"int", "true", "false", "nil"}
Negative == Both(At("-"), Nth(1, {"int"}))

Sequence_NoBail(ends, p) ==
    Loop(<<Newlines, While(At(";"), <<Adv, Newlines>>), When(AtAny(ends \cup {Eof}), <<Break>>)>>
         \o p \o <<When(At(Newline), <<Newlines>>)>>)

(* Statements up to one of ends.                                             *)
Sequence(ends, p) ==
    Loop(<<Newlines, While(At(";"), <<Adv, Newlines>>), When(AtAny(ends \cup {Eof}), <<Break>>)>>
         \o p \o <<Bail, When(At(Newline), <<Newlines>>)>>)

Statements(ends, p) == Node("BLOCK", <<Sequence(ends, p)>>)
parse_block_body == <<Statements({"end", "else"}, <<Call("item_or_stmt")>>)>>
parse_item_block_body == <<Statements({"end", "else"}, <<Call("item_or_stmt")>>)>>
DoBlock == <<Expect("do"), Call("block_body"), Ending("end")>>

-----------------------------------------------------------------------------
(* Expressions.                                                              *)
infix_binding_power_Level(k) ==
    CASE k \in {"|>", "|2>"} -> <<3, 4>>
      [] k \in {"or", "||", "and", "&&"} -> <<5, 6>>
      [] k \in {"==", "!=", "<", ">", "<=", ">="} -> <<9, 10>>
      [] k \in {"..", "<>", "++", "+", "-"} -> <<13, 14>>
      [] k \in {"*", "/", "%"} -> <<19, 20>>
      [] OTHER -> <<0, 0>>

infix_binding_power(k) ==
    CASE k \in {"|>", "|2>"} -> <<3, 4>>
      [] k \in {"or", "||"} -> <<5, 6>>
      [] k \in {"and", "&&"} -> <<7, 8>>
      [] k \in {"==", "!="} -> <<9, 10>>
      [] k \in {"<", ">", "<=", ">="} -> <<11, 12>>
      [] k = ".." -> <<13, 14>>
      [] k \in {"<>", "++"} -> <<15, 16>>
      [] k \in {"+", "-"} -> <<17, 18>>
      [] k \in {"*", "/", "%"} -> <<19, 20>>
      [] OTHER -> <<0, 0>>                      \* no operator

prefix_binding_power(k) == IF k \in {"-", "!", "not"} THEN 23 ELSE 0
FieldNames == {"ident", "self", "monitor", "spawn", "link", "send", "where", "cast"}

FieldInit == <<When(No(Erred), <<Expr(0)>>)>>
(* name: value, with commas that may be left out.                            *)
Fields(kind, name) ==
    Loop(<<When(AtAny({"}", Eof}), <<Break>>),
           Node(kind, <<Choose(At("ident"), name, <<Error, Return(1)>>), Expect(":")>> \o FieldInit), Bail,
           Choose(At(","), <<Adv>>, <<When(AtAny({"}", Eof}), <<Break>>)>>)>>)
parse_struct_literal_body == <<Adv, Fields("STRUCT_LITERAL_FIELD", <<Naming>>), Expect("}")>>
parse_json_literal ==
    <<Node("JSON_EXPR", <<Adv, Expect("{"), When(At("}"), <<Adv, Return(1)>>), Fields("JSON_FIELD", <<Adv>>), Expect("}")>>)>>

NextEntry == <<Node("MAP_ENTRY", <<Expr(0), Expect("=>")>> \o FieldInit), Bail>>
parse_map_literal ==
    <<Node("MAP_LITERAL",
           <<Adv, Expect("{"), When(At("}"), <<Adv, Return(1)>>), Expr(0),
             When(Erred, <<Expect("}"), Return(1)>>),
             When(At("|"), <<Adv, Fields("STRUCT_LITERAL_FIELD", <<Naming>>), Expect("}"), As("STRUCT_UPDATE_EXPR"), Return(1)>>),
             Wrap("MAP_ENTRY", <<Expect("=>")>> \o FieldInit),
             When(Erred, <<Expect("}"), Return(1)>>),
             While(At(","), <<Adv, When(AtAny({"}", Eof}), <<Break>>)>> \o NextEntry), Expect("}")>>)>>

at_keyword_arg == Both(At("ident"), Nth(1, {":"}))
parse_keyword_entry == <<Node("MAP_ENTRY", <<Node("NAME_REF", <<Adv>>), Adv>> \o FieldInit)>>
parse_keyword_args_as_map == <<Node("MAP_LITERAL", Separated(parse_keyword_entry, {")"}))>>
parse_arg_list ==
    <<Node("ARG_LIST",
           <<Adv,
             When(No(At(")")),
                  <<Choose(at_keyword_arg, parse_keyword_args_as_map,
                           <<Expr(0), While(At(","), <<Adv, When(At(")"), <<Break>>),
                                                       When(at_keyword_arg, parse_keyword_args_as_map \o <<Break>>), Expr(0)>>)>>)>>),
             Expect(")")>>)>>

parse_string_expr ==
    <<Node("STRING_EXPR",
           <<Adv, Loop(<<Choose(At("text"), <<Adv>>,
                         <<Choose(At("${"), <<Node("INTERPOLATION", <<Adv, Expr(0), Expect("}$")>>)>>,
                           <<Choose(At("unquote"), <<Adv, Break>>, <<Error, Break>>)>>)>>)>>)>>)>>

parse_let_binding ==
    <<Node("LET_BINDING",
           <<Adv, Choose(At("("), <<Call("pattern")>>, <<Choose(At("ident"), <<Naming>>, <<Error>>)>>), Annotated("::"), Expect("=")>> \o FieldInit)>>
looks_like_expr_start == No(AtAny({Newline, "end", "else", Eof, ";"}))
parse_return_expr == <<Node("RETURN_EXPR", <<Adv, When(looks_like_expr_start, <<Expr(0)>>)>>)>>

Condition_Loud == Expr(0)

Condition == Quiet(<<Expr(0)>>)

parse_if_expr ==
    <<Node("IF_EXPR",
           <<Adv, Condition, Expect("do"), Call("block_body"),
             Choose(At("else"),
                    <<Node("ELSE_BRANCH", <<Adv, Choose(At("if"), <<Call("if_expr")>>, <<Call("block_body"), Expect("end")>>)>>)>>,
                    <<Ending("end")>>)>>)>>

Guard == When(At("when"), <<Adv, Expr(0)>>)
parse_match_arm ==
    <<Node("MATCH_ARM",
           <<Call("pattern"), Guard, Expect("->"),
             When(No(Erred), <<Choose(At("do"), <<Adv, Call("block_body"), Ending("end")>>, <<Expr(0)>>)>>)>>)>>
parse_case_expr ==
    <<Node("CASE_EXPR",
           <<Adv, Condition, Expect("do"),
             Loop(<<Newlines, When(AtAny({"end", Eof}), <<Break>>)>> \o parse_match_arm \o <<Bail>>), Ending("end")>>)>>

Guarding == When(At("when"), <<Node("GUARD_CLAUSE", <<Adv, Expr(0)>>)>>)
looks_like_bare_closure_params ==
    Either(Both(At("ident"),
                Either(Text({"_"}), Either(Both(Upper, Nth(1, {"("})), Nth(1, {",", "->", "when", "do", "::"})))),
           Either(AtAny(Literals \cup {"quote"}), Negative))
parse_bare_closure_params ==
    <<Node("PARAM_LIST",
           <<Call("fn_clause_param"),
             While(At(","), <<Adv, When(AtAny({"->", "when", "do"}), <<Break>>), Call("fn_clause_param")>>)>>)>>
ArrowBody == <<Adv, When(No(Erred), <<Node("BLOCK", <<Expr(0)>>)>>)>>
parse_closure_body_block == <<Adv, When(No(Erred), <<Call("block_body")>>)>>
parse_closure_clause ==
    <<Node("CLOSURE_CLAUSE",
           <<Adv,
             Choose(At("("), <<Call("fn_clause_param_list")>>, <<When(looks_like_bare_closure_params, parse_bare_closure_params)>>),
             Guarding,
             Choose(At("->"), ArrowBody, <<Choose(At("do"), <<Adv, Call("block_body"), Ending("end")>>, <<Error>>)>>)>>)>>
parse_closure ==
    <<Node("CLOSURE_EXPR",
           <<Adv,
             When(AtAny({"->", "do"}), parse_closure_body_block \o <<Ending("end"), Return(1)>>),
             Choose(At("("), <<Call("fn_clause_param_list")>>,
                    <<Choose(looks_like_bare_closure_params, parse_bare_closure_params, <<Error, Return(1)>>)>>),
             Guarding,
             Choose(At("->"), ArrowBody \o <<While(At("|"), parse_closure_clause \o <<Bail>>), Ending("end")>>,
                    <<Choose(At("do"), <<Adv, Call("block_body"), Ending("end")>>, <<Error>>)>>)>>)>>

parse_param == <<Node("PARAM", <<Choose(AtAny({"ident", "self"}), <<Adv>>, <<Error>>), Annotated("::")>>)>>
parse_param_list == <<Node("PARAM_LIST", <<Adv>> \o List(parse_param, ")") \o <<Expect(")")>>)>>
parse_fn_clause_param ==
    <<Node("PARAM",
           <<Choose(Either(AtAny(Literals \cup {"quote", "("}), Negative), <<Call("pattern")>>,
              <<Choose(At("ident"),
                  <<Choose(Either(Text({"_"}), Both(Upper, Nth(1, {"(", "."}))), <<Call("pattern")>>, <<Adv, Annotated("::")>>)>>,
                  <<Choose(At("self"), <<Adv>>, <<Error>>)>>)>>)>>)>>
parse_fn_clause_param_list == <<Node("PARAM_LIST", <<Adv>> \o List(<<Call("fn_clause_param")>>, ")") \o <<Expect(")")>>)>>

parse_trailing_closure ==
    <<Node("TRAILING_CLOSURE",
           <<Adv, When(At("|"), <<Adv, Node("PARAM_LIST", List(parse_param, "|")), Choose(At("|"), <<Adv>>, <<Error>>)>>),
             Call("block_body"), Ending("end")>>)>>

parse_while_expr == <<Node("WHILE_EXPR", <<Adv, Condition>> \o DoBlock)>>
parse_break_expr == <<Node("BREAK_EXPR", <<Adv>>)>>
parse_continue_expr == <<Node("CONTINUE_EXPR", <<Adv>>)>>
parse_for_in_expr ==
    <<Node("FOR_IN_EXPR",
           <<Adv,
             Choose(At("{"), <<Node("DESTRUCTURE_BINDING", <<Adv>> \o Separated(<<When(At("ident"), <<Naming>>)>>, {"}"}) \o <<Expect("}")>>)>>,
                    <<Choose(At("ident"), <<Naming>>, <<Error>>)>>),
             Expect("in"), When(No(Erred), <<Condition>>), Guard>> \o DoBlock)>>

WithArgs(k) == <<Node(k, <<Adv, Choose(At("("), <<Call("arg_list")>>, <<Error>>)>>)>>
parse_spawn_expr == WithArgs("SPAWN_EXPR")
parse_send_expr == WithArgs("SEND_EXPR")
parse_link_expr == WithArgs("LINK_EXPR")
parse_self_expr == <<Node("SELF_EXPR", <<Adv, Expect("("), Expect(")")>>)>>
parse_receive_arm == <<Node("RECEIVE_ARM", <<Call("pattern"), Guard, Expect("->")>> \o FieldInit)>>
parse_after_clause == <<Node("AFTER_CLAUSE", <<Adv, Expr(0), Expect("->")>> \o FieldInit)>>
parse_receive_expr ==
    <<Node("RECEIVE_EXPR",
           <<Adv, Expect("do"),
             Loop(<<Newlines, When(AtAny({"end", Eof}), <<Break>>), When(At("after"), parse_after_clause \o <<Break>>)>>
                  \o parse_receive_arm \o <<Bail>>),
             Ending("end")>>)>>

Grouped == <<Node("TUPLE_EXPR", <<Adv, When(At(")"), <<Adv, Return(1)>>)>> \o Separated(<<Expr(0)>>, {")"}) \o <<Expect(")")>>)>>
Listed == <<Node("LIST_LITERAL", <<Adv>> \o List(<<Expr(0)>>, "]") \o <<Expect("]")>>)>>
Single(k) == <<Node(k, <<Adv>>)>>
lhs(k) ==
    CASE k \in Literals -> Single("LITERAL")
      [] prefix_binding_power(k) > 0 -> <<Node("UNARY_EXPR", <<Adv, Expr(prefix_binding_power(k))>>)>>
      [] k = "atom" -> Single("ATOM_EXPR")
      [] k = "ident" -> Single("NAME_REF")
      [] k = "json" -> parse_json_literal
      [] k = "quote" -> parse_string_expr
      [] k = "(" -> Grouped
      [] k = "[" -> Listed
      [] k = "if" -> parse_if_expr
      [] k \in {"case", "match"} -> parse_case_expr
      [] k = "fn" -> parse_closure
      [] k = "%" -> <<Choose(Nth(1, {"{"}), parse_map_literal, <<Nothing>>)>>
      [] k = "while" -> parse_while_expr
      [] k = "for" -> parse_for_in_expr
      [] k = "break" -> parse_break_expr
      [] k = "continue" -> parse_continue_expr
      [] k = "spawn" -> parse_spawn_expr
      [] k = "send" -> parse_send_expr
      [] k = "receive" -> parse_receive_expr
      [] k = "link" -> parse_link_expr
      [] k = "self" -> <<Choose(Nth(1, {"("}), parse_self_expr, Single("NAME_REF"))>>
      [] OTHER -> <<Nothing>>

Postfix(k) ==
    CASE k = "{" -> <<Wrap("STRUCT_LITERAL", parse_struct_literal_body)>>
      [] k = "(" -> <<Wrap("CALL_EXPR", <<Call("arg_list"), When(Both(At("do"), Loud), parse_trailing_closure)>>)>>
      [] k = "." -> <<Wrap("FIELD_ACCESS", <<Adv, Choose(AtAny(FieldNames), <<Adv>>, <<Error>>)>>)>>
      [] k = "[" -> <<Wrap("INDEX_EXPR", <<Adv, Expr(0), Expect("]")>>)>>
      [] k = "?" -> <<Wrap("TRY_EXPR", <<Adv>>)>>
InfixKind(k) == CASE k = "|>" -> "PIPE_EXPR" [] k = "|2>" -> "SLOT_PIPE_EXPR" [] OTHER -> "BINARY_EXPR"
Infix_OneLine(k) == <<Wrap(InfixKind(k), <<Adv, Expr(infix_binding_power(k)[2])>>)>>

Infix(k) ==
    <<Wrap(InfixKind(k), <<Adv>> \o (IF k \in {"|>", "|2>"} THEN <<Continuation>> ELSE <<>>) \o <<Expr(infix_binding_power(k)[2])>>)>>
-----------------------------------------------------------------------------
(* Patterns.                                                                 *)
parse_as_pattern ==
    <<Call("cons_pattern"),
      When(Text({"as"}), <<Wrap("AS_PAT", <<Adv, Choose(At("ident"), <<Node("IDENT_PAT", <<Adv>>)>>, <<Error>>)>>)>>)>>
parse_cons_pattern == <<Call("or_pattern"), When(At("::"), <<Wrap("CONS_PAT", <<Adv, Call("cons_pattern")>>)>>)>>
parse_or_pattern ==
    <<Call("primary_pattern"), When(At("|"), <<Wrap("OR_PAT", <<While(At("|"), <<Adv, Call("primary_pattern")>>)>>)>>)>>
Arguments == <<When(At("("), <<Adv>> \o List(<<Call("pattern")>>, ")") \o <<Expect(")")>>)>>
parse_primary_pattern ==
    <<Choose(Text({"_"}), Single("WILDCARD_PAT"),
      <<Choose(AtAny(Literals), Single("LITERAL_PAT"),
        <<Choose(At("quote"),
            <<Node("LITERAL_PAT", <<Adv, While(At("text"), <<Adv>>), Ending("unquote")>>)>>,
          <<Choose(Negative, <<Node("LITERAL_PAT", <<Adv, Adv>>)>>,
            <<Choose(At("("), <<Node("TUPLE_PAT", Arguments)>>,
              <<Choose(At("ident"),
                  <<Choose(Both(Nth(1, {"."}), Nth(2, {"ident"})), <<Node("CONSTRUCTOR_PAT", <<Adv, Adv, Adv>> \o Arguments)>>,
                    <<Choose(Both(Upper, Nth(1, {"("})), <<Node("CONSTRUCTOR_PAT", <<Adv>> \o Arguments)>>, Single("IDENT_PAT"))>>)>>,
                  <<Nothing>>)>>)>>)>>)>>)>>)>>

-----------------------------------------------------------------------------
(* Declarations.                                                             *)
Public == When(At("pub"), Single("VISIBILITY"))
Params == When(At("("), <<Call("fn_clause_param_list")>>)
PlainParams == When(At("("), parse_param_list)
parse_generic_param_list ==
    When(At("<"), <<Node("GENERIC_PARAM_LIST", <<Adv>> \o List(<<Expect("ident")>>, ">") \o <<Expect(">")>>)>>)
parse_module_path == <<Node("PATH", <<Choose(At("ident"), <<Adv, While(At("."), <<Adv, Expect("ident")>>)>>, <<Error>>)>>)>>
TypeArgs == When(At("<"), <<Node("GENERIC_ARG_LIST", <<Adv>> \o List(<<Call("type")>>, ">") \o <<Expect(">")>>)>>)
TypeTuple == <<Adv>> \o List(<<Call("type")>>, ")") \o <<Expect(")")>>
parse_type ==
    <<Choose(At("("), TypeTuple,
      <<Choose(Both(Text({"Fun"}), Nth(1, {"("})),
          <<Node("FUN_TYPE", <<Adv>> \o TypeTuple \o <<Expect("->"), When(No(Erred), <<Call("type")>>)>>)>>,
          <<Choose(At("ident"),
              <<Adv, While(At("."), <<Adv, Expect("ident")>>), TypeArgs, When(At("?"), <<Adv>>), When(At("!"), <<Adv, Call("type")>>)>>,
              <<Error>>)>>)>>)>>

parse_trait_bound ==
    <<Node("TRAIT_BOUND",
           <<Expect("ident"), Expect(":"),
             When(No(Erred), <<Choose(At("ident"), <<Adv, While(At("."), <<Adv, Expect("ident")>>)>>, <<Error>>)>>)>>)>>
parse_where_clause ==
    When(At("where"), <<Node("WHERE_CLAUSE", <<Adv>> \o parse_trait_bound \o <<While(At(","), <<Adv>> \o parse_trait_bound)>>)>>)

starts_clustered_fn_def == Either(At("@"), Both(Text({"clustered"}), Nth(1, {"(", "pub", "fn", "def", "ident"})))
recover_cluster_decorator_args == <<While(No(AtAny({")", Eof, Newline, "pub", "fn", "def"})), <<Adv>>)>>
parse_cluster_decorator_decl ==
    <<Node("CLUSTER_DECORATOR_DECL",
           <<Adv,
             Choose(Text({"cluster"}), <<Adv>>, <<Error, Eat("ident"), As("ERROR_NODE"), Return(1)>>),
             When(At("("),
                  <<Adv, Choose(At("int"), <<Adv, When(No(At(")")), <<Error>> \o recover_cluster_decorator_args)>>,
                                <<Error>> \o recover_cluster_decorator_args),
                    Choose(At(")"), <<Adv>>, <<Error>>)>>),
             When(Erred, <<As("ERROR_NODE")>>)>>)>>
parse_legacy_clustered_work_decl ==
    <<Node("ERROR_NODE",
           <<Adv,
             Choose(At("("), <<Adv, While(No(AtAny({Eof, Newline, "pub", "fn", "def", ")"})), <<Adv>>), Eat(")")>>,
                    <<While(No(AtAny({Eof, Newline, "pub", "fn", "def"})), <<Adv>>)>>),
             Error>>)>>
parse_fn_def ==
    <<Node("FN_DEF",
           <<Choose(At("@"), parse_cluster_decorator_decl, <<When(Text({"clustered"}), parse_legacy_clustered_work_decl)>>),
             Public, Choose(AtAny({"fn", "def"}), <<Adv>>, <<Error, Return(1)>>), NameOr(1),
             parse_generic_param_list, Params, Annotated("->"), parse_where_clause, Guarding,
             Choose(At("="), <<Adv, Node("FN_EXPR_BODY", <<Expr(0)>>)>>,
                    <<Choose(At("do"), <<Adv, Call("item_block_body"), Ending("end")>>, <<Error>>)>>)>>)>>

Body(p) == <<Expect("do"), When(No(Erred), p), Ending("end")>>
Lines(p) == <<Loop(<<Newlines, When(AtAny({"end", Eof}), <<Break>>)>> \o p \o <<Bail>>)>>
parse_module_def == <<Node("MODULE_DEF", <<Public, Adv, NameOr(1)>> \o Body(<<Call("item_block_body")>>))>>
parse_import_decl == <<Node("IMPORT_DECL", <<Adv>> \o parse_module_path)>>
Imports ==
    <<When(At("*"), <<Error, Return(2)>>),
      Choose(At("ident"),
             <<Naming, While(At(","), <<Adv, When(AtAny({Newline, Eof, ")"}), <<Break>>), Node("NAME", <<Expect("ident")>>)>>)>>,
             <<Error>>)>>
parse_from_import_decl ==
    <<Node("FROM_IMPORT_DECL",
           <<Adv>> \o parse_module_path \o
           <<Expect("import"),
             When(No(Erred),
                  <<Node("IMPORT_LIST",
                         <<Choose(At("("), <<Adv>> \o Imports \o <<Expect(")")>>, Imports)>>)>>)>>)>>

parse_deriving_clause ==
    When(Text({"deriving"}),
         <<Node("DERIVING_CLAUSE",
                <<Adv, Expect("("),
                  Loop(<<When(AtAny({")", Eof}), <<Break>>), Choose(At("ident"), <<Adv>>, <<Error, Break>>),
                         Choose(At(","), <<Adv>>, <<Break>>)>>), Expect(")")>>)>>)
parse_struct_field == <<Node("STRUCT_FIELD", <<NameOr(1), Annotated("::")>>)>>
parse_relationship_decl ==
    <<Node("RELATIONSHIP_DECL",
           <<Adv, Choose(At("atom"), <<Adv>>, <<Error, Return(1)>>), Expect(","),
             When(No(Erred), <<Choose(At("ident"), <<Adv>>, <<Error>>)>>)>>)>>
parse_schema_option ==
    <<Node("SCHEMA_OPTION",
           <<Choose(Text({"table"}), <<Adv, Choose(At("quote"), <<Adv, Eat("text"), Ending("unquote")>>, <<Error>>)>>,
              <<Choose(Text({"primary_key"}), <<Adv, Choose(At("atom"), <<Adv>>, <<Error>>)>>,
                       <<Adv, Choose(AtAny({"true", "false"}), <<Adv>>, <<Error>>)>>)>>)>>),
      Eat(Newline)>>
parse_struct_def ==
    <<Node("STRUCT_DEF",
           <<Public, Adv, NameOr(1), parse_generic_param_list>> \o
           Body(Lines(<<Choose(Text({"table", "primary_key", "timestamps"}), parse_schema_option,
                        <<Choose(Text({"belongs_to", "has_many", "has_one"}), parse_relationship_decl, parse_struct_field)>>)>>))
           \o <<parse_deriving_clause>>)>>

parse_assoc_type_decl == <<Node("ASSOC_TYPE_DEF", <<Adv, Choose(At("ident"), <<Naming>>, <<Error>>)>>)>>
parse_interface_method ==
    <<Node("INTERFACE_METHOD",
           <<Choose(AtAny({"fn", "def"}), <<Adv>>, <<Error, Return(1)>>), NameOr(1), PlainParams, Annotated("->"),
             When(At("do"), <<Adv, Call("item_block_body"), Ending("end")>>)>>)>>
parse_interface_def ==
    <<Node("INTERFACE_DEF",
           <<Public, Adv, NameOr(1), parse_generic_param_list>> \o
           Body(Lines(<<Choose(At("type"), parse_assoc_type_decl, parse_interface_method)>>)))>>
parse_assoc_type_binding ==
    <<Node("ASSOC_TYPE_BINDING", <<Adv, NameOr(1), Expect("="), When(No(Erred), <<Call("type")>>)>>)>>
parse_impl_body ==
    <<Statements({"end"},
                 <<Choose(At("type"), parse_assoc_type_binding,
                     <<Choose(Either(AtAny({"fn", "def"}), Both(At("pub"), Nth(1, {"fn", "def"}))), parse_fn_def, <<Error>>)>>)>>)>>
parse_impl_def ==
    <<Node("IMPL_DEF",
           <<Adv, Choose(At("ident"), parse_module_path, <<Error, Return(1)>>), TypeArgs, Expect("for"),
             When(No(Erred), <<Choose(At("ident"), parse_module_path, <<Error>>)>>), parse_where_clause>> \o Body(parse_impl_body))>>

parse_variant_field_or_type ==
    <<Choose(Both(At("ident"), Nth(1, {"::"})), <<Node("VARIANT_FIELD", <<Naming, Annotation>>)>>,
             <<Node("TYPE_ANNOTATION", <<Call("type")>>)>>)>>
parse_variant_def ==
    <<Node("VARIANT_DEF",
           <<Choose(At("ident"), <<Adv>>, <<Error, Return(1)>>),
             When(At("("), <<Adv>> \o List(parse_variant_field_or_type, ")") \o <<Expect(")")>>)>>)>>
parse_sum_type_def ==
    <<Node("SUM_TYPE_DEF",
           <<Public, Adv, NameOr(1), parse_generic_param_list>> \o Body(Lines(parse_variant_def)) \o <<parse_deriving_clause>>)>>
parse_type_alias ==
    <<Node("TYPE_ALIAS_DEF",
           <<Public, Adv, NameOr(1), parse_generic_param_list, Expect("="), When(No(Erred), <<Call("type")>>)>>)>>

parse_terminate_clause == <<Node("TERMINATE_CLAUSE", <<Adv>> \o Body(<<Call("block_body")>>))>>
(* Only one `terminate` of an actor.                                         *)
parse_actor_body ==
    <<Node("BLOCK",
           <<Sequence({"end", "terminate"}, <<Call("item_or_stmt")>>),
             When(Both(At("terminate"), No(Erred)),
                  parse_terminate_clause \o
                  <<When(No(Erred), <<Sequence({"end"}, <<Choose(At("terminate"), <<Error>>, <<Call("item_or_stmt")>>)>>)>>)>>)>>)>>
parse_actor_def == <<Node("ACTOR_DEF", <<Adv, NameOr(1), PlainParams>> \o Body(parse_actor_body))>>

Setting(k, kind) == <<Node(k, <<Adv, Expect(":"), Choose(At(kind), <<Adv>>, <<Error>>)>>)>>
parse_strategy_clause == Setting("STRATEGY_CLAUSE", "ident")
parse_restart_limit == Setting("RESTART_LIMIT", "int")
parse_seconds_limit == Setting("SECONDS_LIMIT", "int")
parse_child_spec_body ==
    <<Statements({"end"},
        <<Choose(Text({"start", "restart", "shutdown"}),
            <<Choose(Text({"start"}), <<Adv, Expect(":")>> \o FieldInit,
              <<Choose(Text({"restart"}), <<Adv, Expect(":"), When(No(Erred), <<Choose(At("ident"), <<Adv>>, <<Error>>)>>)>>,
                       <<Adv, Expect(":"), When(No(Erred), <<Choose(AtAny({"int", "ident"}), <<Adv>>, <<Error>>)>>)>>)>>)>>,
            <<Error>>)>>)>>
parse_child_spec == <<Node("CHILD_SPEC_DEF", <<Adv, NameOr(1)>> \o Body(parse_child_spec_body))>>
parse_supervisor_body ==
    <<Statements({"end"},
        <<Choose(Text({"strategy"}), parse_strategy_clause,
          <<Choose(Text({"max_restarts"}), parse_restart_limit,
            <<Choose(Text({"max_seconds"}), parse_seconds_limit,
              <<Choose(Text({"child"}), parse_child_spec, <<Error>>)>>)>>)>>)>>)>>
parse_supervisor_def == <<Node("SUPERVISOR_DEF", <<Public, Adv, NameOr(1)>> \o Body(parse_supervisor_body))>>

HandlerBody ==
    <<Expect("do"), When(Erred, <<Return(1)>>),
      When(At("|"), <<Adv, Choose(At("ident"), <<Naming>>, <<Error>>), Expect("|")>>),
      When(No(Erred), <<Call("block_body")>>), Ending("end")>>
parse_call_handler == <<Node("CALL_HANDLER", <<Adv, NameOr(1), PlainParams, Annotated("::")>> \o HandlerBody)>>
parse_cast_handler == <<Node("CAST_HANDLER", <<Adv, NameOr(1), PlainParams>> \o HandlerBody)>>
parse_service_body ==
    <<Statements({"end"},
        <<Choose(AtAny({"fn", "def"}), <<Call("item_or_stmt")>>,
          <<Choose(At("call"), parse_call_handler, <<Choose(At("cast"), parse_cast_handler, <<Error>>)>>)>>)>>)>>
parse_service_def == <<Node("SERVICE_DEF", <<Adv, NameOr(1)>> \o Body(parse_service_body))>>

-----------------------------------------------------------------------------
(* The first of the cases that holds.                                        *)
RECURSIVE Dispatch(_)
Dispatch(cases) == IF cases = <<>> THEN <<Expr(0)>> ELSE <<Choose(cases[1][1], cases[1][2], Dispatch(Tail(cases)))>>

PublicItem ==
    Dispatch(<<<<Nth(1, {"fn", "def"}), <<Call("fn_def")>>>>, <<Nth(1, {"module"}), <<Call("module_def")>>>>, <<Nth(1, {"struct"}), <<Call("struct_def")>>>>,
      <<Nth(1, {"interface"}), <<Call("interface_def")>>>>, <<Nth(1, {"supervisor"}), <<Call("supervisor_def")>>>>,
      <<Both(Nth(1, {"type"}), Both(Nth(2, {"ident"}), Variants(3))), <<Call("sum_type_def")>>>>,
      <<Both(Nth(1, {"type"}), Nth(2, {"ident"})), <<Call("type_alias")>>>>, <<Always, <<Error>>>>>>)
parse_item_or_stmt ==
    Dispatch(<<<<At("pub"), <<Call("public_item")>>>>, <<Both(AtAny({"fn", "def"}), Nth(1, {"ident"})), <<Call("fn_def")>>>>,
               <<At("module"), <<Call("module_def")>>>>, <<At("import"), <<Call("import_decl")>>>>, <<starts_clustered_fn_def, <<Call("fn_def")>>>>,
               <<Text({"from"}), <<Call("from_import_decl")>>>>, <<At("struct"), <<Call("struct_def")>>>>, <<At("interface"), <<Call("interface_def")>>>>,
               <<At("impl"), <<Call("impl_def")>>>>, <<At("actor"), <<Call("actor_def")>>>>, <<At("service"), <<Call("service_def")>>>>,
               <<At("supervisor"), <<Call("supervisor_def")>>>>,
               <<Both(At("type"), Both(Nth(1, {"ident"}), Variants(2))), <<Call("sum_type_def")>>>>,
               <<Both(At("type"), Nth(1, {"ident"})), <<Call("type_alias")>>>>, <<At("let"), <<Call("let_binding")>>>>, <<At("return"), <<Call("return_expr")>>>>>>)

parse_source_file ==
    <<Node("SOURCE_FILE",
           <<Loop(<<Newlines, While(At(";"), <<Adv, Newlines>>), When(At(Eof), <<Break>>)>> \o parse_item_or_stmt \o
                  <<When(Erred, <<While(No(AtAny({Newline, Eof})), <<Adv>>), Break>>), When(At(Newline), <<Newlines>>)>>),
             While(No(At(Eof)), <<Adv>>), Adv>>)>>

Function(f) ==
    CASE f = "fn_def" -> parse_fn_def
      [] f = "module_def" -> parse_module_def [] f = "struct_def" -> parse_struct_def [] f = "interface_def" -> parse_interface_def
      [] f = "supervisor_def" -> parse_supervisor_def [] f = "sum_type_def" -> parse_sum_type_def
      [] f = "type_alias" -> parse_type_alias [] f = "import_decl" -> parse_import_decl
      [] f = "from_import_decl" -> parse_from_import_decl [] f = "impl_def" -> parse_impl_def [] f = "actor_def" -> parse_actor_def
      [] f = "service_def" -> parse_service_def [] f = "let_binding" -> parse_let_binding [] f = "return_expr" -> parse_return_expr
      [] f = "block_body" -> parse_block_body [] f = "item_block_body" -> parse_item_block_body
      [] f = "item_or_stmt" -> parse_item_or_stmt [] f = "arg_list" -> parse_arg_list [] f = "if_expr" -> parse_if_expr
      [] f = "fn_clause_param" -> parse_fn_clause_param [] f = "fn_clause_param_list" -> parse_fn_clause_param_list
      [] f = "public_item" -> PublicItem [] f = "pattern" -> parse_as_pattern [] f = "cons_pattern" -> parse_cons_pattern
      [] f = "or_pattern" -> parse_or_pattern [] f = "primary_pattern" -> parse_primary_pattern [] f = "type" -> parse_type
-----------------------------------------------------------------------------
(* Running a program.                                                        *)
Left(s) == s.ret > 0 \/ s.brk \/ s.fuel = 0

RECURSIVE Run(_, _), Perform(_, _), expr_bp(_, _), Rest(_, _)
Run(s, p) == IF p = <<>> \/ Left(s) THEN s ELSE Run(Perform([s EXCEPT !.fuel = @ - 1], Head(p)), Tail(p))

Perform(s, op) ==
    CASE op.o = "adv" -> advance(s)
      [] op.o = "eat" -> IF at(s, {op.k}) THEN advance(s) ELSE s
      [] op.o = "expect" -> IF at(s, {op.k}) THEN advance(s) ELSE error(s)
      [] op.o = "error" -> error(s)
      [] op.o = "nothing" -> [error(s) EXCEPT !.none = TRUE]
      [] op.o = "newlines" -> eat_newlines(s)
      [] op.o = "continuation" -> IF is_newline_insignificant(s) THEN s ELSE skip_newlines_for_continuation(s)
      [] op.o = "node" -> close(Run(open(s), op.p), Len(s.ev) + 1, op.k)
      [] op.o = "wrap" -> IF s.none THEN s ELSE close(Run(open_before(s), op.p), Len(s.ev) + 1, op.k)
      [] op.o = "as" -> [s EXCEPT !.as = op.k]
      [] op.o = "call" -> Run(s, Function(op.k))
      [] op.o = "expr" -> expr_bp(s, op.n)
      [] op.o = "quiet" -> [Run([s EXCEPT !.quiet = TRUE], op.p) EXCEPT !.quiet = s.quiet]
      [] op.o = "if" -> Run(s, op.p[IF Holds(s, op.c) THEN 1 ELSE 2])
      [] op.o = "break" -> [s EXCEPT !.brk = TRUE]
      [] op.o = "return" -> [s EXCEPT !.ret = op.n]
      [] op.o = "while" ->
             IF ~Holds(s, op.c) THEN s
             ELSE LET t == Run(s, op.p)
                  IN IF t.brk THEN [t EXCEPT !.brk = FALSE] ELSE IF Left(t) THEN t ELSE Perform([t EXCEPT !.fuel = @ - 1], op)

expr_bp(s, min_bp) ==
    LET l == Run([s EXCEPT !.none = FALSE], lhs(nth(s, 0))) IN IF l.none THEN l ELSE Rest(l, min_bp)

Rest(s, min_bp) ==
    LET k == nth(s, 0)
    IN CASE s.erred \/ s.fuel = 0 -> s
         [] k \in {"{", "(", ".", "[", "?"} -> Rest(Run(s, Postfix(k)), min_bp)
         [] infix_binding_power(k)[1] > 0 ->
                IF infix_binding_power(k)[1] < min_bp THEN s ELSE Rest(Run(s, Infix(k)), min_bp)
         [] k = Newline /\ peek_past_newlines(s) \in {"|>", "|2>"} /\ 3 >= min_bp -> Rest(skip_newlines_for_continuation(s), min_bp)
         [] OTHER -> s

Parse(text, p) == Run(Start(text), p)
=============================================================================
