-------------------------------- MODULE Syntax --------------------------------
(* What the compiler sees of a text: the accessors of mesh-parser/ast over   *)
(* the tree the grammar builds.  Every type of the ast is the sequence of    *)
(* its accessors, in the order of the text.                                  *)
EXTENDS Grammar

CONSTANTS Corpus,    \* the texts written
          Layouts,   \* the tokens put between two others to lay a text out
          Edits      \* the tokens an edit puts into a text

-----------------------------------------------------------------------------
(* Accessors: ks the kinds looked for, i which of them, must if the compiler *)
(* cannot do without.                                                        *)
Accessor(get, ks, i) == [get |-> get, ks |-> ks, i |-> i, j |-> i, must |-> i > 0 \/ get = "after"]
Token(ks) == Accessor("token", ks, 1)
Tokens(ks) == Accessor("tokens", ks, 0)
LastToken(ks) == Accessor("last", ks, 1)
After(k) == Accessor("after", {k}, 0)                       \* the words past a token
Whole(k) == Accessor("whole", {k}, 1)                       \* a child whose tokens the type checker goes through
Nodes(ks) == Accessor("nodes", ks, 0)
Children(k) == Nodes({k})
ChildAt(k, i) == Accessor("node", {k}, i)
Child(k) == ChildAt(k, 1)
Within(ks) == Accessor("within", ks, 0)                     \* of the BLOCK children
FirstWithin(k) == [Within({k}) EXCEPT !.i = 1, !.must = TRUE]
Maybe(a) == [a EXCEPT !.must = FALSE]

Exprs == {"LITERAL", "NAME_REF", "BINARY_EXPR", "UNARY_EXPR", "CALL_EXPR", "PIPE_EXPR", "FIELD_ACCESS", "INDEX_EXPR", "IF_EXPR",
          "CASE_EXPR", "CLOSURE_EXPR", "BLOCK", "STRING_EXPR", "RETURN_EXPR", "TUPLE_EXPR", "STRUCT_LITERAL", "MAP_LITERAL",
          "LIST_LITERAL", "WHILE_EXPR", "BREAK_EXPR", "CONTINUE_EXPR", "FOR_IN_EXPR", "SPAWN_EXPR", "SEND_EXPR", "RECEIVE_EXPR",
          "SELF_EXPR", "LINK_EXPR", "TRY_EXPR", "ATOM_EXPR", "STRUCT_UPDATE_EXPR", "SLOT_PIPE_EXPR", "JSON_EXPR"}
Items == {"FN_DEF", "MODULE_DEF", "IMPORT_DECL", "FROM_IMPORT_DECL", "STRUCT_DEF", "LET_BINDING", "INTERFACE_DEF", "IMPL_DEF",
          "TYPE_ALIAS_DEF", "SUM_TYPE_DEF", "ACTOR_DEF", "SERVICE_DEF", "SUPERVISOR_DEF"}
Patterns == {"WILDCARD_PAT", "IDENT_PAT", "LITERAL_PAT", "TUPLE_PAT", "CONSTRUCTOR_PAT", "OR_PAT", "AS_PAT", "CONS_PAT"}
Operand(i) == Accessor("node", Exprs, i)
Operands == Nodes(Exprs)
Pat(i) == Accessor("node", Patterns, i)
Guarded(i, j) == [Operand(i) EXCEPT !.j = j]                \* the i-th with `when`, the j-th without
-----------------------------------------------------------------------------
(* Expressions.                                                              *)
Literal == <<Token(Literals)>>
NameRef == <<Token({"ident", "self"})>>
BinaryExpr ==
    <<Operand(1), Token({"+", "-", "*", "/", "%", "==", "!=", "<", ">", "<=", ">=", "and", "or", "&&", "||", "..", "<>", "++"}), Operand(2)>>
UnaryExpr == <<Token({"-", "!", "not"}), Operand(1)>>
CallExpr == <<Operand(1), Child("ARG_LIST")>>
ArgList == <<Operands>>
PipeExpr == <<Operand(1), Operand(2)>>
SlotPipeExpr == <<Operand(1), Token({"|2>"}), Operand(2)>>
FieldAccess == <<Operand(1), LastToken(FieldNames)>>
IndexExpr == <<Operand(1), Operand(2)>>
IfExpr == <<Operand(1), Child("BLOCK"), Maybe(Child("ELSE_BRANCH"))>>
ElseBranch == <<Maybe(Child("BLOCK")), Maybe(Child("IF_EXPR"))>>
CaseExpr == <<Operand(1), Children("MATCH_ARM")>>
MatchArm_First == <<Pat(1), Maybe(Guarded(1, 0)), Operand(1)>>

MatchArm == <<Pat(1), Maybe(Guarded(1, 0)), Guarded(2, 1)>>

ClosureClause == <<Maybe(Child("PARAM_LIST")), Maybe(Child("GUARD_CLAUSE")), Child("BLOCK")>>
ClosureExpr == ClosureClause \o <<Children("CLOSURE_CLAUSE")>>
StringExpr == <<Nodes({"INTERPOLATION"}), Tokens({"text"})>>
Interpolation == <<Operand(1)>>
ReturnExpr == <<Maybe(Operand(1))>>
TupleExpr == <<Operands>>
StructLiteral == <<Child("NAME_REF"), Children("STRUCT_LITERAL_FIELD")>>
StructLiteralField == <<Child("NAME"), Operand(1)>>
MapLiteral == <<Children("MAP_ENTRY")>>
MapEntry == <<Operand(1), Operand(2)>>
StructUpdate == <<Operand(1), Children("STRUCT_LITERAL_FIELD")>>
ListLiteral == <<Operands>>
WhileExpr == <<Operand(1), Child("BLOCK")>>
ForInExpr == <<Maybe(Child("NAME")), Maybe(Child("DESTRUCTURE_BINDING")), Operand(1), Maybe(Guarded(2, 0)), Child("BLOCK")>>
DestructureBinding == <<Children("NAME")>>
SpawnExpr == <<Child("ARG_LIST")>>
SendExpr == <<Child("ARG_LIST")>>
LinkExpr == <<Child("ARG_LIST")>>
ReceiveExpr == <<Children("RECEIVE_ARM"), Maybe(Child("AFTER_CLAUSE"))>>
ReceiveArm == <<Pat(1), Guarded(2, 1)>>
AfterClause == <<Operand(1), Operand(2)>>
TryExpr == <<Operand(1)>>
AtomLiteral == <<Token({"atom"})>>
JsonExpr == <<Children("JSON_FIELD")>>
JsonField == <<Token({"ident"}), Operand(1)>>

-----------------------------------------------------------------------------
(* Declarations.                                                             *)
SourceFile == <<Nodes(Items \cup Exprs)>>
Block == <<Nodes(Items \cup Exprs)>>
Visibility == <<Token({"pub"})>>
Name == <<Token({"ident"})>>
Path == <<Tokens({"ident"})>>
Named == <<Maybe(Child("VISIBILITY")), Child("NAME")>>
FnDef ==
    <<Maybe(Child("CLUSTER_DECORATOR_DECL"))>> \o Named \o
    <<Maybe(Whole("GENERIC_PARAM_LIST")), Maybe(Child("PARAM_LIST")), Maybe(Child("TYPE_ANNOTATION")), Maybe(Whole("WHERE_CLAUSE")),
      Maybe(Child("GUARD_CLAUSE")), Maybe(Child("BLOCK")), Maybe(Child("FN_EXPR_BODY"))>>
ClusteredDecl == <<Maybe(Token({"int"}))>>
FnExprBody == <<Operand(1)>>
GuardClause == <<Operand(1)>>
ParamList == <<Children("PARAM")>>
Param == <<Maybe(Token({"ident"})), Maybe(Pat(1)), Maybe(Child("TYPE_ANNOTATION"))>>
TypeAnnotation == <<Accessor("words", {}, 1)>>
ModuleDef == Named \o <<Within(Items)>>
ImportDecl == <<Child("PATH")>>
FromImportDecl == <<Child("PATH"), Child("IMPORT_LIST")>>
ImportList == <<Children("NAME")>>
Deriving == Maybe(Child("DERIVING_CLAUSE"))
deriving_traits == <<After("(")>>
StructDef ==
    Named \o <<Maybe(Whole("GENERIC_PARAM_LIST")), Children("STRUCT_FIELD"), Children("RELATIONSHIP_DECL"), Children("SCHEMA_OPTION"), Deriving>>
StructField == <<Child("NAME"), Maybe(Child("TYPE_ANNOTATION"))>>
RelationshipDecl == <<Token({"ident"}), Token({"atom"}), After(",")>>
SchemaOption == <<Token({"ident"}), Maybe(Token({"text"})), Maybe(Token({"atom"})), Maybe(Token({"true", "false"}))>>
LetBinding == <<Maybe(Child("NAME")), Maybe(Pat(1)), Maybe(Child("TYPE_ANNOTATION")), Operand(1)>>
InterfaceDef == Named \o <<Maybe(Whole("GENERIC_PARAM_LIST")), Children("ASSOC_TYPE_DEF"), Children("INTERFACE_METHOD")>>
InterfaceMethod == <<Child("NAME"), Maybe(Child("PARAM_LIST")), Maybe(Child("TYPE_ANNOTATION")), Maybe(Child("BLOCK"))>>
ImplDef ==
    <<Child("PATH"), Maybe(Whole("GENERIC_ARG_LIST")), ChildAt("PATH", 2), Maybe(Whole("WHERE_CLAUSE")), Within({"FN_DEF"}),
      Within({"ASSOC_TYPE_BINDING"})>>
AssocTypeDef == <<Child("NAME")>>
AssocTypeBinding == <<Child("NAME"), After("=")>>
TypeAliasDef == Named \o <<Maybe(Whole("GENERIC_PARAM_LIST")), After("=")>>
SumTypeDef == Named \o <<Maybe(Whole("GENERIC_PARAM_LIST")), Children("VARIANT_DEF"), Deriving>>
VariantDef == <<Token({"ident"}), Children("VARIANT_FIELD"), Children("TYPE_ANNOTATION")>>
VariantField == <<Child("NAME"), Child("TYPE_ANNOTATION")>>
ActorDef == <<Child("NAME"), Maybe(Child("PARAM_LIST")), Child("BLOCK"), Within({"TERMINATE_CLAUSE"})>>
TerminateClause == <<Child("BLOCK")>>
SupervisorDef ==
    Named \o <<Maybe(FirstWithin("STRATEGY_CLAUSE")), Maybe(FirstWithin("RESTART_LIMIT")), Maybe(FirstWithin("SECONDS_LIMIT")),
               Within({"CHILD_SPEC_DEF"})>>
ServiceDef == <<Child("NAME"), Maybe(FirstWithin("FN_DEF")), Within({"CALL_HANDLER"}), Within({"CAST_HANDLER"})>>
CastHandler == <<Child("NAME"), Maybe(Child("PARAM_LIST")), Maybe(ChildAt("NAME", 2)), Child("BLOCK")>>
CallHandler == CastHandler \o <<Maybe(Child("TYPE_ANNOTATION"))>>
-----------------------------------------------------------------------------
(* Patterns.                                                                 *)
IdentPat == <<Token({"ident"})>>
LiteralPat == <<Token(Literals \cup {"quote"}), Tokens({"text"})>>
TuplePat == <<Nodes(Patterns)>>
ConstructorPat == <<Tokens({"ident"}), Nodes(Patterns)>>
OrPat == <<Nodes(Patterns)>>
ConsPat == <<Pat(1), Pat(2)>>
AsPat == <<Pat(1), Pat(2)>>
-----------------------------------------------------------------------------
(* The types by the kind of their nodes; other nodes are read token by token. *)
Ast(k) ==
    CASE k = "LITERAL" -> Literal
      [] k = "NAME_REF" -> NameRef [] k = "BINARY_EXPR" -> BinaryExpr [] k = "UNARY_EXPR" -> UnaryExpr [] k = "CALL_EXPR" -> CallExpr
      [] k = "ARG_LIST" -> ArgList [] k = "PIPE_EXPR" -> PipeExpr [] k = "SLOT_PIPE_EXPR" -> SlotPipeExpr
      [] k = "FIELD_ACCESS" -> FieldAccess [] k = "INDEX_EXPR" -> IndexExpr [] k = "IF_EXPR" -> IfExpr
      [] k = "ELSE_BRANCH" -> ElseBranch [] k = "CASE_EXPR" -> CaseExpr [] k = "MATCH_ARM" -> MatchArm
      [] k = "CLOSURE_EXPR" -> ClosureExpr [] k = "CLOSURE_CLAUSE" -> ClosureClause [] k = "STRING_EXPR" -> StringExpr
      [] k = "INTERPOLATION" -> Interpolation [] k = "RETURN_EXPR" -> ReturnExpr [] k = "TUPLE_EXPR" -> TupleExpr
      [] k = "STRUCT_LITERAL" -> StructLiteral [] k = "STRUCT_LITERAL_FIELD" -> StructLiteralField [] k = "MAP_LITERAL" -> MapLiteral
      [] k = "MAP_ENTRY" -> MapEntry [] k = "STRUCT_UPDATE_EXPR" -> StructUpdate [] k = "LIST_LITERAL" -> ListLiteral
      [] k = "WHILE_EXPR" -> WhileExpr [] k = "FOR_IN_EXPR" -> ForInExpr [] k = "DESTRUCTURE_BINDING" -> DestructureBinding
      [] k = "SPAWN_EXPR" -> SpawnExpr [] k = "SEND_EXPR" -> SendExpr [] k = "LINK_EXPR" -> LinkExpr
      [] k = "RECEIVE_EXPR" -> ReceiveExpr [] k = "RECEIVE_ARM" -> ReceiveArm [] k = "AFTER_CLAUSE" -> AfterClause
      [] k = "TRY_EXPR" -> TryExpr [] k = "ATOM_EXPR" -> AtomLiteral [] k = "JSON_EXPR" -> JsonExpr [] k = "JSON_FIELD" -> JsonField
      [] k = "SOURCE_FILE" -> SourceFile [] k = "BLOCK" -> Block [] k = "VISIBILITY" -> Visibility [] k = "NAME" -> Name
      [] k = "PATH" -> Path [] k = "FN_DEF" -> FnDef [] k = "CLUSTER_DECORATOR_DECL" -> ClusteredDecl
      [] k = "FN_EXPR_BODY" -> FnExprBody [] k = "GUARD_CLAUSE" -> GuardClause [] k = "PARAM_LIST" -> ParamList
      [] k = "PARAM" -> Param [] k = "TYPE_ANNOTATION" -> TypeAnnotation [] k = "MODULE_DEF" -> ModuleDef
      [] k = "IMPORT_DECL" -> ImportDecl [] k = "FROM_IMPORT_DECL" -> FromImportDecl [] k = "IMPORT_LIST" -> ImportList
      [] k = "DERIVING_CLAUSE" -> deriving_traits [] k = "STRUCT_DEF" -> StructDef [] k = "STRUCT_FIELD" -> StructField
      [] k = "RELATIONSHIP_DECL" -> RelationshipDecl [] k = "SCHEMA_OPTION" -> SchemaOption [] k = "LET_BINDING" -> LetBinding
      [] k = "INTERFACE_DEF" -> InterfaceDef [] k = "INTERFACE_METHOD" -> InterfaceMethod [] k = "IMPL_DEF" -> ImplDef
      [] k = "ASSOC_TYPE_DEF" -> AssocTypeDef [] k = "ASSOC_TYPE_BINDING" -> AssocTypeBinding [] k = "TYPE_ALIAS_DEF" -> TypeAliasDef
      [] k = "SUM_TYPE_DEF" -> SumTypeDef [] k = "VARIANT_DEF" -> VariantDef [] k = "VARIANT_FIELD" -> VariantField
      [] k = "ACTOR_DEF" -> ActorDef [] k = "TERMINATE_CLAUSE" -> TerminateClause [] k = "SUPERVISOR_DEF" -> SupervisorDef
      [] k = "SERVICE_DEF" -> ServiceDef [] k = "CALL_HANDLER" -> CallHandler [] k = "CAST_HANDLER" -> CastHandler
      [] k = "IDENT_PAT" -> IdentPat [] k = "LITERAL_PAT" -> LiteralPat [] k = "TUPLE_PAT" -> TuplePat
      [] k = "CONSTRUCTOR_PAT" -> ConstructorPat [] k = "OR_PAT" -> OrPat [] k = "CONS_PAT" -> ConsPat [] k = "AS_PAT" -> AsPat
      [] OTHER -> <<Accessor("words", {}, 0)>>

IsToken(n, ks) == n.k = "" /\ Kind(n.t) \in ks
Pick(seq, i) == IF i \in DOMAIN seq THEN <<seq[i]>> ELSE <<>>
Words(n) == LET ts == SelectSeq(Leaves(n), LAMBDA t : Kind(t) \notin {"comment", Newline}) IN [i \in DOMAIN ts |-> Leaf(ts[i])]
Past(seq, k) == LET at1 == SelectInSeq(seq, LAMBDA n : IsToken(n, {k})) IN IF at1 = 0 THEN <<>> ELSE SubSeq(seq, at1 + 1, Len(seq))

RECURSIVE Read(_), Get(_, _)
Read(n) ==
    Tree(n.k, LET ast == Ast(n.k)
              IN [i \in DOMAIN ast |-> LET got == Get(n, ast[i]) IN Tree(IF got = <<>> /\ ast[i].must THEN "missing" ELSE "part", got)])
Get(n, a) ==
    LET tokens == SelectSeq(n.c, LAMBDA m : IsToken(m, a.ks))
        nodes(ms) == SelectSeq(ms, LAMBDA m : m.k \in a.ks)
        inner == nodes(FlattenSeq([i \in DOMAIN n.c |-> IF n.c[i].k = "BLOCK" THEN n.c[i].c ELSE <<>>]))
        when == \E i \in DOMAIN n.c : IsToken(n.c[i], {"when"})
        Each(ms) == [i \in DOMAIN ms |-> Read(ms[i])]
        Flat(ms) == FlattenSeq([i \in DOMAIN ms |-> Words(ms[i])])
    IN CASE a.get = "token" -> Pick(tokens, 1)
         [] a.get = "tokens" -> tokens
         [] a.get = "last" -> Pick(tokens, Len(tokens))
         [] a.get = "after" -> Flat(Past(n.c, CHOOSE k \in a.ks : TRUE))
         [] a.get = "whole" -> Flat(Pick(nodes(n.c), 1))
         [] a.get = "words" -> Words(n)
         [] a.get = "node" -> Each(Pick(nodes(n.c), IF when THEN a.i ELSE a.j))
         [] a.get = "nodes" -> Each(nodes(n.c))
         [] a.get = "within" -> Each(IF a.i = 1 THEN Pick(inner, 1) ELSE inner)

-----------------------------------------------------------------------------
(* A text is written, and then laid out in another way or edited by a token. *)
VARIABLES text, how, read, meant
vars == <<text, how, read, meant>>

Ended(s) == [ok |-> ~s.erred, over |-> s.fuel = 0, tree |-> build_tree(s)]
Outcome(t) == Ended(Parse(Append(t, Eof), parse_source_file))

InsertBefore(t, i, w) == SubSeq(t, 1, i - 1) \o <<w>> \o SubSeq(t, i, Len(t))
Balance(t, i, opening, closing) ==
    Len(SelectSeq(SubSeq(t, 1, i - 1), LAMBDA w : w \in opening)) - Len(SelectSeq(SubSeq(t, 1, i - 1), LAMBDA w : w \in closing))
InString(t, i) == Balance(t, i, {"quote", "}$"}, {"unquote", "${"}) > 0
Insignificant(t, i, w) ==    \* a comment anywhere; a newline inside delimiters, around a pipe, and where there is one
    \/ Kind(w) = "comment"
    \/ Balance(t, i, {"(", "[", "{"}, {")", "]", "}"}) > 0
    \/ \E j \in {i - 1, i} \cap DOMAIN t : t[j] \in {"|>", "|2>", Newline}

Init == text \in Corpus /\ how = "written" /\ read = Outcome(text) /\ meant = read

Write(t, h) == text' = t /\ how' = h /\ read' = Outcome(t) /\ meant' = read
LayOut ==
    /\ how = "written" /\ read.ok
    /\ \E i \in DOMAIN text, w \in Layouts :
          ~InString(text, i) /\ Insignificant(text, i, w) /\ Write(InsertBefore(text, i, w), "laid")
EditsAt(t, i) ==
    {RemoveAt(t, i)} \cup {InsertBefore(t, i, w) : w \in Edits \cup {t[i]}} \cup {ReplaceAt(t, i, w) : w \in Edits} \cup
    {SubSeq(t, 1, j) \o SubSeq(t, i + 1, Len(t)) : \* a line once more
        j \in {n \in i + 2..Len(t) : t[i] = Newline /\ t[n] = Newline}}
Edit == how = "written" /\ \E i \in DOMAIN text : \E t \in EditsAt(text, i) : Write(t, "edited")
Next == LayOut \/ Edit
Spec == Init /\ [][Next]_vars
-----------------------------------------------------------------------------
(* What a text means, by the levels of its operators, each level to the left. *)
Levels == <<{"|>"}, {"or", "||"}, {"and", "&&"}, {"==", "!="}, {"<", ">", "<=", ">="}, {".."}, {"<>", "++"}, {"+", "-"}, {"*", "/", "%"}>>
Level(w) == CHOOSE l \in DOMAIN Levels : w \in Levels[l]
IsChain(t) == /\ Len(t) > 2 /\ Len(t) % 2 = 1
              /\ \A i \in DOMAIN t : IF i % 2 = 1 THEN Kind(t[i]) = "ident" ELSE \E l \in DOMAIN Levels : t[i] \in Levels[l]
RECURSIVE Chained(_), Shape(_), Subtrees(_)
Chained(t) ==
    IF Len(t) = 1 THEN Leaf(t[1])
    ELSE LET ops == {i \in DOMAIN t : i % 2 = 0}
             top == CHOOSE i \in ops : \A j \in ops : Level(t[i]) < Level(t[j]) \/ (Level(t[i]) = Level(t[j]) /\ j <= i)
         IN Tree(t[top], <<Chained(SubSeq(t, 1, top - 1)), Chained(SubSeq(t, top + 1, Len(t)))>>)
Shape(n) == IF n.k \in {"BINARY_EXPR", "PIPE_EXPR"} THEN Tree(n.c[2].t, <<Shape(n.c[1]), Shape(n.c[3])>>) ELSE Leaf(Words(n)[1].t)

Subtrees(n) == {n} \cup UNION {Subtrees(n.c[i]) : i \in DOMAIN n.c}
Complete(n) == \A m \in Subtrees(n) : m.k # "missing"

(* A text of the language is accepted, with every part the compiler needs;   *)
(* operators group by their levels, to the left; and a comment anywhere, or  *)
(* a newline inside delimiters, at a pipe or beside another one, changes     *)
(* nothing of what is read: a `do` stays the block of its `if`, a line after *)
(* a pipe stays its right side, a closure or a call goes on over the lines.  *)
WrittenIsRead ==
    /\ how = "written" => read.ok /\ Complete(Read(read.tree)) /\ (IsChain(text) => Shape(read.tree.c[1]) = Chained(text))
    /\ how = "laid" => read.ok /\ Read(read.tree) = Read(meant.tree)

(* What the parser takes and no accessor reads.                              *)
InBlock(n) == FlattenSeq([i \in DOMAIN n.c |-> IF n.c[i].k = "BLOCK" THEN n.c[i].c ELSE <<>>])
Twice(n, kinds) == \E i, j \in DOMAIN InBlock(n) : i < j /\ InBlock(n)[i].k = InBlock(n)[j].k /\ InBlock(n)[i].k \in kinds
Unread(n) ==
    \/ n.k = "TRAILING_CLOSURE"
    \/ n.k = "RECEIVE_ARM" /\ \E i \in DOMAIN n.c : IsToken(n.c[i], {"when"})
    \/ n.k = "STRUCT_LITERAL" /\ n.c[1].k # "NAME_REF"
    \/ n.k = "MAP_ENTRY" /\ n.c[1].k = "NAME_REF" /\ ~(\E i \in DOMAIN n.c : IsToken(n.c[i], {":", "=>"}))
    \/ n.k = "NAME_REF" /\ ~(\E i \in DOMAIN n.c : IsToken(n.c[i], {"ident", "self"}))
    \/ n.k \in {"MODULE_DEF", "SERVICE_DEF"} /\ \E i \in DOMAIN InBlock(n) : InBlock(n)[i].k \in Exprs
    \/ n.k = "SERVICE_DEF" /\ Twice(n, {"FN_DEF"})
    \/ n.k = "SUPERVISOR_DEF" /\ Twice(n, {"STRATEGY_CLAUSE", "RESTART_LIMIT", "SECONDS_LIMIT"})

Structural == {"deriving", "from", "as", "cluster"}
Meaningful(ts) == SelectSeq(ts, LAMBDA t : Kind(t) \in {"ident", "int", "atom", "text", "true", "false", "nil"} /\ t \notin Structural)
Counts(ts) == [w \in ToSet(ts) |-> Len(SelectSeq(ts, LAMBDA t : t = w))]

(* The parser comes to an end on every text, and what it accepts is all      *)
(* read: with every part the compiler needs, and each name and literal of    *)
(* the text in some accessor's answer once, but for Unread.                  *)
NothingIsDropped ==
    /\ ~read.over
    /\ read.ok /\ (\A n \in Subtrees(read.tree) : ~Unread(n)) =>
          /\ Complete(Read(read.tree))
          /\ Counts(Meaningful(Leaves(Read(read.tree)))) = Counts(Meaningful(text))
=============================================================================
