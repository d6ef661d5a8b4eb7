---------------------------- MODULE MCCompiler ------------------------------
(* The passes of the compiler, each on inputs of its own: a behaviour       *)
(* belongs to the part it starts in, and leaves the others alone.           *)
EXTENDS Integers, Sequences, FiniteSets, TLC

CONSTANT Modules  \* those whose functions are methods

VARIABLES part,
    family, arms,  \* a match
    stage, call,   \* a call of the library
    body, code,    \* a function and its blocks
    subject, vals  \* a type and values of it

(* Patterns and values of a match, by the type of what is matched.         *)
W == [k |-> "wild", c |-> "_", a |-> <<>>]
V(x) == [k |-> "var", c |-> x, a |-> <<>>]
C(c, a) == [k |-> "con", c |-> c, a |-> a]
L(c) == [k |-> "lit", c |-> c, a |-> <<>>]
T(a) == [k |-> "tuple", c |-> "Tuple", a |-> a]
K(h, t) == [k |-> "cons", c |-> "::", a |-> <<h, t>>]
O(a) == [k |-> "or", c |-> "|", a |-> a]
Value(c, a) == [c |-> c, a |-> a]
True == Value("true", <<>>)
False == Value("false", <<>>)
Nil == Value("[]", <<>>)
List(h, t) == Value("::", <<h, t>>)
Sums == [Option |-> <<<<"Some", 1>>, <<"None", 0>>>>, Result |-> <<<<"Ok", 1>>, <<"Err", 1>>>>,
         Color |-> <<<<"R", 0>>, <<"G", 0>>, <<"B", 0>>>>]
Patterns ==
    [Bool |-> {W, V("x"), L("true"), L("false"), O(<<L("true"), L("false")>>)},
     Option |-> {W, V("x"), C("None", <<>>), C("Some", <<W>>), C("Some", <<L("true")>>), C("Some", <<V("y")>>),
                 O(<<C("None", <<>>), C("Some", <<L("false")>>)>>), C("Some", <<O(<<L("true"), L("false")>>)>>)},
     Color |-> {W, C("R", <<>>), C("G", <<>>), C("B", <<>>), O(<<C("R", <<>>), C("G", <<>>)>>)},
     Result |-> {V("x"), C("Ok", <<V("y")>>), C("Ok", <<C("None", <<>>)>>), C("Ok", <<C("Some", <<V("z")>>)>>),
                 C("Err", <<L("true")>>), C("Err", <<W>>), C("Ok", <<C("Some", <<L("false")>>)>>)},
     Pair |-> {W, T(<<L("true"), V("y")>>), T(<<V("x"), C("None", <<>>)>>), T(<<W, C("Some", <<V("z")>>)>>),
               T(<<V("x"), V("y")>>), T(<<L("false"), C("Some", <<L("true")>>)>>)},
     Int |-> {W, V("x"), L("0"), L("1"), O(<<L("0"), L("1")>>)},
     List |-> {W, V("x"), K(V("h"), V("t")), K(L("true"), W), K(V("h"), K(V("g"), V("t")))}]
Bools == {True, False}
Options == {Value("None", <<>>)} \cup {Value("Some", <<b>>) : b \in Bools}
Values ==
    [Bool |-> Bools, Option |-> Options, Color |-> {Value(c, <<>>) : c \in {"R", "G", "B"}},
     Result |-> {Value("Ok", <<o>>) : o \in Options} \cup {Value("Err", <<b>>) : b \in Bools},
     Pair |-> {Value("Tuple", <<b, o>>) : b \in Bools, o \in Options},
     Int |-> {Value(i, <<>>) : i \in {"0", "1", "2"}},
     List |-> {Nil} \cup {List(b, Nil) : b \in Bools} \cup {List(b, List(c, Nil)) : b, c \in Bools}]
MatchTypes == DOMAIN Patterns
NameOf(f) == f
PatternsOf(f) == Patterns[f]
ValuesOf(f) == Values[f]

Checker == INSTANCE Exhaustive WITH
    Families <- MatchTypes, TypeName <- NameOf, Universe <- PatternsOf, Inhabitants <- ValuesOf, Variants <- Sums, MaxArms <- 3
Tree == INSTANCE DecisionTree WITH
    Families <- MatchTypes, TypeName <- NameOf, Universe <- PatternsOf, Inhabitants <- ValuesOf, Variants <- Sums, MaxArms <- 3

Library == INSTANCE LibraryCall WITH
    Instances <- {"Int", "Float", "Bool", "String", "Ptr", "Struct", "Sum", "Pid", "Tuple"},
    Fields <- {"length", "get", "contains", "size", "keys", "append", "union", "trim", "map"}

(* Functions of two parameters, n and m.                                     *)
E(k, x, a) == [k |-> k, x |-> x, a |-> a]
Name(x) == E("var", x, <<>>)
Lit(i) == E("lit", i, <<>>)
Ask == E("ask", "", <<>>)
Tell(e) == E("tell", "", <<e>>)
Succ(e) == E("next", "", <<e>>)
Zero(e) == E("zero", "", <<e>>)
And(a, b) == E("and", "", <<a, b>>)
Or(a, b) == E("or", "", <<a, b>>)
If(c, a, b) == E("if", "", <<c, a, b>>)
Let(x, v, b) == E("let", x, <<v, b>>)
Block(s) == E("block", "", s)
Case(x, v, z, b) == E("case", x, <<v, z, b>>)
Return(e) == E("return", "", <<e>>)
Receive(x, a) == E("receive", x, a)
While(c, b) == E("while", "", <<c, b>>)
For(k, x, c, b) == E(k, x, (IF k = "for_range" THEN <<Lit(0), Lit(2)>> ELSE <<Lit(2)>>) \o <<c, b>>)
Break == E("break", "", <<>>)
Continue == E("continue", "", <<>>)
Self(a, b) == E("self", "", <<a, b>>)
Asked == Zero(Ask)
NoFilter == E("true", 1, <<>>)
N == Name("n")
M == Name("m")
Conditions == {Zero(N), And(Zero(N), Asked), And(Asked, And(Asked, Asked)), And(And(Asked, Asked), Asked),
               Or(Zero(M), Asked), Or(Or(Asked, Asked), Asked), Or(Asked, Or(Asked, Asked)), Or(And(Asked, Asked), Asked)}
Simple == {Tell(N), Return(Tell(M)), Let("x", Succ(N), Tell(Name("x"))), Self(N, Tell(M)),
           Block(<<Return(M), Tell(N)>>), Case("y", Ask, Tell(N), Tell(Name("y")))}
Jumps == {Tell(Succ(N)), If(Ask, Break, Tell(N)), If(Ask, Continue, Lit(0)), If(Ask, Return(N), Break), Return(M)}
Turns == Jumps \cup {Block(<<j, Tell(M)>>) : j \in Jumps} \cup
         {While(Ask, Block(<<j, Tell(N)>>)) : j \in Jumps \ {Return(M)}} \cup
         {Block(<<For("for_range", "i", NoFilter, Block(<<j, Tell(Name("i"))>>)), If(Ask, Continue, Tell(M))>>) : j \in Jumps}
Loops == {While(c, b) : c \in {Ask, And(Zero(N), Asked), Or(Asked, Asked)}, b \in Turns} \cup
         {For(k, x, c, b) : k \in {"for_range", "for_list", "for_set", "for_map", "for_iter"}, x \in {"i", "n"}, c \in {NoFilter, Ask}, b \in Turns}
Again == {Self(Succ(N), M), Self(M, N), Self(M, Tell(N)), Block(<<Tell(N), Self(Ask, M)>>)}
Tails == {If(c, s, t) : c \in {Ask, Or(Zero(M), Asked)}, s \in {Tell(N), Return(M)}, t \in Again} \cup
         {If(Ask, N, Block(<<l, Self(M, Succ(N))>>)) : l \in Jumps \cap Simple} \cup
         {Receive("y", <<t, Tell(M)>>) : t \in Again} \cup {Receive("n", <<Self(Succ(N), M)>>)} \cup
         {Case(x, Ask, Tell(N), Self(Tell(Name(x)), M)) : x \in {"y", "n"}} \cup
         {Let(x, Succ(N), If(Ask, Tell(N), Self(Name(x), M))) : x \in {"y", "n"}} \cup
         {If(Ask, N, Return(Self(M, N))), Let("y", Self(M, N), Tell(Name("y"))), And(Asked, Self(M, N)),
          If(Self(M, N), Tell(N), Tell(M))}
Hiding == {Let("x", Ask, Block(<<Case("x", Ask, Tell(Lit(7)), Tell(Name("x"))), Tell(Name("x"))>>)),
           Block(<<Case("n", Ask, Tell(Lit(7)), Tell(N)), Tell(N)>>),
           Block(<<Receive("n", <<Tell(N)>>), Tell(N)>>),
           Let("n", Succ(M), Let("n", Succ(N), Tell(N))),
           Block(<<Let("n", Ask, Tell(N)), Tell(N)>>),
           Block(<<For("for_map", "n", NoFilter, Block(<<Tell(N), Tell(Name("value"))>>)), Tell(N)>>)}
Functions ==
    {If(c, s, t) : c \in Conditions, s, t \in Simple} \cup Loops \cup Tails \cup Hiding \cup
    {Block(<<l, Tell(M)>>) : l \in Loops} \cup {Tell(c) : c \in Conditions}
Blocks == INSTANCE BasicBlocks WITH
    Bodies <- Functions, Params <- <<"n", "m">>, Inputs <- [1..4 -> 0..2], Bound <- 5

(* Types of a file, and the values that are looked at.                       *)
I == [c |-> "Int", a |-> <<>>]
Ty(c) == [I EXCEPT !.c = c]
App(c, a) == [c |-> c, a |-> a]
ListOf(t) == App("List", <<t>>)
Maybe(t) == App("Option", <<t>>)
Struct(traits, fields) == [kind |-> "struct", traits |-> traits, fields |-> fields]
Sum(traits, variants) == [kind |-> "sum", traits |-> traits, fields |-> variants]
All == {"Debug", "Eq", "Ord", "Hash", "Json"}
Decls ==
    [Point |-> Struct({}, <<<<"x", I>>, <<"y", I>>>>),
     Pair |-> Struct(All, <<<<"a", I>>, <<"b", I>>>>),
     Line |-> Struct(All, <<<<"from", Ty("Spot")>>, <<"n", I>>>>),
     Spot |-> Struct(All, <<<<"b", Ty("Float")>>, <<"f", I>>>>),
     Label |-> Struct({"Eq", "Hash", "Json", "Row"}, <<<<"s", Ty("String")>>, <<"b", Ty("Bool")>>>>),
     Three |-> Struct({}, <<<<"x", I>>, <<"y", I>>, <<"z", I>>>>),
     Empty |-> Struct(All, <<>>),
     Shape |-> Sum(All, <<<<"Dot", <<>>>>, <<"At", <<I>>>>, <<"On", <<Ty("Pair")>>>>>>),
     Way |-> Sum({"Eq", "Ord"}, <<<<"In", <<Ty("Shape")>>>>, <<"Out", <<>>>>>>),
     Sketch |-> Struct({"Json"}, <<<<"l", ListOf(Ty("Shape"))>>, <<"m", App("Map", <<Ty("String"), Ty("Label")>>)>>>>),
     Entry |-> Struct({"Row", "Schema"}, <<<<"id", I>>, <<"ok", Ty("Bool")>>, <<"n", Maybe(Ty("Float"))>>, <<"s", Maybe(Ty("String"))>>>>),
     Perhaps |-> Struct({"Json"}, <<<<"o", Maybe(I)>>>>),
     Early |-> Struct({"Json"}, <<<<"l", Ty("Later")>>>>),
     Later |-> Struct({"Json"}, <<<<"x", I>>>>),
     Plain |-> Sum({"Json"}, <<<<"P", <<Ty("Point")>>>>>>),
     Unequal |-> Struct({"Ord"}, <<<<"x", I>>>>),
     Nested |-> Struct({"Row"}, <<<<"p", Ty("Point")>>>>)]
Derived == INSTANCE Deriving WITH
    Order <- <<"Point", "Pair", "Spot", "Line", "Label", "Three", "Empty", "Shape", "Way", "Sketch", "Entry", "Perhaps", "Early", "Later",
               "Plain", "Unequal", "Nested">>,
    Atoms <- [Int |-> {0, 1}, Float |-> {0, 1, -9, 99}, Bool |-> {0, 1}, String |-> {0, 2}],
    Subjects <- {Ty(n) : n \in DOMAIN Decls} \cup {ListOf(I), ListOf(ListOf(I)), ListOf(Ty("Bool"))},
    Many <- 4096

MatchIdle == family = "Bool" /\ arms = <<>>
LibraryIdle == stage = "idle" /\ call = <<>>
BlocksIdle == body = Lit(0) /\ code = <<>>
DerivedIdle == subject = I /\ vals = <<>>

CompilerInit ==
    \/ part = "match" /\ Checker!Init /\ LibraryIdle /\ BlocksIdle /\ DerivedIdle
    \/ part = "library" /\ (Library!Init \/ Library!InitMethod) /\ MatchIdle /\ BlocksIdle /\ DerivedIdle
    \/ part = "blocks" /\ Blocks!Init /\ MatchIdle /\ LibraryIdle /\ DerivedIdle
    \/ part = "derived" /\ Derived!Init /\ MatchIdle /\ LibraryIdle /\ BlocksIdle

CompilerNext ==
    /\ UNCHANGED part
    /\ \/ part = "match" /\ Checker!Next /\ UNCHANGED <<stage, call, body, code, subject, vals>>
       \/ part = "library" /\ Library!Next /\ UNCHANGED <<family, arms, body, code, subject, vals>>
       \/ part = "blocks" /\ Blocks!Next /\ UNCHANGED <<family, arms, stage, call, subject, vals>>
       \/ part = "derived" /\ Derived!Next /\ UNCHANGED <<family, arms, stage, call, body, code>>

CompilerSpec ==
    CompilerInit /\ [][CompilerNext]_<<part, family, arms, stage, call, body, code, subject, vals>>
-----------------------------------------------------------------------------
(* exhaustiveness.rs: a match that is accepted misses no value (cons         *)
(* patterns aside), one that misses none is accepted for the types the check *)
(* knows, what is reported missing is missing, and an arm warned of is of no *)
(* use. compile_match: the tree runs the arm that comes first, with its      *)
(* names, and never reaches its Fail leaf in a match that was accepted.      *)
MatchesAreRight ==
    part = "match" =>
        /\ Checker!AcceptedIsExhaustive /\ Checker!ExhaustiveIsAccepted
        /\ Checker!WitnessesAreMissing /\ Checker!RedundantIsUseless
        /\ Tree!TreeIsFirstMatch
        /\ Checker!accepted /\ ~Checker!Uses({"cons"}) /\ Tree!AllPlain =>
               \A v \in ValuesOf(family), holds \in SUBSET Tree!Guarded : Tree!Run(Tree!tree, v, holds)[1] = "arm"

(* compile.rs, compile_matrix: "If the guard fails, fall through to the      *)
(* remaining rows".                                                          *)
GuardFallsThrough == part = "match" => Tree!GuardFallsThrough

(* resolve_trait_callee: a method is the function it was typed as.           *)
MethodIsItsOwn == part = "library" => Library!MethodIsItsOwn

(* infer.rs, builtins.rs, lower.rs, intrinsics.rs and codegen_call: the      *)
(* tables name, type and declare each function alike, and arguments and      *)
(* results have the machine types of the declaration.                        *)
CallsFit ==
    /\ part = "library" => /\ Library!CalleeExists /\ Library!OneType
                           /\ Library!ArgumentsFit /\ Library!ResultFits
    /\ MethodIsItsOwn

(* codegen_expr: the blocks of a function pass the verifier, do what it      *)
(* means, and check the reductions in every loop.                            *)
BlocksAreTheBody ==
    part = "blocks" => Blocks!BlocksVerify /\ Blocks!BlocksDoAsMeant /\ Blocks!LoopsAreChecked

(* Eq__eq, Ord__lt, Ord__compare, Hash__hash and the operators agree with    *)
(* each other and with the parts; what ToJson, FromJson and FromRow write is *)
(* read back as a value of the type, and every impl registered is made.      *)
DerivedImplsAgree ==
    part = "derived" => /\ Derived!EqualIsTheSame /\ Derived!OrderIsTotal
                        /\ Derived!OperatorsAgree /\ Derived!EqualHashEqually
                        /\ Derived!JsonReturns /\ Derived!JsonIsTyped
                        /\ Derived!RowIsTheStruct /\ Derived!ImplsAreMade

(* codegen/pattern.rs, codegen_leaf: "If already bound by a guard node for   *)
(* this arm, just update the store": a name of a pattern is its own.         *)
PatternNamesAreFresh == part = "blocks" => Blocks!PatternNamesAreFresh
=============================================================================
