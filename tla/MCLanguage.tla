---------------------------- MODULE MCLanguage ------------------------------
(* Texts and what they mean: the parser on texts, and the type checker on   *)
(* programs.  A behaviour belongs to the part it starts in, and leaves the  *)
(* other alone.                                                             *)
EXTENDS Integers, Sequences, FiniteSets, TLC

VARIABLES part,
    text, how, read, meant, \* a text and its tree
    program, typed          \* a program and its type

(* Texts of the language, a word a token.                                    *)
Texts ==
    {
      <<"x", "|>", "f", "or", "y", "and", "z", "==", "a", "<", "b", "..", "c", "<>", "d", "+", "e", "*", "g">>,
      <<"a", "*", "b", "+", "c", "++", "d", ">=", "e", "!=", "g", "&&", "h", "||", "k", "|>", "m">>,
      <<"a", "-", "b", "-", "c", "/", "d", "%", "e">>,
      <<"a", "==", "b", "==", "c", "|>", "f", "|>", "g">>,
      <<"-", "a", "+", "not", "b", "?", ".", "c">>,
      <<"let", "x", "=", "a", "+", "1", "nl", "f", "(", "x", ",", "-", "2", ")", "nl">>,
      <<"let", "(", "a", ",", "_", ")", "=", "g", "(", "b", ")", "?", "nl", "let", "q", "::", "P", "<", "Int", ",", "Q", ">", "=", "a", "nl">>,
      <<"let", "s", "=", "quote", "text", "${", "a", "+", "b", "}$", "text", "unquote", "nl">>,
      <<"xs", "nl", "|>", "map", "(", "fn", "x", "->", "x", "+", "1", "end", ")", "nl", "|2>", "fold", "(", "0", ",", "g", ")", "nl">>,
      <<"if", "f", "(", "x", ")", "do", "1", "nl", "else", "if", "y", "do", "2", "nl", "else", "z", "end", "nl">>,
      <<"case", "f", "(", "x", ")", "do", "nl", "A", "(", "a", ",", "_", ")", "when", "a", ">", "1", "->", "b", "nl", "1", "|", "-", "1", "->", "do", "c", "nl", "end", "nl", "B", ".", "C", "(", "h", "::", "t", ")", "->", "nil", "nl", "(", "p", ",", "quote", "text", "unquote", ")", "as", "q", "->", "q", "nl", "end">>,
      <<"fn", "(", "A", "(", "x", ")", ",", "y", "::", "Int", ")", "when", "x", "->", "y", "|", "0", ",", "z", "->", "z", "|", "_", "do", "2", "nl", "end", "end">>,
      <<"let", "f", "=", "fn", "x", ",", "y", "do", "x", "nl", "y", "end">>,
      <<"fn", "do", "a", "end">>,
      <<"h", "(", "fn", "->", "1", "end", ",", "b", ")", "[", "0", "]", ".", "m">>,
      <<"return", "nl", "f", "(", ")">>,
      <<"fn", "f", "(", "self", ")", "do", "return", "self", ".", "a", "[", "b", "]", "end">>,
      <<"while", "g", "(", "a", ")", "do", "break", "nl", "continue", "end">>,
      <<"for", "{", "k", ",", "v", "}", "in", "m", "(", "x", ")", "do", "k", "nl", "v", "end", "nl", "for", "i", "in", "0", "..", "n", "when", "i", ">", "a", "do", "i", "end">>,
      <<"receive", "do", "nl", "A", "(", "x", ")", "->", "x", "nl", "b", "->", "y", "nl", "c", "when", "d", "->", "e", "nl", "after", "10", "->", "nil", "end">>,
      <<"[", "1", ",", "a", ",", "]", "nl", "(", "b", ",", "c", ")", "nl", "(", ")", "nl", "(", "d", ")">>,
      <<"%", "{", "a", "=>", "1", ",", ":k", "=>", "b", "}", "nl", "%", "{", "x", "|", "y", ":", "1", ",", "z", ":", "a", "}", "nl", "A", "{", "y", ":", "1", ",", "z", ":", "%", "{", "}", "}">>,
      <<"json", "{", "ok", ":", "true", ",", "v", ":", "a", "}", "nl", "json", "{", "}">>,
      <<"f", "(", "a", ",", "b", ":", "1", ",", "c", ":", "d", ")">>,
      <<"spawn", "(", "f", ",", "1", ")", "nl", "send", "(", "self", "(", ")", ",", "a", ")", "nl", "link", "(", "p", ")", "nl", "Node", ".", "self", "(", ")">>,
      <<"pub", "fn", "f", "<", "A", ",", "B", ">", "(", "0", ",", "x", "::", "A", ")", "->", "Int", "where", "A", ":", "Eq", ",", "B", ":", "M", ".", "Ord", "when", "x", ">", "1", "=", "x", "+", "1">>,
      <<"@", "cluster", "(", "2", ")", "pub", "fn", "w", "(", "a", ")", "do", "a", "end">>,
      <<"pub", "module", "M", "do", "nl", "import", "A", ".", "B", "nl", "from", "C", ".", "D", "import", "(", "e", ",", "f", ")", "nl", "pub", "fn", "g", "(", ")", "do", "1", "end", "nl", "end">>,
      <<"from", "A", "import", "b", ",", "c", "nl", "g", "(", "b", ")">>,
      <<"pub", "struct", "P", "<", "A", ">", "do", "nl", "x", "::", "List", "<", "A", ">", "?", "nl", "y", "::", "Fun", "(", "Int", ",", "A", ")", "->", "B", "!", "C", "nl", "belongs_to", ":u", ",", "U", "nl", "table", "quote", "text", "unquote", "nl", "primary_key", ":id", "nl", "timestamps", "true", "nl", "end", "deriving", "(", "Eq", ",", "Json", ")">>,
      <<"interface", "I", "do", "nl", "type", "T", "nl", "fn", "f", "(", "self", ",", "x", "::", "Int", ")", "->", "T", "nl", "fn", "g", "(", "self", ")", "do", "1", "end", "nl", "end">>,
      <<"impl", "I", "<", "Int", ">", "for", "A", ".", "B", "where", "T", ":", "Eq", "do", "nl", "type", "T", "=", "List", "<", "Int", ">", "nl", "fn", "f", "(", "self", ")", "=", "1", "nl", "pub", "fn", "g", "(", ")", "do", "2", "end", "nl", "end">>,
      <<"pub", "type", "S", "<", "A", ">", "do", "nl", "R", "(", "w", "::", "Int", ",", "h", "::", "A", ")", "nl", "C", "(", "Int", ",", "List", "<", "A", ">", ")", "nl", "N", "nl", "end", "deriving", "(", "Eq", ")">>,
      <<"pub", "type", "U", "<", "A", ">", "=", "(", "A", ",", "M", ".", "B", ")">>,
      <<"actor", "W", "(", "n", "::", "Int", ")", "do", "nl", "receive", "do", "m", "->", "m", "end", "nl", "terminate", "do", "f", "(", "n", ")", "end", "nl", "W", "(", "n", ")", "end">>,
      <<"pub", "supervisor", "S", "do", "nl", "strategy", ":", "one", "nl", "max_restarts", ":", "3", "nl", "max_seconds", ":", "5", "nl", "child", "a", "do", "nl", "start", ":", "fn", "->", "spawn", "(", "W", ",", "1", ")", "end", "nl", "restart", ":", "permanent", "nl", "shutdown", ":", "10", "nl", "end", "nl", "end">>,
      <<"service", "Q", "do", "nl", "fn", "init", "(", "n", ")", "do", "n", "end", "nl", "call", "Get", "(", "k", "::", "Int", ")", "::", "Int", "do", "|", "st", "|", "nl", "(", "st", ",", "k", ")", "end", "nl", "cast", "Put", "(", "v", ")", "do", "|", "st", "|", "v", "end", "nl", "end">>,
      <<"g", "(", "x", ")", "do", "|", "e", "|", "e", "end">>,
      <<"a", "#", "b", "nl", "nl", "c", ";", "d">>
    }
Source == INSTANCE Syntax WITH
    Uppers <- {"A", "B", "C", "D", "E", "I", "M", "N", "P", "Q", "R", "S", "T", "U", "W", "Int", "List", "Eq", "Ord", "Json", "Fun",
               "Get", "Put", "Node"},
    Ints <- {"0", "1", "2", "3", "5", "10"}, Atoms <- {":k", ":u", ":id"}, Comments <- {"#"},
    Corpus <- Texts, Layouts <- {"#", "nl"}, Edits <- {"nl", "do", "x"}

(* Programs for type inference: shapes of the language filled with a few    *)
(* expressions each, so that most agree, and many do not.                   *)
Node(k, x, n, t, a, w) == [k |-> k, x |-> x, n |-> n, t |-> t, a |-> a, w |-> w]
Part(k, x, a) == Node(k, x, 0, <<>>, a, <<>>)
Ty(c, a) == [k |-> IF a = <<>> THEN "con" ELSE "app", n |-> 0, c |-> c, a |-> a]
Whole == Ty("Int", <<>>)
Words == Ty("String", <<>>)
None == Part("none", "", <<>>)
At(x) == Part("name", x, <<>>)
Value(c) == Part("lit", c, <<>>)
One == Value("Int")
Text == Value("String")
Yes == Value("Bool")
Do(o, a) == Part("bin", o, a)
Not(e) == Part("un", "not", <<e>>)
Call(f, a) == Part("call", "", <<At(f)>> \o a)
Pipe(n, e, to) == Node("pipe", "", n, <<>>, <<e, to>>, <<>>)
Both(a, b) == Part("tuple", "", <<a, b>>)
All(a) == Part("list", "", a)
If(a) == Part("if", "", a)
Block(a) == Part("block", "", a)
For(names, in, filter, body) == Part("for", "", <<in, filter, body>> \o [i \in DOMAIN names |-> At(names[i])])
Return(e) == Part("return", "", <<e>>)
Try(e) == Part("try", "", <<e>>)
Break == Part("break", "", <<>>)

Arg(x) == Part("param", x, <<>>)
Is(x, t) == Node("param", x, 0, <<t>>, <<>>, <<>>)
Wild == Part("pwild", "", <<>>)
Bind(x) == Part("pvar", x, <<>>)
Literal(c) == Part("plit", c, <<>>)
Con(c, a) == Part("pcon", c, a)
Pair(p, q) == Part("ptuple", "", <<p, q>>)
Or(p, q) == Part("por", "", <<p, q>>)
As(p, x) == Part("pas", x, <<p>>)
Cons(p, q) == Part("pcons", "", <<p, q>>)

Clause(ps, g, b) == Node("clause", "", Len(ps), <<>>, ps \o <<g, b>>, <<>>)
When(p, g, b) == Clause(<<p>>, g, b)
Arm(p, b) == When(p, None, b)
Case(e, arms) == Part("case", "", <<e>> \o arms)
Lambda(xs, b) == Part("closure", "", <<Clause([i \in DOMAIN xs |-> Arg(xs[i])], None, b)>>)
Let(x, e) == Node("let", x, 0, <<>>, <<e>>, <<>>)
Said(x, t, e) == Node("let", x, 0, <<t>>, <<e>>, <<>>)
Split(p, e) == Node("let", "", 0, <<>>, <<e, p>>, <<>>)
Item(k, x, ps, g, t, b, w) == Node(k, x, Len(ps), t, ps \o <<g, b>>, w)
Fn(x, ps, b) == Item("fn", x, ps, None, <<>>, b, <<>>)
FnIs(x, ps, t, b) == Item("fn", x, ps, None, <<t>>, b, <<>>)
Eqn(x, ps, b) == Item("fn=", x, ps, None, <<>>, b, <<>>)
EqnIf(x, ps, g, b) == Item("fn=", x, ps, g, <<>>, b, <<>>)
Bounded(x, trait, ps, b) == Item("fn", x, ps, None, <<>>, b, <<<<"T", "">>, <<"T", trait>>>>)
TVar == Ty("T", <<>>)
Args(xs) == [i \in DOMAIN xs |-> Arg(xs[i])]
X == At("x")
Y == At("y")
-----------------------------------------------------------------------------
Leaves == {One, Text, X, Y}
Ops == {"+", "==", "<", "and", "<>", "++", ".."}
Operators == {<<Fn("f", Args(<<"x", "y">>), Do(o, <<a, b>>))>> : o \in Ops, a \in Leaves, b \in {One, Text, Yes, Y}} \cup
             {<<Lambda(<<"x", "y">>, Do(o, <<Do(q, <<X, Y>>), a>>))>> : o \in Ops \ {".."}, q \in {"-", "!=", "or", "<>"}, a \in {X, One, Yes}} \cup
             {<<Lambda(<<"x">>, Part("un", o, <<e>>))>> : o \in {"-", "not"}, e \in {X, One, Yes, Text, Do("<", <<X, One>>)}}

(* A name at two types, by what gives it its type.                          *)
Same == {Lambda(<<"x">>, X), Lambda(<<"x">>, Do("+", <<X, One>>)), At("id"), All(<<>>), At("None"), At("Some"),
         Lambda(<<"x">>, All(<<X>>))}
Uses == {All(<<At("g"), At("g")>>), Both(Call("g", <<One>>), Call("g", <<Text>>)), Call("g", <<Call("g", <<One>>)>>),
         All(<<At("g"), Part("list", "", <<One>>)>>)}
Polymorphic == {<<Fn("id", Args(<<"z">>), At("z")), Let("g", e), u>> : e \in Same, u \in Uses} \cup
               {<<Fn("h", Args(<<"y">>), Block(<<Let("g", e), u>>)), Call("h", <<a>>)>> :
                    e \in {Lambda(<<"x">>, X), Lambda(<<"x">>, Y), Y, At("h")}, u \in {Both(Call("g", <<One>>), Call("g", <<Text>>)), At("g")},
                    a \in {One, Lambda(<<"x">>, X)}} \cup
               {<<Fn("f", Args(<<"g">>), u), e>> : u \in Uses, e \in {At("f"), Call("f", <<Lambda(<<"x">>, X)>>)}} \cup
               {<<Fn("f", Args(<<"g">>), Call("g", <<At("g")>>))>>, <<Fn("id", Args(<<"x">>), X), Call("id", <<At("id")>>)>>}

(* Recursion, and functions that are used before they are given.            *)
Recursive == {<<Fn("f", Args(<<"x">>), b), u>> :
                  b \in {Call("f", <<X>>), Call("f", <<Call("f", <<X>>)>>), If(<<Do("<", <<X, One>>), X, Call("f", <<Do("-", <<X, One>>)>>)>>),
                         If(<<Do("==", <<X, One>>), Text, Call("f", <<X>>)>>), If(<<X, Call("f", <<One>>), X>>), At("f")},
                  u \in {At("f"), Call("f", <<One>>), Call("f", <<Text>>)}} \cup
             {<<Fn("f", Args(<<"x">>), Call("g", <<a>>)), Fn("g", Args(<<"y">>), b), u>> :
                  a \in {X, Text}, b \in {Y, Do("+", <<Y, One>>), One},
                  u \in {Call("f", <<One>>), Call("f", <<Text>>), Call("g", <<One>>), Do("+", <<Call("f", <<One>>), One>>)}} \cup
             {<<FnIs("f", <<Is("x", Whole)>>, r, Call("g", <<a>>)), Fn("g", Args(<<"y">>), b)>> :
                  r \in {Whole, Words}, a \in {X, Text}, b \in {Do("+", <<Y, One>>), If(<<Yes, Y, Call("f", <<One>>)>>)}}

Ending == {One, Text, X, Return(One), Return(Text), Block(<<>>), Call("println", <<Text>>), Block(<<Return(X), Text>>)}
Branches == {<<Fn("f", Args(<<"x">>), If(<<c, a, b>>)), At("f")>> : c \in {Yes, X}, a, b \in Ending} \cup
            {<<Fn("f", Args(<<"x">>), Block(<<If(<<Yes, a>>), b>>))>> : a, b \in Ending} \cup
            {<<FnIs("f", Args(<<"x">>), Whole, Block(<<If(<<Do("<", <<X, One>>), a>>), b>>)), Call("f", <<One>>)>> : a, b \in Ending} \cup
            {<<Fn("f", Args(<<"x">>), Block(<<Let("k", Lambda(<<"y">>, b)), Both(Call("k", <<One>>), a)>>))>> : a, b \in Ending}

(* What a block binds, seen from outside of it.                             *)
Inner == {Let("y", One), Let("y", Text), Let("x", Text), Split(Pair(Bind("x"), Bind("y")), Both(One, Text)),
          Split(Con("Some", <<Bind("y")>>), Call("Some", <<One>>)), Fn("y", <<>>, One)}
Scopes == {<<Let("x", One), If(<<Yes, Block(<<i, a>>), b>>), c>> : i \in Inner, a \in {One, X, Y}, b \in {One, Y}, c \in {Do("+", <<X, One>>), Y}}

Matched == {Call("Some", <<One>>), Call("Some", <<All(<<>>)>>), Call("Ok", <<One>>), All(<<One>>), Both(One, Text), One, Call("compare", <<One, One>>)}
Arms == {Arm(Wild, One), Arm(Bind("y"), Y), Arm(Con("Some", <<Bind("y")>>), Y), Arm(Con("None", <<>>), One), Arm(Bind("None"), One),
         Arm(Con("Ok", <<Bind("y")>>), Y), Arm(Con("Err", <<Bind("y")>>), Y), Arm(Literal("Int"), One), Arm(Cons(Bind("y"), Wild), Y),
         Arm(Cons(Wild, Bind("y")), Call("head", <<Y>>)), Arm(Pair(Bind("y"), Wild), Y), Arm(As(Con("Some", <<Wild>>), "y"), Text),
         When(Bind("y"), Do("<", <<Y, One>>), Y), When(Bind("y"), Do("+", <<Y, One>>), Y), When(Wild, At("v"), One),
         Arm(Or(Con("Ok", <<Bind("y")>>), Con("Err", <<Bind("y")>>)), Y), Arm(Con("Less", <<>>), One), Arm(Con("Option.Some", <<Wild>>), One),
         Arm(Or(Literal("Int"), Bind("y")), One), Arm(Or(Con("None", <<>>), Con("Some", <<Wild>>)), One),
         Arm(Con("Some", <<Wild, Wild>>), One), Arm(Con("None", <<Wild>>), One), Arm(As(Pair(Wild, Bind("y")), "z"), Both(Y, At("z")))}
Cases == {<<Fn("f", Args(<<"v">>), Case(At("v"), <<a, b>>))>> : a, b \in Arms} \cup
         {<<Fn("f", Args(<<"v">>), Case(e, <<a, Arm(Wild, b)>>))>> : e \in Matched, a \in Arms, b \in {One, Text}}

(* Functions of several clauses, and closures of several.                   *)
Clauses == {<<<<Literal("Int")>>, None, Text>>, <<<<Bind("n")>>, None, At("n")>>, <<<<Wild>>, None, Text>>, <<<<Con("Some", <<Bind("n")>>)>>, None, At("n")>>,
            <<<<Bind("None")>>, None, One>>, <<<<Arg("n")>>, Do("==", <<At("n"), One>>), At("n")>>, <<<<Cons(Bind("n"), Wild)>>, None, At("n")>>,
            <<<<Is("n", Words)>>, None, One>>, <<<<Arg("n")>>, None, Call("f", <<At("n")>>)>>, <<<<Arg("n")>>, None, Return(One)>>}
Several == {<<EqnIf("f", c[1], c[2], c[3]), EqnIf("f", d[1], d[2], d[3]), u>> : c, d \in Clauses, u \in {At("f"), Call("f", <<One>>)}} \cup
           {<<Part("closure", "", <<Clause(c[1], c[2], c[3]), Clause(d[1], d[2], d[3])>>)>> : c, d \in Clauses} \cup
           {<<Eqn("f", <<Literal("Int")>>, One), i, Eqn("f", <<Wild>>, One), Call("f", <<One>>)>> : i \in {One, Let("a", One), Eqn("f", Args(<<"x", "y">>), X)}} \cup
           {<<EqnIf("f", c[1], c[2], c[3])>> : c \in Clauses}

Compare == Do("==", <<X, Y>>)
Boundeds == {<<Bounded("f", t, <<Is("x", TVar), p>>, b), u>> :
                 t \in {"Eq", "Hash"}, p \in {Is("y", TVar), Arg("y")}, b \in {Compare, X, Both(X, Y)},
                 u \in {At("f"), Call("f", <<One, One>>), Call("f", <<One, Text>>), Call("f", <<All(<<One>>), All(<<One>>)>>),
                        Call("f", <<Lambda(<<"x">>, X), Lambda(<<"x">>, X)>>), Pipe(1, One, Call("f", <<Text>>)), Pipe(2, One, Call("f", <<One>>)),
                        Call("reduce", <<All(<<One>>), Yes, At("f")>>), Call("reduce", <<All(<<All(<<One>>)>>), All(<<One>>), At("f")>>),
                        Block(<<Let("g", At("f")), Call("g", <<All(<<One>>), All(<<One>>)>>)>>)}}

Piped == {<<Fn("f", Args(<<"x", "y">>), b), Pipe(n, e, to)>> :
              b \in {Do("+", <<X, One>>), Do("<>", <<Y, Text>>)}, n \in 1..3, e \in {One, Text},
              to \in {Call("f", <<Text>>), Call("f", <<One>>), Call("f", <<>>), Call("f", <<One, Text>>)}} \cup
         {<<Fn("k", Args(<<"g">>), Pipe(n, One, Call("g", a)))>> : n \in 1..3, a \in {<<>>, <<Text>>, <<Text, One>>}} \cup
         {<<Pipe(1, e, to)>> : e \in {One, Text, All(<<One>>)}, to \in {At("println"), At("head"), Lambda(<<"x">>, X), Call("map", <<Lambda(<<"x">>, All(<<X>>))>>)}} \cup
         {<<Call("reduce", <<e, a, Lambda(<<"x", "y">>, b)>>)>> : e \in {All(<<One>>), All(<<Text>>)}, a \in {One, Text}, b \in {X, Y, Do("++", <<X, Y>>)}}

Loops == {<<Fn("f", Args(<<"p">>), For(ns, c, f, b))>> :
              ns \in {<<"x">>, <<"x", "y">>}, c \in {All(<<Text>>), Part("map", "", <<Text, One>>), Do("..", <<One, At("p")>>), Call("map", <<All(<<One>>), At("Some")>>)},
              f \in {Yes, Do("==", <<X, One>>)}, b \in {X, If(<<Yes, Break, X>>), Y, Do("+", <<X, One>>), Lambda(<<"z">>, X)}} \cup
         {<<Fn("f", Args(<<"x">>), Part("while", "", <<c, b>>))>> : c \in {Yes, X, One}, b \in {Break, If(<<X, Break>>), Lambda(<<"y">>, Break), Do("+", <<X, One>>)}} \cup
         {<<If(<<Yes, Break>>)>>}

Results == {Ty("Result", <<Whole, Words>>), Ty("Result", <<Words, Words>>)}
Tried == {Call("Ok", <<One>>), Call("Err", <<One>>), Call("Err", <<Text>>), Call("Some", <<One>>), One}
Errors == {<<FnIs("f", Args(<<"x">>), t, Block(<<Let("y", Try(e)), b>>)), At("f")>> :
               t \in Results \cup {Ty("Option", <<Whole>>)}, e \in Tried, b \in {Call("Ok", <<Y>>), Call("Some", <<Y>>), Y}} \cup
          {<<FnIs("f", Args(<<"x">>), t, Block(<<Let("y", Try(X)), b>>)), At("f")>> : t \in Results, b \in {Call("Ok", <<Y>>), Y, Try(X)}} \cup
          {<<Fn("f", Args(<<"x">>), Try(e))>> : e \in {X, Call("Some", <<One>>)}}

Data == {<<Fn("f", Args(<<"x">>), Part("map", "", <<X, a, b, One>>))>> : a \in {One, X}, b \in {One, Text, X}} \cup
        {<<Lambda(<<"x">>, All(<<a, X, b>>))>> : a, b \in {One, Text, X, All(<<>>)}} \cup
        {<<Lambda(<<"x">>, Part(k, "", <<X, One>>))>> : k \in {"text", "json"}} \cup
        {<<Said("a", t, e), At("a")>> : t \in {Whole, Ty("List", <<Whole>>), Ty("Option", <<Words>>)}, e \in {One, All(<<>>), All(<<Text>>), At("None")}} \cup
        {<<Lambda(<<"x">>, Block(<<Split(p, e), Y>>))>> : p \in {Pair(Bind("y"), Wild), Con("Some", <<Bind("y")>>), Cons(Bind("y"), Wild)},
              e \in {X, Both(X, One), Call("Some", <<X>>), All(<<X>>)}} \cup
        {<<FnIs("f", <<Is("x", a)>>, b, X), Call("f", <<c>>)>> : a, b \in {Whole, Words}, c \in {One, Text}} \cup
        {<<Part("index", "", <<All(<<One>>), One>>)>>, <<At("nowhere")>>, <<Fn("f", <<>>, Value("nil")), Call("f", <<>>)>>, <<Do("==", <<All(<<>>), All(<<>>)>>)>>,
         <<Call("println", <<Call("default", <<>>)>>)>>, <<Part("tuple", "", <<One>>)>>, <<Fn("f", Args(<<"x">>), Not(X)), Call("f", <<Text>>)>>}

Programs == Operators \cup Polymorphic \cup Recursive \cup Branches \cup Scopes \cup Cases \cup Several \cup Boundeds \cup Piped \cup Loops \cup Errors \cup Data

Inferred == INSTANCE Typing WITH Programs <- Programs

SourceIdle == text = <<>> /\ how = "" /\ read = <<>> /\ meant = <<>>
TypesIdle == program = <<>> /\ typed = <<>>

LanguageInit ==
    \/ part = "source" /\ Source!Init /\ TypesIdle
    \/ part = "types" /\ Inferred!Init /\ SourceIdle

LanguageNext ==
    /\ UNCHANGED part
    /\ \/ part = "source" /\ Source!Next /\ UNCHANGED <<program, typed>>
       \/ part = "types" /\ Inferred!Next /\ UNCHANGED <<text, how, read, meant>>

LanguageSpec == LanguageInit /\ [][LanguageNext]_<<part, text, how, read, meant, program, typed>>
-----------------------------------------------------------------------------
(* mesh-parser: what is written in the language is read as it is meant, in   *)
(* every layout of it, and of a text that is accepted nothing is lost.       *)
WrittenIsRead == part = "source" => Source!WrittenIsRead /\ Source!NothingIsDropped

(* infer.rs: a program that has a type is accepted, at its most general      *)
(* type, and one that is accepted has the type that was found, where nothing *)
(* was taken on trust.                                                       *)
TypesAreFound == part = "types" => Inferred!TypesAreFound
=============================================================================
