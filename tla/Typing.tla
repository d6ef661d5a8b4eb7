------------------------------- MODULE Typing --------------------------------
(* What inference is to find: the types of a program by rules that guess.   *)
(* Has(e, env) are the types over Ground an expression has where a name has *)
(* each of the types env holds for it.  A rule that has to choose between   *)
(* meanings gives nothing, and so does what the source leaves to later.     *)
EXTENDS Inference

Basic == {Integer, String}
Ground == Basic \cup {Bool, Unit} \cup {List(t) : t \in Basic} \cup {Option(t) : t \in Basic} \cup {Result(t, String) : t \in Basic}
          \cup {Fun(<<t>>, u) : t \in Basic, u \in Basic \cup {Bool}}

Known ==
    [println |-> {Fun(<<String>>, Unit)}, default |-> {Fun(<<>>, t) : t \in Ground},
     compare |-> {Fun(<<t, t>>, Con("Ordering")) : t \in Ground},
     map |-> {Fun(<<List(t), Fun(<<t>>, u)>>, List(u)) : t, u \in Ground},
     filter |-> {Fun(<<List(t), Fun(<<t>>, Bool)>>, List(t)) : t \in Ground},
     reduce |-> {Fun(<<List(t), u, Fun(<<u, t>>, u)>>, u) : t, u \in Ground},
     head |-> {Fun(<<List(t)>>, t) : t \in Ground}, tail |-> {Fun(<<List(t)>>, List(t)) : t \in Ground},
     Some |-> {Fun(<<t>>, Option(t)) : t \in Ground}, None |-> {Option(t) : t \in Ground},
     Ok |-> {Fun(<<t>>, Result(t, u)) : t \in Ground, u \in Basic}, Err |-> {Fun(<<u>>, Result(t, u)) : t \in Ground, u \in Basic},
     Less |-> {Con("Ordering")}, Equal |-> {Con("Ordering")}, Greater |-> {Con("Ordering")}]

(* An expression that does not come back fits wherever it stands.           *)
Fits(t, A) == A \cap {t, Never} # {}
Meet(A, B) == (A \cap B) \cup (IF Never \in A THEN B ELSE {}) \cup (IF Never \in B THEN A ELSE {})
RECURSIVE MeetAll(_), Products(_)
MeetAll(As) == IF Len(As) = 1 THEN As[1] ELSE Meet(As[1], MeetAll(Tail(As)))
Products(As) == IF As = <<>> THEN {<<>>} ELSE {<<t>> \o r : t \in As[1] \ {Never}, r \in Products(Tail(As))}

RECURSIVE Occurs(_, _), Escapes(_, _)
Occurs(e, x) == (e.k = "name" /\ e.x = x) \/ \E i \in DOMAIN e.a : Occurs(e.a[i], x)
Escapes(e, ks) == e.k \in ks \/ (e.k # "closure" /\ ~IsFn(e) /\ \E i \in DOMAIN e.a : Escapes(e.a[i], ks))

(* What a pattern binds where it stands for a type: nothing, or one function*)
Fields(x, t) ==
    CASE x \in {"Some", "Option.Some"} /\ t.c = "Option" -> {<<t.a[1]>>}
      [] x \in {"None", "Option.None"} /\ t.c = "Option" -> {<<>>}
      [] x \in {"Ok", "Result.Ok"} /\ t.c = "Result" -> {<<t.a[1]>>}
      [] x \in {"Err", "Result.Err"} /\ t.c = "Result" -> {<<t.a[2]>>}
      [] x \in {"Less", "Equal", "Greater"} /\ t.c = "Ordering" -> {<<>>}
      [] OTHER -> {}
RECURSIVE Matches(_, _, _), MatchesAll(_, _, _)
Matches(p, t, env) ==
    LET each == {Matches(p.a[i], t, env) : i \in DOMAIN p.a}
    IN  CASE p.k = "param" -> {p.x :> {t}}
          [] p.k = "pvar" /\ p.x \in Constructors -> {<<>> : f \in {g \in Fields(p.x, t) : g = <<>>}}
          [] p.k = "pvar" /\ p.x \notin Constructors -> IF p.x \in DOMAIN env THEN {} ELSE {p.x :> {t}}
          [] p.k = "pwild" -> {<<>>}
          [] p.k = "plit" -> IF t = Con(p.x) THEN {<<>>} ELSE {}
          [] p.k = "ptuple" -> IF t.k = "tuple" THEN MatchesAll(p.a, t.a, env) ELSE {}
          [] p.k = "pcon" -> UNION {MatchesAll(p.a, f, env) : f \in Fields(p.x, t)}
          [] p.k = "por" -> IF Cardinality(each) = 1 THEN CHOOSE m \in each : TRUE ELSE {}
          [] p.k = "pas" -> {(p.x :> {t}) @@ m : m \in Matches(p.a[1], t, env)}
          [] p.k = "pcons" -> IF t.c = "List" /\ t.a # <<>> THEN MatchesAll(p.a, <<t.a[1], t>>, env) ELSE {}
MatchesAll(ps, ts, env) ==
    CASE Len(ps) # Len(ts) -> {}
      [] ps = <<>> /\ ts = <<>> -> {<<>>}
      [] OTHER -> {m @@ n : m \in Matches(ps[1], ts[1], env), n \in MatchesAll(Tail(ps), Tail(ts), env)}

(* An annotation may name a type parameter.                                 *)
Meant(t, env) == IF t.k = "con" /\ t.c \in DOMAIN env THEN CHOOSE u \in env[t.c] : TRUE ELSE t
Without(env, names) == [x \in DOMAIN env \ names |-> env[x]]

RECURSIVE Has(_, _), HasClause(_, _, _), HasFn(_, _), HasSteps(_, _), HasBlock(_, _)
HasClauses(cs, ts, env) == MeetAll([i \in DOMAIN cs |-> HasClause(cs[i], ts, env)])
HasClause(c, ts, env) ==
    UNION {LET in == m @@ env
           IN  IF Guard(c) # NoBody /\ ~Fits(Bool, Has(Guard(c), in)) THEN {} ELSE Has(Body(c), in)
           : m \in MatchesAll(Params(c), ts, env)}

(* A body with a type of its own: guessed where it returns, gives an error  *)
(* up, or calls itself.                                                     *)
Own(cs, ts, env, name, said) ==
    LET in == Without(env, {"@ret", "@loop"})
        self(r) == IF name = "" THEN <<>> ELSE name :> {Fun(ts, r)}
        bodies == {Body(cs[i]) : i \in DOMAIN cs}
        guessed == said # {} \/ \E b \in bodies : Occurs(b, name) \/ Escapes(b, {"return", "try"})
        rs == IF said = {} THEN Ground ELSE said
    IN  IF guessed THEN {r \in rs : Fits(r, HasClauses(cs, ts, self(r) @@ ("@ret" :> {r}) @@ in))}
        ELSE HasClauses(cs, ts, in)
Said(cs, i, env) == {Meant(cs[j].a[i].t[1], env) : j \in {k \in DOMAIN cs : cs[k].a[i].t # <<>>}}
ParamTypes(cs, env) == Products([i \in 1..cs[1].n |-> IF Said(cs, i, env) = {} THEN Ground ELSE Said(cs, i, env)])

HasFn(cs, env) ==
    LET e == cs[1]
        allowed == {f \in [Range(Generics(e)) -> Ground] : \A w \in Range(e.w) : w[2] # "" => has_impl(w[2], <<>>, f[w[1]])}
        In(f) == [p \in DOMAIN f |-> {f[p]}] @@ env
        said(f) == IF e.t = <<>> THEN {} ELSE {Meant(e.t[1], In(f))}
    IN  UNION {UNION {{Fun(ts, r) : r \in Own(cs, ts, In(f), e.x, said(f))} : ts \in ParamTypes(cs, In(f))} : f \in allowed}
HasClosure(cs, env) ==
    UNION {{Fun(ts, r) : r \in Own(cs, ts, env, "", {})} : ts \in ParamTypes(cs, env)}

Applied(F, As) == {f.a[Len(f.a)] : f \in {g \in F : /\ g.k = "fun" /\ Len(g.a) = Len(As) + 1
                                                   /\ \A i \in DOMAIN As : Fits(g.a[i], As[i])}}
AllTyped(es, env) == \A i \in DOMAIN es : Has(es[i], env) # {}

HasBinary(e, env) ==
    LET A == Meet(Has(e.a[1], env), Has(e.a[2], env)) \ {Never}
        When(ok, t) == IF ok THEN {t} ELSE {}
    IN  CASE e.x \in DOMAIN Arithmetic -> A \cap {Integer, Con("Float")}
          [] e.x \in {"==", "!="} -> When(\E t \in A : has_impl("Eq", <<>>, t), Bool)
          [] e.x \in {"<", ">", "<=", ">="} -> When(\E t \in A : has_impl("Ord", <<>>, t), Bool)
          [] e.x \in {"and", "or", "&&", "||"} -> A \cap {Bool}
          [] e.x = "<>" -> A \cap {String}
          [] e.x = "++" -> {t \in A : t = String \/ t.c = "List"}
          [] OTHER -> {}
Piped(e) ==
    LET to == e.a[2] IN IF to.k # "call" THEN <<to, e.a[1]>> ELSE <<to.a[1]>> \o InsertAt(Tail(to.a), e.n, e.a[1])
HasCall(es, env) == Applied(Has(es[1], env), [i \in 1..(Len(es) - 1) |-> Has(es[i + 1], env)])

Elements(t) ==
    CASE t.k = "app" /\ t.c = "List" -> {<<t.a[1]>>}
      [] t.k = "app" /\ t.c = "Map" -> {t.a}
      [] OTHER -> {}
HasFor(e, env) ==
    LET range == e.a[1].k = "bin" /\ e.a[1].x = ".."
        ts == IF range THEN {<<Integer>> : i \in {j \in 1..1 : \A n \in 1..2 : Fits(Integer, Has(e.a[1].a[n], env))}}
              ELSE UNION {Elements(t) : t \in Has(e.a[1], env)}
        names == SubSeq(e.a, 4, Len(e.a))
        In(t) == [x \in {names[i].x : i \in DOMAIN names} |-> {t[CHOOSE i \in DOMAIN names : names[i].x = x]}] @@ ("@loop" :> {Unit}) @@ env
    IN  UNION {IF Len(names) > Len(t) \/ ~Fits(Bool, Has(e.a[2], In(t))) THEN {}
               ELSE {List(IF u = Never THEN Unit ELSE u) : u \in Has(e.a[3], In(t))} : t \in ts}

(* One kind of value fails, and its error is that of the function.          *)
HasTry(e, env) ==
    LET A == Has(e.a[1], env)
        errors == {t.a[2] : t \in {u \in A : u.c = "Result"}}
        Gives(t, r) == \/ t.c = "Option" /\ r.c = "Option"
                       \/ t.c = "Result" /\ r.c = "Result" /\ t.a[2] = r.a[2]
                       \/ t.c = "Result" /\ r.c = "Result" /\ Cardinality(errors) = 1 /\ has_impl("From", <<t.a[2]>>, r.a[2])
    IN  IF Cardinality({t.c : t \in A}) # 1 \/ "@ret" \notin DOMAIN env THEN {}
        ELSE {t.a[1] : t \in {u \in A : \E r \in env["@ret"] : Gives(u, r)}}

HasItems(es, env, from) == MeetAll([i \in 1..Cardinality({j \in DOMAIN es : (j + from) % 2 = 0}) |-> Has(es[2 * i - from], env)])
HasMap(e, env) ==
    IF e.a = <<>> THEN {Map(t, u) : t, u \in Ground} ELSE {Map(t, u) : t \in HasItems(e.a, env, 1), u \in HasItems(e.a, env, 0)}
HasList(e, env) ==
    {List(t) : t \in IF e.a = <<>> THEN Ground ELSE MeetAll([i \in DOMAIN e.a |-> Has(e.a[i], env)]) \ {Never}}

Has(e, env) ==
    CASE e.k = "lit" -> {IF e.x = "nil" THEN Unit ELSE Con(e.x)}
      [] e.k = "name" -> IF e.x \in DOMAIN env THEN env[e.x] ELSE {}
      [] e.k = "bin" -> HasBinary(e, env)
      [] e.k = "un" -> Has(e.a[1], env) \cap (IF e.x = "-" THEN {Integer, Con("Float")} ELSE {Bool})
      [] e.k = "call" -> HasCall(e.a, env)
      [] e.k = "pipe" -> IF e.n > 1 /\ e.n > Len(e.a[2].a) THEN {} ELSE HasCall(Piped(e), env)
      [] e.k = "if" -> IF ~Fits(Bool, Has(e.a[1], env)) THEN {}
                       ELSE IF Len(e.a) = 2 THEN {Unit : t \in {u \in Has(e.a[2], env) : u \in {Unit, Never}}}
                       ELSE Meet(Has(e.a[2], env), Has(e.a[3], env))
      [] e.k = "closure" -> HasClosure(e.a, env)
      [] e.k = "block" -> HasBlock(e.a, env)
      [] e.k = "tuple" -> IF Len(e.a) = 1 THEN Has(e.a[1], env) ELSE {Tuple(ts) : ts \in Products([i \in DOMAIN e.a |-> Has(e.a[i], env)])}
      [] e.k = "case" -> IF \E i \in 2..Len(e.a) : ~validate_guard_expr(Guard(e.a[i])) THEN {}
                         ELSE UNION {HasClauses(Tail(e.a), <<t>>, env) : t \in Has(e.a[1], env)}
      [] e.k = "return" -> IF "@ret" \in DOMAIN env /\ \E r \in env["@ret"] : Fits(r, IF e.a = <<>> THEN {Unit} ELSE Has(e.a[1], env))
                           THEN {Never} ELSE {}
      [] e.k = "text" -> IF AllTyped(e.a, env) THEN {String} ELSE {}
      [] e.k = "json" -> IF AllTyped(e.a, env) THEN {Con("Json")} ELSE {}
      [] e.k = "map" -> HasMap(e, env)
      [] e.k = "list" -> HasList(e, env)
      [] e.k = "while" -> IF Fits(Bool, Has(e.a[1], env)) /\ Has(e.a[2], ("@loop" :> {Unit}) @@ env) # {} THEN {Unit} ELSE {}
      [] e.k \in {"break", "continue"} -> IF "@loop" \in DOMAIN env THEN {Never} ELSE {}
      [] e.k = "for" -> HasFor(e, env)
      [] e.k = "try" -> HasTry(e, env)
      [] OTHER -> {}

(* The groups of a block.  A let may hide a name of its own block only.     *)
Steps(gs, env, T) ==
    LET e == gs[1][1]
        said == IF e.k = "let" /\ e.t # <<>> THEN {t \in {e.t[1]} : Fits(t, T)} ELSE T
        bindings == CASE ~IsItem(e) -> {<<>>}
                      [] IsItem(e) /\ e.x # "" -> IF e.x \in env["@outer"] THEN {} ELSE {e.x :> said}
                      [] OTHER -> UNION {Matches(e.a[2], t, env) : t \in said}
    IN  CASE said = {} \/ bindings = {} -> {}
          [] Len(gs) = 1 -> said
          [] OTHER -> UNION {HasSteps(Tail(gs), m @@ env) : m \in bindings}
HasSteps(gs, env) ==
    LET e == gs[1][1]
    IN  Steps(gs, env, IF IsFn(e) THEN HasFn(gs[1], env) ELSE Has(IF e.k = "let" THEN e.a[1] ELSE e, env))
Grouped(body) == LET gs == group_multi_clause_fns(body) IN SelectSeq(gs, LAMBDA g : g # <<>>)
WellGrouped(gs) ==
    /\ \A i, j \in DOMAIN gs : i < j => ~SameFn(gs[i][1], gs[j][1])
    /\ \A i \in DOMAIN gs : \A j \in 1..(Len(gs[i]) - 1) : ~is_catch_all_clause(gs[i][j])
HasBlock(body, env) ==
    LET gs == Grouped(body)
    IN  CASE body = <<>> -> {Unit}
          [] body # <<>> /\ ~WellGrouped(gs) -> {}
          [] OTHER -> HasSteps(gs, ("@outer" :> DOMAIN env) @@ env)

(* A function that is used before it is given has one type throughout.      *)
RECURSIVE HasItemsOf(_, _, _)
AfterFn(gs, env, early, T) ==
    LET name == gs[1][1].x
        here == IF name \in DOMAIN early THEN T \cap early[name] ELSE T
    IN  IF here = {} \/ Len(gs) = 1 THEN here ELSE HasItemsOf(Tail(gs), (name :> here) @@ env, early)
HasItemsOf(gs, env, early) ==
    IF IsFn(gs[1][1]) THEN AfterFn(gs, env, early, HasFn(gs[1], env)) ELSE HasSteps(gs, ("@outer" :> {}) @@ env)
Types(p) ==
    LET gs == Grouped(p)
        early == {i \in DOMAIN gs : /\ IsFn(gs[i][1])
                                    /\ \E j \in 1..(i - 1) : \E c \in Range(gs[j]) : Occurs(c, gs[i][1].x)}
        e == gs[CHOOSE i \in early : TRUE][1]
        guesses == IF early = {} THEN {<<>>} ELSE {e.x :> {Fun(ts, r)} : ts \in [1..e.n -> Ground], r \in Ground}
    IN  IF ~WellGrouped(gs) \/ Cardinality(early) > 1 THEN {} ELSE UNION {HasItemsOf(gs, g @@ Known, g) : g \in guesses}
-----------------------------------------------------------------------------
(* The type that was found, with types for its variables.                   *)
RECURSIVE Bindings(_, _), Given(_, _)
Bindings(t, u) ==
    CASE t.k = "never" -> {}
      [] t.k = "var" -> {<<t.n, u>>}
      [] t.c = u.c /\ Len(t.a) = Len(u.a) /\ (t.k = u.k \/ t.a = <<>>) -> UNION {Bindings(t.a[i], u.a[i]) : i \in DOMAIN t.a}
      [] OTHER -> {<<0, t>>, <<0, NoType>>}
IsInstance(t, u) == LET b == Bindings(t, u) IN \A p, q \in b : p[1] = q[1] => p[2] = q[2]
Given(t, f) == IF t.k = "var" THEN f[t.n] ELSE IF t.k = "app" /\ t.a = <<>> THEN Con(t.c) ELSE Each(LAMBDA u : Given(u, f), t)

RECURSIVE HasNever(_), WithinGround(_)
HasNever(t) == t.k = "never" \/ \E i \in DOMAIN t.a : HasNever(t.a[i])
WithinGround(t) == \A i \in DOMAIN t.a : IF t.k = "fun" /\ i < Len(t.a) THEN t.a[i] \in Ground ELSE WithinGround(t.a[i])
Settled(o) ==
    CASE o[1] = "same" -> o[2].a[1] = o[2].a[2]
      [] o[1] = "<>" -> o[2] = String
      [] o[1] = "++" -> o[2] = String \/ o[2].c = "List"
      [] OTHER -> Vars(o[2]) = {} /\ has_impl(o[1], <<>>, o[2])

Complete(found, has) ==
    has # {} /\ "Panic" \notin found.errors => found.errors = {} /\ \A t \in has : IsInstance(found.ty, t)
Sound(found, has) ==
    found.errors = {} /\ found.trusts = {} /\ (\A o \in found.owed : Settled(o)) /\ ~HasNever(found.ty) =>
        \A f \in [Vars(found.ty) -> Basic] : WithinGround(Given(found.ty, f)) => Fits(Given(found.ty, f), has)
Agrees(found, has) == Complete(found, has) /\ Sound(found, has)

(* infer.rs: a program that has a type is accepted, and the type found for  *)
(* it is the most general; one that is accepted, with nothing taken on trust*)
(* or put off for good, has every type that was found, as far as Ground can *)
(* tell.                                                                    *)
TypesAreFound == typed # <<>> => Agrees(typed[1], Types(program))
=============================================================================
