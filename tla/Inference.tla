----------------------------- MODULE Inference ------------------------------
(* Type inference: the items and expressions of a module are given types in *)
(* one walk, by unification, with levels for the generalization of let and  *)
(* fn and with the impls of traits for operators and where-clauses.  Fields,*)
(* actors and imports are left out; an annotation is the type it denotes.   *)
EXTENDS Naturals, Sequences, FiniteSets, TLC, SequencesExt

(* The unifier of the type checker: types, the table of type variables with *)
(* its ranks, the levels that generalization reads, and the search for the  *)
(* impl of a trait, which unifies in a table of its own.  A context keeps   *)
(* its first error; what the checker reports after it is left out.          *)

(* c of an application is its constructor; the last of the a of a function  *)
(* is its result.                                                           *)
Type(k, n, c, a) == [k |-> k, n |-> n, c |-> c, a |-> a]
Var(n) == Type("var", n, "", <<>>)
Con(c) == Type("con", 0, c, <<>>)
Fun(params, ret) == Type("fun", 0, "", Append(params, ret))
App(c, a) == Type("app", 0, c, a)
Tuple(a) == Type("tuple", 0, "", a)
Never == Type("never", 0, "", <<>>)
Unit == Tuple(<<>>)
Bool == Con("Bool")
Integer == Con("Int")
String == Con("String")
List(t) == App("List", <<t>>)
Map(t, u) == App("Map", <<t, u>>)
Result(t, u) == App("Result", <<t, u>>)
Option(t) == App("Option", <<t>>)
NoType == Type("", 0, "", <<>>)

Each(F(_), t) == [t EXCEPT !.a = [i \in DOMAIN t.a |-> F(t.a[i])]]

RECURSIVE Vars(_)
Vars(t) == IF t.k = "var" THEN {t.n} ELSE UNION {Vars(t.a[i]) : i \in DOMAIN t.a}

(* The table: an unbound root holds itself, a variable that was redirected  *)
(* another variable.  trusts: what the context took for granted.            *)
Empty == [table |-> <<>>, rank |-> <<>>, var_levels |-> <<>>, current_level |-> 0, errors |-> {}, trusts |-> {}]
Fail(s, what) == [s EXCEPT !.errors = @ \cup {what}]
Trust(s, what) == [s EXCEPT !.trusts = @ \cup {what}]

Newest(s) == Var(Len(s.table))
fresh_var(s) ==
    [s EXCEPT !.table = Append(@, Var(Len(@) + 1)), !.rank = Append(@, 0), !.var_levels = Append(@, s.current_level)]

RECURSIVE Root(_, _)
Root(s, n) == LET t == s.table[n] IN IF t.k = "var" /\ t.n # n THEN Root(s, t.n) ELSE n
probe_value(s, n) == s.table[Root(s, n)]

RECURSIVE resolve(_, _)
resolve(s, t) ==
    IF t.k # "var" THEN Each(LAMBDA u : resolve(s, u), t)
    ELSE LET u == probe_value(s, t.n) IN IF u.k = "var" THEN u ELSE resolve(s, u)

RECURSIVE occurs_in(_, _, _)
occurs_in(s, n, t) ==
    \/ t.k = "var" /\ t.n = n
    \/ t.k = "var" /\ probe_value(s, t.n).k # "var" /\ occurs_in(s, n, probe_value(s, t.n))
    \/ \E i \in DOMAIN t.a : occurs_in(s, n, t.a[i])

unify_var_var(s, m, n) ==
    CASE s.rank[m] > s.rank[n] -> [s EXCEPT !.table[n] = Var(m)]
      [] s.rank[m] < s.rank[n] -> [s EXCEPT !.table[m] = Var(n)]
      [] OTHER -> [s EXCEPT !.table[m] = Var(n), !.rank[n] = @ + 1]

json_string_compatible(c, d) == {c, d} = {"Json", "String"}
iterator_ptr_compatible(c, d) ==
    {c, d} \subseteq {"Ptr", "ListIterator", "MapIterator", "SetIterator", "RangeIterator", "MapAdapterIterator", "FilterAdapterIterator",
                      "TakeAdapterIterator", "SkipAdapterIterator", "EnumerateAdapterIterator", "ZipAdapterIterator"}
Named(s, c, d) ==
    CASE c = d -> s
      [] json_string_compatible(c, d) \/ iterator_ptr_compatible(c, d) -> Trust(s, "handle")
      [] OTHER -> Fail(s, "Mismatch")

bind(s, v, t) ==
    IF occurs_in(s, v.n, t) THEN Fail(s, "InfiniteType")
    ELSE LET r == [s EXCEPT !.table[v.n] = t] IN IF t.k = "never" THEN Trust(r, "never") ELSE r

RECURSIVE unify(_, _, _), unify_each(_, _, _)
unify_resolved(s, a, b) ==
    LET kinds == {a.k, b.k}
        Pairwise(r) == IF Len(a.a) = Len(b.a) THEN unify_each(r, a.a, b.a) ELSE Fail(r, "ArityMismatch")
    IN  CASE s.errors # {} \/ a = b -> s
          [] kinds = {"var"} -> unify_var_var(s, a.n, b.n)
          [] a.k = "var" /\ b.k # "var" -> bind(s, a, b)
          [] b.k = "var" /\ a.k # "var" -> bind(s, b, a)
          [] kinds = {"con"} -> Named(s, a.c, b.c)
          [] kinds = {"fun"} \/ kinds = {"tuple"} -> Pairwise(s)
          [] kinds = {"app"} -> Pairwise(Named(s, a.c, b.c))
          [] kinds = {"con", "app"} ->
                CASE a.c # b.c -> Fail(s, "Mismatch")
                  [] a.a \o b.a = <<>> -> s
                  [] OTHER -> IF a.c = "Pid" THEN Trust(s, "handle") ELSE Fail(s, "Mismatch")
          [] kinds = {"con", "tuple"} -> IF "Tuple" \in {a.c, b.c} THEN Trust(s, "handle") ELSE Fail(s, "Mismatch")
          [] "never" \in kinds /\ "var" \notin kinds -> s
          [] OTHER -> Fail(s, "Mismatch")
unify(s, t, u) == unify_resolved(s, resolve(s, t), resolve(s, u))
unify_each(s, x, y) == IF x = <<>> THEN s ELSE unify_each(unify(s, x[1], y[1]), Tail(x), Tail(y))

(* A variable is generalized when it was made at a deeper level: nothing    *)
(* lowers the level of one that is bound to a variable of the environment.  *)
enter_level(s) == [s EXCEPT !.current_level = @ + 1]
leave_level(s) == [s EXCEPT !.current_level = @ - 1]
generalize(s, t) ==
    LET r == resolve(s, t) IN [vars |-> {v \in Vars(r) : s.var_levels[v] > s.current_level}, ty |-> r]

RECURSIVE apply_substitution(_, _, _)
apply_substitution(s, t, sub) ==
    CASE t.k = "var" /\ t.n \in DOMAIN sub -> sub[t.n]
      [] t.k = "var" /\ t.n \notin DOMAIN sub ->
            LET u == probe_value(s, t.n) IN IF u.k = "var" THEN t ELSE apply_substitution(s, u, sub)
      [] OTHER -> Each(LAMBDA u : apply_substitution(s, u, sub), t)

RECURSIVE FreshVars(_, _)
FreshVars(s, n) == IF n = 0 THEN s ELSE FreshVars(fresh_var(s), n - 1)
Latest(s, n) == [i \in 1..n |-> Var(Len(s.table) - n + i)]

instantiate_Shared(s, scheme) == [s |-> s, ty |-> scheme.ty]
instantiate(s, scheme) ==
    LET sub == [v \in scheme.vars |-> Var(Len(s.table) + Cardinality({w \in scheme.vars : w <= v}))]
        r == FreshVars(s, Cardinality(scheme.vars))
    IN  [s |-> r, ty |-> apply_substitution(r, scheme.ty, sub)]

-----------------------------------------------------------------------------
(* The impls the compiler knows, in the order they are registered: the type,*)
(* the arguments of the trait, and its associated type.                     *)
Impl(ty, args, out) == [ty |-> ty, args |-> args, out |-> out]
Plain(names) == [i \in DOMAIN names |-> Impl(Con(names[i]), <<>>, NoType)]
Lists == <<Impl(List(Con("T")), <<>>, NoType)>>
Impls(trait) ==
    CASE trait \in {"Add", "Sub", "Mul", "Div", "Mod", "Neg"} -> <<Impl(Integer, <<>>, Integer), Impl(Con("Float"), <<>>, Con("Float"))>>
      [] trait = "Eq" -> Plain(<<"Int", "Float", "String", "Bool">>) \o Lists
      [] trait = "Ord" -> Plain(<<"Int", "Float", "String">>) \o Lists
      [] trait = "Not" -> Plain(<<"Bool">>)
      [] trait \in {"Debug", "Hash", "Default"} -> Plain(<<"Int", "Float", "String", "Bool">>)
      [] trait = "Display" ->
            Plain(<<"Int", "Float", "String", "Bool">>) \o Lists \o <<Impl(Map(Con("K"), Con("V")), <<>>, NoType)>> \o Plain(<<"Set">>)
      [] trait = "Iterable" ->
            <<Impl(List(Con("T")), <<>>, Con("T")), Impl(Map(Con("K"), Con("V")), <<>>, Tuple(<<Con("K"), Con("V")>>)),
              Impl(Con("Set"), <<>>, Integer), Impl(Con("Range"), <<>>, Integer)>>
      [] trait = "Iterator" ->
            <<Impl(Con("ListIterator"), <<>>, Con("T")), Impl(Con("MapIterator"), <<>>, Tuple(<<Con("K"), Con("V")>>)),
              Impl(Con("SetIterator"), <<>>, Integer), Impl(Con("RangeIterator"), <<>>, Integer)>>
      [] trait = "From" ->
            <<Impl(Con("Float"), <<Integer>>, NoType), Impl(String, <<Integer>>, NoType),
              Impl(String, <<Con("Float")>>, NoType), Impl(String, <<Bool>>, NoType)>>
      [] OTHER -> <<>>

(* The parameters of an impl are the names of one capital letter.           *)
Letters == [T |-> 1, K |-> 2, V |-> 3]
RECURSIVE freshen(_)
freshen(t) == IF t.k = "con" /\ t.c \in DOMAIN Letters THEN Var(Letters[t.c]) ELSE Each(freshen, t)
Throwaway == FreshVars(Empty, 3)

find_impls(trait, args, ty) ==
    SelectSeq(Impls(trait),
              LAMBDA i : /\ Len(i.args) = Len(args) \/ args = <<>>
                         /\ unify(unify_each(Throwaway, IF args = <<>> THEN <<>> ELSE i.args, args), freshen(i.ty), ty).errors = {})
has_impl(trait, args, ty) == find_impls(trait, args, ty) # <<>>
resolve_associated_type(trait, ty) == find_impls(trait, <<>>, ty)[1].out

(* A variable of the asking context indexes the throwaway table: the first  *)
(* impl it is compared with ends the compiler.                              *)
Panics(trait, ty) == Impls(trait) # <<>> /\ Vars(ty) # {}

-----------------------------------------------------------------------------
CONSTANT Programs  \* sequences of items and expressions

VARIABLES program,
          typed    \* what inference makes of it: <<>> before

(* A node of the tree: kind, name, number, types it is annotated with,      *)
(* parts, and <<parameter, trait>> of generic parameters and bounds.        *)
NoBody == [k |-> "none", x |-> "", n |-> 0, t |-> <<>>, a |-> <<>>, w |-> <<>>]
Params(c) == SubSeq(c.a, 1, c.n)
Guard(c) == c.a[c.n + 1]
Body(c) == c.a[c.n + 2]
IsFn(e) == e.k \in {"fn", "fn="}
IsItem(e) == e.k = "let" \/ IsFn(e)
Arithmetic == "+" :> "Add" @@ "-" :> "Sub" @@ "*" :> "Mul" @@ "/" :> "Div" @@ "%" :> "Mod"

(* The context of inference.  path is the block that is open and owed what  *)
(* was put off for good: a trait of a type that was still a variable, or two*)
(* types that the meaning of the program makes equal and nothing compares.  *)
Nowhere == [ty |-> NoType, tys |-> <<>>, scopes |-> <<<<>>>>, loop_depth |-> 0, fn_return_type |-> NoType, returned |-> <<>>,
            fn_constraints |-> <<>>, path |-> <<>>, blocks |-> 0, owed |-> {}] @@ Empty
With(s, ty) == [s EXCEPT !.ty = ty]
Fresh(s) == LET r == fresh_var(s) IN With(r, Newest(r))
Owe(s, what, ty) == [s EXCEPT !.owed = @ \cup {<<what, ty>>}]
OweSame(s, t, u) == Owe(s, "same", Tuple(<<t, u>>))
Expect(s, ty) == unify(s, s.ty, ty)

push_scope(s) == [s EXCEPT !.scopes = Append(@, <<>>)]
pop_scope(s) == [s EXCEPT !.scopes = Front(@)]
insert(s, name, scheme) ==
    [s EXCEPT !.scopes[Len(s.scopes)] = name :> [vars |-> scheme.vars, ty |-> scheme.ty, path |-> s.path] @@ @]
Mono(ty) == [vars |-> {}, ty |-> ty]
RECURSIVE InsertEach(_, _, _)
InsertEach(s, names, tys) ==
    IF names = <<>> THEN s ELSE InsertEach(insert(s, Head(names), Mono(Head(tys))), Tail(names), Tail(tys))
Depths(s, name) == {d \in DOMAIN s.scopes : name \in DOMAIN s.scopes[d]}
bound(s, name) == Depths(s, name) # {}
lookup(s, name) == s.scopes[CHOOSE d \in Depths(s, name) : \A e \in Depths(s, name) : e <= d][name]

(* Generalization is taken on trust where it quantifies a variable that the *)
(* environment still holds.                                                 *)
Held(s, but) ==
    UNION {UNION {Vars(resolve(s, s.scopes[d][x].ty)) \ s.scopes[d][x].vars : x \in DOMAIN s.scopes[d] \ but} : d \in DOMAIN s.scopes}
Bind(s, name, ty, but) ==
    LET g == generalize(s, ty)
        r == IF g.vars \cap Held(s, but) = {} THEN s ELSE Trust(s, "level")
    IN  insert(r, name, g)
Shadow(s, name) == IF bound(s, name) /\ lookup(s, name).path # s.path THEN Trust(s, "shadow") ELSE s

Instance(s, scheme) == LET i == instantiate(s, scheme) IN With(i.s, i.ty)
infer_name_ref(s, e) ==
    CASE s.errors # {} -> s
      [] ~bound(s, e.x) -> Fail(s, "UnboundVariable")
      [] OTHER -> LET c == lookup(s, e.x)
                  IN  Instance(IF IsPrefix(c.path, s.path) THEN s ELSE Trust(s, "leak"), c)

(* Whoever comes first decides the type of both.                            *)
Join_Apart(s, prev) == s
Join(s, prev) ==
    LET never == resolve(s, prev).k = "never" /\ resolve(s, s.ty).k # "never"
    IN  unify(IF never THEN Trust(s, "never") ELSE s, prev, s.ty)

(* The sum types of the prelude.                                            *)
RECURSIVE substitute_type_params(_, _, _)
substitute_type_params(t, names, tys) ==
    IF t.k = "con" /\ Contains(names, t.c) THEN tys[SelectInSeq(names, LAMBDA n : n = t.c)]
    ELSE Each(LAMBDA u : substitute_type_params(u, names, tys), t)

RECURSIVE register_variant_constructors(_, _, _, _)
register_variant_constructors(s, type, names, variants) ==
    IF variants = <<>> THEN s
    ELSE LET v == Head(variants)
             r == FreshVars(enter_level(s), Len(names))
             tys == Latest(r, Len(names))
             fields == [i \in DOMAIN v[2] |-> substitute_type_params(v[2][i], names, tys)]
             ctor == IF fields = <<>> THEN App(type, tys) ELSE Fun(fields, App(type, tys))
             scheme == generalize(leave_level(r), ctor)
         IN  register_variant_constructors(insert(insert(leave_level(r), v[3], scheme), v[1], scheme), type, names, Tail(variants))

register_builtin_sum_types(s) ==
    LET T == Con("T")
        E == Con("E")
        option == register_variant_constructors(s, "Option", <<"T">>, <<<<"Some", <<T>>, "Option.Some">>, <<"None", <<>>, "Option.None">>>>)
        result == register_variant_constructors(option, "Result", <<"T", "E">>,
                                                <<<<"Ok", <<T>>, "Result.Ok">>, <<"Err", <<E>>, "Result.Err">>>>)
    IN  register_variant_constructors(result, "Ordering", <<>>, <<<<"Less", <<>>, "Ordering.Less">>,
                                      <<"Equal", <<>>, "Ordering.Equal">>, <<"Greater", <<>>, "Ordering.Greater">>>>)

(* The functions of the prelude that need no module.                        *)
register_prelude(s) ==
    LET r == FreshVars(enter_level(s), 2)
        T == Latest(r, 2)[1]
        U == Latest(r, 2)[2]
        Names == [println |-> Fun(<<String>>, Unit), default |-> Fun(<<>>, T), compare |-> Fun(<<T, T>>, Con("Ordering")),
                  map |-> Fun(<<List(T), Fun(<<T>>, U)>>, List(U)), filter |-> Fun(<<List(T), Fun(<<T>>, Bool)>>, List(T)),
                  reduce |-> Fun(<<List(T), U, Fun(<<U, T>>, U)>>, U), head |-> Fun(<<List(T)>>, T), tail |-> Fun(<<List(T)>>, List(T))]
        Scheme(ty) == [vars |-> Vars(ty), ty |-> ty, path |-> <<>>]
    IN  [leave_level(r) EXCEPT !.scopes[1] = [x \in DOMAIN Names |-> Scheme(Names[x])] @@ @]
Prelude == register_builtin_sum_types(register_prelude(Nowhere))
Constructors == {"Some", "None", "Ok", "Err", "Less", "Equal", "Greater"}
-----------------------------------------------------------------------------
(* Patterns bind their names in the scope that is open.  A name that already*)
(* has the type of a sum is its constructor.                                *)
RECURSIVE collect_pattern_binding_names(_, _)
collect_pattern_binding_names(s, p) ==
    CASE p.k = "pvar" -> IF bound(s, p.x) THEN {} ELSE {p.x}
      [] p.k = "por" -> collect_pattern_binding_names(s, p.a[1])
      [] OTHER -> UNION {collect_pattern_binding_names(s, p.a[i]) : i \in DOMAIN p.a} \cup (IF p.k = "pas" THEN {p.x} ELSE {})

RECURSIVE infer_pattern(_, _), infer_patterns(_, _, _), infer_elements(_, _), infer_alternatives(_, _, _, _)
infer_patterns(s, ps, tys) ==
    CASE ps = <<>> -> s
      [] ps # <<>> /\ Head(ps).k = "param" -> infer_patterns(insert(s, Head(ps).x, Mono(Head(tys))), Tail(ps), Tail(tys))
      [] OTHER -> infer_patterns(Expect(infer_pattern(s, Head(ps)), Head(tys)), Tail(ps), Tail(tys))

Naming(s, x) == insert(s, x, Mono(s.ty))
FreshName(s, x) == Naming(Fresh(s), x)
Ident(s, x) ==
    LET ty == resolve(s, s.ty)
    IN  CASE ty.k = "app" -> s
          [] ty.k = "fun" /\ x \in Constructors -> With(s, ty.a[Len(ty.a)])
          [] OTHER -> FreshName(s, x)
infer_ident_pattern(s, p) ==
    IF ~bound(s, p.x) THEN FreshName(s, p.x)
    ELSE Ident(Instance(IF p.x \in Constructors THEN s ELSE Trust(s, "shadow"), lookup(s, p.x)), p.x)

Constructor(s, ps) ==
    LET params == IF s.ty.k = "fun" THEN Front(s.ty.a) ELSE <<>>
        out == IF s.ty.k = "fun" THEN s.ty.a[Len(s.ty.a)] ELSE s.ty
    IN  IF Len(params) # Len(ps) THEN Fail(s, "ArityMismatch") ELSE With(infer_patterns(s, ps, params), out)
infer_constructor_pattern(s, p) ==
    IF ~bound(s, p.x) THEN Fail(s, "UnknownVariant") ELSE Constructor(Instance(s, lookup(s, p.x)), p.a)

(* The names of an or-pattern have the types of its first alternative.      *)
Alternative(r, same, names, first) ==
    LET u == pop_scope(unify(r, first.ty, r.ty))
        both == {<<"same", Tuple(<<lookup(first, x).ty, lookup(r, x).ty>>)>> : x \in {y \in names : bound(first, y) /\ bound(r, y)}}
    IN  IF same THEN [u EXCEPT !.owed = @ \cup both] ELSE Fail(u, "OrPatternBindingMismatch")
infer_alternatives(s, names, ps, first) ==
    IF ps = <<>> THEN s
    ELSE infer_alternatives(Alternative(infer_pattern(push_scope(s), Head(ps)), collect_pattern_binding_names(s, Head(ps)) = names,
                                        names, first), names, Tail(ps), first)
OrPattern(first, names, ps) ==
    LET found == SetToSeq({x \in names : bound(first, x)})
    IN  With(InsertEach(infer_alternatives(pop_scope(first), names, ps, first), found,
                        [i \in DOMAIN found |-> lookup(first, found[i]).ty]), first.ty)
infer_or_pattern(s, p) ==
    OrPattern(infer_pattern(push_scope(s), p.a[1]), collect_pattern_binding_names(s, p.a[1]), Tail(p.a))

MoreElements(s, ps) == [infer_elements(s, ps) EXCEPT !.tys = <<s.ty>> \o @]
infer_elements(s, ps) ==
    IF ps = <<>> THEN [s EXCEPT !.tys = <<>>] ELSE MoreElements(infer_pattern(s, Head(ps)), Tail(ps))
Tupled(s) == With(s, Tuple(s.tys))
infer_tuple_pattern(s, p) == Tupled(infer_elements(s, p.a))
infer_as_pattern(s, p) == Naming(infer_pattern(s, p.a[1]), p.x)
infer_cons_pattern(s, p) ==
    LET r == Fresh(s) IN With(infer_patterns(r, p.a, <<r.ty, List(r.ty)>>), List(r.ty))

infer_pattern(s, p) ==
    CASE s.errors # {} -> s
      [] p.k = "pvar" -> infer_ident_pattern(s, p)
      [] p.k = "pwild" -> Fresh(s)
      [] p.k = "plit" -> With(s, Con(p.x))
      [] p.k = "ptuple" -> infer_tuple_pattern(s, p)
      [] p.k = "pcon" -> infer_constructor_pattern(s, p)
      [] p.k = "por" -> infer_or_pattern(s, p)
      [] p.k = "pas" -> infer_as_pattern(s, p)
      [] p.k = "pcons" -> infer_cons_pattern(s, p)
-----------------------------------------------------------------------------
(* The impl of a trait; the check of a variable is put off, and nothing     *)
(* comes back to it.                                                        *)
Require(s, trait, ty) ==
    LET r == resolve(s, ty)
    IN  CASE s.errors # {} -> s
          [] r.k = "var" -> Owe(s, trait, r)
          [] Panics(trait, r) -> Fail(s, "Panic")
          [] OTHER -> IF has_impl(trait, <<>>, r) THEN s ELSE Fail(s, "TraitNotSatisfied")
Output(s, trait, ty) ==
    LET r == resolve(s, ty) IN IF s.errors # {} \/ r.k = "var" THEN r ELSE resolve_associated_type(trait, r)
Answer(s, trait, ty) == With(s, Output(s, trait, ty))
infer_trait_binary_op(s, trait, l, r) == Answer(Require(unify(s, l, r), trait, l), trait, l)

RECURSIVE infer_expr(_, _), infer_each(_, _, _), infer_into(_, _, _), infer_clauses(_, _, _, _, _), infer_steps(_, _)

(* asked: whether the bounds of a function named here are looked after.     *)
infer_named(s, e, asked) == IF e.k = "name" /\ asked THEN infer_name_ref(s, e) ELSE infer_expr(s, e)
MoreOf(s, es, asked) == [infer_each(s, es, asked) EXCEPT !.tys = <<s.ty>> \o @]
infer_each(s, es, asked) ==
    IF es = <<>> THEN [s EXCEPT !.tys = <<>>] ELSE MoreOf(infer_named(s, Head(es), asked), Tail(es), asked)

Operated(s, op, l, r) ==
    LET both == unify(s, l, r)
    IN  CASE op \in DOMAIN Arithmetic -> infer_trait_binary_op(s, Arithmetic[op], l, r)
          [] op \in {"==", "!="} -> With(Require(both, "Eq", l), Bool)
          [] op \in {"<", ">", "<=", ">="} -> With(Require(both, "Ord", l), Bool)
          [] op \in {"and", "or", "&&", "||"} -> With(unify(unify(s, l, Bool), r, Bool), Bool)
          [] op \in {"<>", "++"} -> With(Owe(both, op, l), l)
          [] OTHER -> Fresh(Trust(s, "range"))
BinaryOf(s, op) == Operated(s, op, s.tys[1], s.tys[2])
infer_binary(s, e) == BinaryOf(infer_each(s, e.a, FALSE), e.x)

Negated(s, op) == IF op = "-" THEN Answer(Require(s, "Neg", s.ty), "Neg", s.ty) ELSE With(Expect(s, Bool), Bool)
infer_unary(s, e) == Negated(infer_expr(s, e.a[1]), e.x)

(* The bounds of a function hold for the types its call gives its           *)
(* parameters; a function that is an argument is asked where its types are  *)
(* known, and one that comes another way is not asked.                      *)
TypeArgs(s, c, tys) ==
    [p \in DOMAIN c.params |->
        LET is == {i \in DOMAIN c.at : c.at[i] = p /\ i <= Len(tys)}
        IN  resolve(s, IF is = {} THEN c.params[p] ELSE tys[CHOOSE i \in is : \A j \in is : j <= i])]
check_where_constraints(s, wanted, args) ==
    LET asked == {<<w[2], args[w[1]]>> : w \in {v \in wanted : v[1] \in DOMAIN args}}
    IN  CASE s.errors # {} -> s
          [] \E q \in asked : Panics(q[1], q[2]) -> Fail(s, "Panic")
          [] OTHER -> IF \A q \in asked : has_impl(q[1], <<>>, q[2]) THEN s ELSE Fail(s, "TraitNotSatisfied")
Constrained(s, e) ==
    e.k = "name" /\ e.x \in DOMAIN s.fn_constraints /\ s.fn_constraints[e.x].wanted # {}
CheckCallee_Never(s, e, tys) == s
CheckCallee(s, e, tys) ==
    IF ~Constrained(s, e) THEN s
    ELSE LET c == s.fn_constraints[e.x] IN check_where_constraints(s, c.wanted, TypeArgs(s, c, tys))

CheckArg(s, e, ty) ==
    LET c == s.fn_constraints[e.x]
        f == resolve(s, ty)
        args == TypeArgs(s, c, Front(f.a))
        known == {w \in c.wanted : w[1] \in DOMAIN args /\ args[w[1]].k # "var"}
    IN  CASE ~Constrained(s, e) -> s
          [] f.k # "fun" -> Trust(s, "bound")
          [] OTHER -> check_where_constraints(IF known = c.wanted THEN s ELSE Trust(s, "bound"), known, args)
RECURSIVE CheckArgs(_, _, _)
CheckArgs(s, es, tys) ==
    IF es = <<>> THEN s ELSE CheckArgs(CheckArg(s, Head(es), Head(tys)), Tail(es), Tail(tys))

CallOf(s, es) ==
    LET r == Fresh(s)
        tys == Tail(s.tys)
        u == unify(r, s.tys[1], Fun(tys, r.ty))
    IN  With(CheckArgs(CheckCallee(u, es[1], tys), Tail(es), tys), r.ty)
infer_call(s, e) == CallOf(infer_each(s, e.a, TRUE), e.a)

(* x |> f(a) is f(x, a), and x |2> f(a) is f(a, x).                         *)
BareInto(x, f) == LET r == Fresh(x) IN With(Expect(infer_expr(r, f), Fun(<<x.ty>>, r.ty)), r.ty)
infer_bare_pipe(s, e) == BareInto(infer_expr(s, e.a[1]), e.a[2])

PipedInto(s, x, out, to) ==
    LET all == <<x>> \o Tail(s.tys)
        u == CheckCallee(unify(s, s.tys[1], Fun(all, out)), to[1], all)
    IN  With(CheckArgs(u, Tail(to), Tail(s.tys)), out)
PipeInto(x, to) == LET r == Fresh(x) IN PipedInto(infer_each(r, to, TRUE), x.ty, r.ty, to)
infer_pipe(s, e) == PipeInto(infer_expr(s, e.a[1]), e.a[2].a)

SlottedInto(s, x, out, to, n) ==
    LET f == resolve(s, s.tys[1])
        beyond == n > Len(s.tys)
        all == InsertAt(Tail(s.tys), IF beyond THEN Len(s.tys) ELSE n, x)
        u == unify(IF beyond THEN Trust(s, "slot") ELSE s, s.tys[1], Fun(all, out))
    IN  IF s.errors = {} /\ f.k = "fun" /\ n >= Len(f.a) THEN Fail(s, "SlotPipeOutOfRange")
        ELSE With(CheckCallee(u, to[1], all), out)
SlotInto(x, to, n) ==
    LET r == Fresh(x) IN SlottedInto(MoreOf(infer_named(r, to[1], TRUE), Tail(to), FALSE), x.ty, r.ty, to, n)
infer_slot_pipe(s, e) == SlotInto(infer_expr(s, e.a[1]), e.a[2].a, e.n)

Condition(s, e) == Expect(infer_expr(s, e), Bool)
Branches(s, es) ==
    IF es = <<>> THEN OweSame(s, s.ty, Unit) ELSE With(Join(infer_expr(s, es[1]), s.ty), s.ty)
infer_if(s, e) == Branches(infer_expr(Condition(s, e.a[1]), e.a[2]), SubSeq(e.a, 3, Len(e.a)))

Looped(s, by) == [s EXCEPT !.loop_depth = @ + by]
infer_while(s, e) ==
    With(Looped(infer_expr(Looped(Condition(s, e.a[1]), 1), e.a[2]), -1), Unit)
infer_break(s, e) == With(IF s.loop_depth = 0 THEN Fail(s, "OutsideLoop") ELSE s, Never)

(* What a loop binds: by the type of the collection as far as it is known.  *)
extract_collection_elem_type(ty) ==
    CASE ty.k = "app" /\ ty.c \in {"List", "Set"} /\ ty.a # <<>> -> <<ty.a[1]>>
      [] ty.k = "app" /\ ty.c = "Map" /\ Len(ty.a) > 1 -> SubSeq(ty.a, 1, 2)
      [] ty.k = "con" /\ ty.c \in {"List", "Set"} -> <<Integer>>
      [] ty.k = "con" /\ ty.c = "Map" -> <<Integer, Integer>>
      [] OTHER -> <<>>
RangeOf(s) ==
    [unify(unify(fresh_var(s), s.tys[1], Integer), s.tys[2], Integer) EXCEPT !.tys = <<Integer>>]
Collection(r) ==
    LET ty == resolve(r, r.ty)
        known == extract_collection_elem_type(ty)
        Of(trait) == [Trust(r, "loop") EXCEPT !.tys = <<resolve_associated_type(trait, ty)>>]
    IN  CASE r.errors # {} -> r
          [] known # <<>> -> [r EXCEPT !.tys = known]
          [] known = <<>> /\ Panics("Iterable", ty) -> Fail(r, "Panic")
          [] OTHER -> CASE has_impl("Iterable", <<>>, ty) -> Of("Iterable")
                        [] ~has_impl("Iterable", <<>>, ty) /\ has_impl("Iterator", <<>>, ty) -> Of("Iterator")
                        [] OTHER -> [Trust(r, "loop") EXCEPT !.tys = <<Integer>>]
Collected(s) == With(pop_scope(Looped(s, -1)), List(s.ty))
LoopOver(c, e, names) ==
    LET n == IF Len(names) > Len(c.tys) THEN 0 ELSE Len(names)
        b == InsertEach(push_scope(c), SubSeq(names, 1, n), SubSeq(c.tys, 1, n))
    IN  IF c.errors # {} THEN c ELSE Collected(infer_expr(Condition(Looped(b, 1), e.a[2]), e.a[3]))
infer_for_in(s, e) ==
    LoopOver(IF e.a[1].k = "bin" /\ e.a[1].x = ".." THEN RangeOf(infer_each(s, e.a[1].a, FALSE))
             ELSE Collection(infer_expr(s, e.a[1])), e, [i \in 1..(Len(e.a) - 3) |-> e.a[i + 3].x])

infer_into(s, es, tys) ==
    IF es = <<>> THEN s
    ELSE infer_into(Expect(infer_expr(s, Head(es)), Head(tys)), Tail(es), Tail(tys))
infer_list_literal(s, e) ==
    LET f == Fresh(s) IN With(infer_into(f, e.a, [i \in DOMAIN e.a |-> f.ty]), List(f.ty))
infer_map_literal(s, e) ==
    LET f == FreshVars(s, 2)
        kv == Latest(f, 2)
    IN  With(infer_into(f, e.a, [i \in DOMAIN e.a |-> kv[IF i % 2 = 1 THEN 1 ELSE 2]]), Map(kv[1], kv[2]))
infer_tuple(s, e) == IF Len(e.a) = 1 THEN infer_expr(s, e.a[1]) ELSE Tupled(infer_each(s, e.a, FALSE))

Returned(s) == With([s EXCEPT !.returned = Append(@, s.ty)], Never)
infer_return(s, e) == Returned(IF e.a = <<>> THEN With(s, Unit) ELSE infer_expr(s, e.a[1]))

(* Result or Option; what is not known yet is a Result.  The error of the   *)
(* operand is the error of the function, or a From makes it one.            *)
TryResult(s, ok, err) ==
    LET ret == resolve(s, s.fn_return_type)
        e == resolve(s, err)
        f == resolve(s, ret.a[2])
        u == unify(s, e, f)
        whole == unify(Fresh(s), ret, Result(Fresh(s).ty, err))
        converts == e.k # "var" /\ f.k # "var"
    IN  With(CASE s.fn_return_type = NoType -> Trust(s, "try")
               [] ret.k = "app" /\ ret.c = "Result" ->
                    CASE u.errors = {} \/ ~converts -> u
                      [] Panics("From", f) \/ (has_impl("From", <<>>, f) /\ Panics("From", e)) -> Fail(s, "Panic")
                      [] OTHER -> IF has_impl("From", <<e>>, f) THEN [u EXCEPT !.errors = {}] ELSE Fail(s, "TryIncompatibleReturn")
               [] OTHER -> IF ret.k = "var" THEN whole ELSE Fail(s, "TryIncompatibleReturn"), ok)
TryOption(s, inner) ==
    LET ret == resolve(s, s.fn_return_type)
    IN  With(CASE s.fn_return_type = NoType -> Trust(s, "try")
               [] ret.k = "app" /\ ret.c = "Option" -> s
               [] OTHER -> IF ret.k = "var" THEN unify(Fresh(s), ret, Option(Fresh(s).ty)) ELSE Fail(s, "TryIncompatibleReturn"), inner)
Tried(r) ==
    LET ty == resolve(r, r.ty)
        f == FreshVars(r, 2)
        guess == Latest(f, 2)
    IN  CASE r.errors # {} -> r
          [] ty.k = "app" /\ ty.c = "Result" /\ Len(ty.a) = 2 -> TryResult(r, ty.a[1], ty.a[2])
          [] ty.k = "app" /\ ty.c = "Option" /\ Len(ty.a) = 1 -> TryOption(r, ty.a[1])
          [] OTHER -> IF ty.k = "var" THEN TryResult(unify(f, ty, Result(guess[1], guess[2])), guess[1], guess[2])
                      ELSE Fail(r, "TryOnNonResultOption")
infer_try_expr(s, e) == Tried(infer_expr(s, e.a[1]))
-----------------------------------------------------------------------------
(* The clauses of a case, a closure or a function: patterns for the types   *)
(* of what is matched, a guard, and a body of the type of the others.       *)
Guarded(s, g) == IF g = NoBody THEN s ELSE Condition(s, g)
CloseClause(s, prev, ann) ==
    LET j == IF prev = NoType THEN s ELSE Join(s, prev)
    IN  With(pop_scope(IF ann = NoType THEN j ELSE unify(j, s.ty, ann)), IF prev = NoType THEN s.ty ELSE prev)
infer_clause(s, c, tys, prev, ann) ==
    CloseClause(infer_expr(Guarded(infer_patterns(push_scope(s), Params(c), tys), Guard(c)), Body(c)), prev, ann)
MoreClauses(s, cs, tys, ann) == infer_clauses(s, cs, tys, s.ty, ann)
infer_clauses(s, cs, tys, prev, ann) ==
    IF cs = <<>> THEN s ELSE MoreClauses(infer_clause(s, Head(cs), tys, prev, ann), Tail(cs), tys, ann)

RECURSIVE validate_guard_expr(_)
validate_guard_expr(e) ==
    \/ e.k \in {"none", "lit", "name", "tuple"}
    \/ e.k = "call" /\ e.a[1].k = "name"
    \/ /\ (e.k = "un" /\ e.x = "not") \/ (e.k = "bin" /\ e.x \in {"==", "!=", "<", ">", "<=", ">=", "and", "or", "&&", "||"})
       /\ \A i \in DOMAIN e.a : validate_guard_expr(e.a[i])

Arms(s, cs) ==
    LET u == IF \A i \in DOMAIN cs : validate_guard_expr(Guard(cs[i])) THEN s ELSE Fail(s, "InvalidGuardExpression")
    IN  infer_clauses(u, cs, <<s.ty>>, NoType, NoType)
infer_case(s, e) == Arms(infer_expr(s, e.a[1]), Tail(e.a))

(* A body of its own: what it returns is not compared with its result.      *)
Enter(s, ret) == [s EXCEPT !.fn_return_type = ret, !.returned = <<>>]
Leave(s, r, out) ==
    [r EXCEPT !.fn_return_type = s.fn_return_type, !.returned = s.returned, !.loop_depth = s.loop_depth,
              !.owed = @ \cup {<<"same", Tuple(<<r.returned[i], out>>)>> : i \in DOMAIN r.returned}]

RECURSIVE insert_params(_, _, _)
insert_params(s, ps, tys) ==
    IF ps = <<>> THEN s
    ELSE insert_params(IF Head(ps).k = "param" THEN insert(s, Head(ps).x, Mono(Head(tys))) ELSE s, Tail(ps), Tail(tys))

(* Generic parameters are variables like any other.                         *)
Generics(e) == LET ps == SelectSeq(e.w, LAMBDA w : w[2] = "") IN [i \in DOMAIN ps |-> ps[i][1]]
Annotated(tp, t) == IF t.k = "con" /\ t.c \in DOMAIN tp THEN tp[t.c] ELSE t
Unheard(tp, cs, vars) ==
    UNION {{<<"same", Tuple(<<Annotated(tp, c.a[i].t[1]), vars[i]>>)>> : i \in {j \in 1..c.n : c.a[j].t # <<>>}} : c \in Range(cs)}
ReturnType(tp, e) == IF e.t = <<>> THEN NoType ELSE Annotated(tp, e.t[1])

name_to_type(t) == Con(IF t.k = "tuple" THEN "Tuple" ELSE t.c)
CloseClosure(s, r, tys) == With(Leave(s, r, r.ty), Fun(tys, r.ty))
infer_closure(s, e) ==
    LET f == FreshVars(s, e.a[1].n)
        vars == Latest(f, e.a[1].n)
        inner == [Enter(f, NoType) EXCEPT !.loop_depth = 0]
        ps == Params(e.a[1])
        tys == [i \in DOMAIN ps |-> IF ps[i].t = <<>> THEN vars[i] ELSE name_to_type(ps[i].t[1])]
        many == [inner EXCEPT !.owed = @ \cup Unheard(<<>>, e.a, vars)]
    IN  IF Len(e.a) = 1 THEN CloseClosure(s, pop_scope(infer_expr(insert_params(push_scope(inner), ps, tys), Body(e.a[1]))), tys)
        ELSE CloseClosure(s, infer_clauses(many, e.a, vars, NoType, NoType), vars)

Constrain(s, e, tp, at) ==
    IF e.w = <<>> THEN s
    ELSE [s EXCEPT !.fn_constraints = e.x :> [wanted |-> {w \in Range(e.w) : w[2] # ""}, params |-> tp, at |-> at] @@ @]

(* The name of a function is a variable in its own body, and before it.     *)
Open(s, e) ==
    LET self == Fresh(enter_level(Shadow(s, e.x)))
        tps == Generics(e)
        vars == Latest(FreshVars(self, Len(tps)), Len(tps))
        r == FreshVars(FreshVars(insert(self, e.x, Mono(self.ty)), Len(tps)), e.n)
    IN  [s |-> InsertEach(push_scope(r), tps, vars), self |-> self.ty, vars |-> Latest(r, e.n),
         tp |-> [p \in Range(tps) |-> vars[SelectInSeq(tps, LAMBDA q : q = p)]]]
PreRegistered(s, e) == IF bound(s, e.x) /\ lookup(s, e.x).vars = {} THEN lookup(s, e.x).ty ELSE NoType
Close(s, e, ty) ==
    LET r == leave_level(s) IN With(Bind(r, e.x, ty, {e.x}), resolve(r, ty))

Forward_Untold(s, pre, ty) == s
Forward(s, pre, ty) == IF pre = NoType THEN s ELSE unify(s, pre, ty)

(* b: the body, o: what was opened for it.                                  *)
CloseFn(s, e, o, b, tys, ret) ==
    LET out == IF ret = NoType THEN b.ty ELSE ret
        u == IF ret = NoType THEN b ELSE unify(b, b.ty, ret)
        ty == Fun(tys, out)
    IN  Close(Forward(unify(pop_scope(Leave(s, u, out)), o.self, ty), PreRegistered(s, e), ty), e, ty)
FnBody(s, e, o, ret) ==
    LET ps == Params(e)
        tys == [i \in DOMAIN ps |-> IF ps[i].t = <<>> THEN o.vars[i] ELSE Annotated(o.tp, ps[i].t[1])]
        at == [i \in DOMAIN ps |-> IF ps[i].t # <<>> /\ ps[i].t[1].c \in DOMAIN o.tp THEN ps[i].t[1].c ELSE ""]
    IN  CloseFn(s, e, o, infer_expr(Enter(Constrain(insert_params(o.s, ps, tys), e, o.tp, at), ret), Body(e)), tys, ret)
infer_fn_def(s, e) == LET o == Open(s, e) IN FnBody(s, e, o, ReturnType(o.tp, e))

is_catch_all_clause(c) == Guard(c) = NoBody /\ \A i \in 1..c.n : c.a[i].k \in {"param", "pwild", "pvar"}
CloseClauses(s, cs, o, r, ret) ==
    LET e == cs[1]
        out == IF ret = NoType THEN r.ty ELSE ret
        ty == Fun(o.vars, out)
        u == unify(pop_scope(Leave(s, r, out)), o.self, ty)
        pre == PreRegistered(s, e)
        used == pre # NoType /\ resolve(u, pre).k # "var"
        owes == [u EXCEPT !.owed = @ \cup Unheard(o.tp, cs, o.vars) \cup (IF used THEN {<<"same", Tuple(<<pre, ty>>)>>} ELSE {})]
    IN  Close(owes, e, ty)
FnClauses(s, cs, o, ret) ==
    LET order == IF \E i \in 1..(Len(cs) - 1) : is_catch_all_clause(cs[i]) THEN Fail(o.s, "CatchAllNotLast") ELSE o.s
    IN  CloseClauses(s, cs, o, infer_clauses(Enter(Constrain(order, cs[1], o.tp, <<>>), ret), cs, o.vars, NoType, ret), ret)
infer_multi_clause_fn(s, cs) == LET o == Open(s, cs[1]) IN FnClauses(s, cs, o, ReturnType(o.tp, cs[1]))

Resolved(s, ty) == With(s, resolve(s, ty))
LetOf(s, r, e) ==
    LET init == e.a[1]
        u == leave_level(IF e.t = <<>> THEN r ELSE unify(r, r.ty, e.t[1]))
        keep == [u EXCEPT !.fn_constraints = IF Constrained(s, init) THEN e.x :> @[init.x] @@ @ ELSE @]
    IN  Resolved(IF e.x # "" THEN Bind(Shadow(keep, e.x), e.x, IF e.t = <<>> THEN r.ty ELSE e.t[1], {})
                 ELSE Expect(infer_pattern(u, e.a[2]), r.ty), r.ty)
infer_let_binding(s, e) == LetOf(s, infer_named(enter_level(s), e.a[1], e.x # ""), e)

(* Clauses of one name and number of parameters that follow each other are  *)
(* a function; what is between them that is no item does not part them.     *)
SameFn(d, e) == IsFn(d) /\ IsFn(e) /\ d.x = e.x /\ d.n = e.n
GroupStarts(items) == {j \in DOMAIN items : j = 1 \/ ~SameFn(items[j - 1], items[j])}
group_multi_clause_fns(body) ==
    LET items == SelectSeq(body, IsItem)
        at(i) == Len(SelectSeq(SubSeq(body, 1, i), IsItem))
        rest(j) == {n \in j..Len(items) : \A m \in (j + 1)..n : m \notin GroupStarts(items)}
    IN  [i \in DOMAIN body |-> CASE ~IsItem(body[i]) -> <<body[i]>>
                                 [] at(i) \in GroupStarts(items) -> SubSeq(items, at(i), at(i) + Cardinality(rest(at(i))) - 1)
                                 [] OTHER -> <<>>]
check_non_consecutive_clauses(s, body) ==
    LET items == SelectSeq(body, IsItem)
    IN  IF \E i, j \in GroupStarts(items) : i < j /\ SameFn(items[i], items[j]) THEN Fail(s, "NonConsecutiveClauses") ELSE s

infer_step(s, g) ==
    CASE g[1].k = "let" -> infer_let_binding(s, g[1])
      [] g[1].k = "fn" /\ Len(g) = 1 -> infer_fn_def(s, g[1])
      [] IsFn(g[1]) /\ (g[1].k = "fn=" \/ Len(g) > 1) -> infer_multi_clause_fn(s, g)
      [] OTHER -> infer_expr(s, g[1])
infer_steps(s, gs) ==
    CASE gs = <<>> \/ s.errors # {} -> s
      [] OTHER -> infer_steps(IF Head(gs) = <<>> THEN s ELSE infer_step(s, Head(gs)), Tail(gs))

(* A block is no scope: its names stay to the end of the clause around it.  *)
infer_block(s, e) ==
    LET opened == [With(s, Unit) EXCEPT !.path = Append(@, s.blocks + 1), !.blocks = @ + 1]
    IN  [infer_steps(check_non_consecutive_clauses(opened, e.a), group_multi_clause_fns(e.a))
             EXCEPT !.path = s.path, !.fn_constraints = s.fn_constraints]

infer_expr(s, e) ==
    CASE s.errors # {} -> s
      [] e.k = "lit" -> With(s, IF e.x = "nil" THEN Unit ELSE Con(e.x))
      [] e.k = "name" -> infer_name_ref(IF Constrained(s, e) THEN Trust(s, "bound") ELSE s, e)
      [] e.k = "bin" -> infer_binary(s, e)
      [] e.k = "un" -> infer_unary(s, e)
      [] e.k = "call" -> infer_call(s, e)
      [] e.k = "pipe" /\ e.a[2].k # "call" -> infer_bare_pipe(s, e)
      [] e.k = "pipe" /\ e.a[2].k = "call" -> IF e.n = 1 THEN infer_pipe(s, e) ELSE infer_slot_pipe(s, e)
      [] e.k = "if" -> infer_if(s, e)
      [] e.k = "closure" -> infer_closure(s, e)
      [] e.k = "block" -> infer_block(s, e)
      [] e.k = "tuple" -> infer_tuple(s, e)
      [] e.k = "case" -> infer_case(s, e)
      [] e.k = "return" -> infer_return(s, e)
      [] e.k = "text" -> With(infer_each(s, e.a, FALSE), String)
      [] e.k = "json" -> With(infer_each(s, e.a, FALSE), Con("Json"))
      [] e.k = "map" -> infer_map_literal(s, e)
      [] e.k = "list" -> infer_list_literal(s, e)
      [] e.k = "index" -> Fresh(Trust(s, "index"))
      [] e.k = "while" -> infer_while(s, e)
      [] e.k \in {"break", "continue"} -> infer_break(s, e)
      [] e.k = "for" -> infer_for_in(s, e)
      [] e.k = "try" -> infer_try_expr(s, e)

(* Functions are named before any of them is read.                          *)
RECURSIVE PreRegister(_, _)
PreRegister(s, gs) ==
    IF gs = <<>> THEN s
    ELSE PreRegister(IF Head(gs) # <<>> /\ IsFn(Head(gs)[1]) THEN FreshName(s, Head(gs)[1].x) ELSE s, Tail(gs))
Outcome(s) ==
    [errors |-> s.errors, trusts |-> s.trusts, ty |-> resolve(s, s.ty), owed |-> {<<o[1], resolve(s, o[2])>> : o \in s.owed}]
infer_with_imports(p) ==
    LET gs == group_multi_clause_fns(p)
    IN  Outcome(infer_steps(PreRegister(check_non_consecutive_clauses(Prelude, p), gs), gs))

Init == program \in Programs /\ typed = <<>>
infer == typed = <<>> /\ typed' = <<infer_with_imports(program)>> /\ UNCHANGED program
Next == infer
vars == <<program, typed>>
Spec == Init /\ [][Next]_vars
=============================================================================
