------------------------------ MODULE Patterns ------------------------------
(* Patterns and the values they match, for the two passes of the compiler  *)
(* that read them: the exhaustiveness check of the type checker and the    *)
(* decision trees of the code generator.  A `case` grows arm by arm; a     *)
(* guard is any condition.                                                 *)
EXTENDS Naturals, Sequences, FiniteSets, SequencesExt, FiniteSetsExt

CONSTANTS Families,      \* kinds of scrutinee
          TypeName(_),   \* the type of the scrutinees of a family
          Universe(_),   \* the patterns its arms may have
          Inhabitants(_),\* values of the type, one of each shape the patterns tell apart
          Variants,      \* Variants[type]: <<constructor, arity>> in order, of the sum types
          MaxArms        \* bound

VARIABLES family,
          arms  \* [pat, guarded]: the arms of the case

Pat(k, c, a) == [k |-> k, c |-> c, a |-> a]
Wild == Pat("wild", "_", <<>>)
Var(x) == Pat("var", x, <<>>)
Con(c, a) == Pat("con", c, a)
Lit(v) == Pat("lit", v, <<>>)
Tuple(a) == Pat("tuple", "Tuple", a)
ListCons(h, t) == Pat("cons", "::", <<h, t>>)
Or(a) == Pat("or", "|", a)

Value(c, a) == [c |-> c, a |-> a]

RECURSIVE Matches(_, _)
Matches(p, v) ==
    CASE p.k \in {"wild", "var"} -> TRUE
      [] p.k = "or" -> \E i \in DOMAIN p.a : Matches(p.a[i], v)
      [] OTHER -> p.c = v.c /\ \A i \in DOMAIN p.a : Matches(p.a[i], v.a[i])

(* What the variables of a pattern that matches are bound to; an or-pattern*)
(* binds as its first alternative that matches.                            *)
RECURSIVE Bindings(_, _)
Bindings(p, v) ==
    CASE p.k = "var" -> {<<p.c, v>>}
      [] p.k = "or" -> Bindings(SelectSeq(p.a, LAMBDA q : Matches(q, v))[1], v)
      [] OTHER -> UNION {Bindings(p.a[i], v.a[i]) : i \in DOMAIN p.a}

RECURSIVE Has(_, _)
Has(p, kinds) == p.k \in kinds \/ \E i \in DOMAIN p.a : Has(p.a[i], kinds)

(* Or-patterns at the top of an arm only.                                  *)
RECURSIVE Plain(_)
Plain(p) ==
    IF p.k = "or" THEN \A i \in DOMAIN p.a : Plain(p.a[i])
    ELSE \A i \in DOMAIN p.a : ~Has(p.a[i], {"or"})

Init == family \in Families /\ arms = <<>>

AddArm ==
    /\ Len(arms) < MaxArms
    /\ \E p \in Universe(family), g \in BOOLEAN : arms' = Append(arms, [pat |-> p, guarded |-> g])
    /\ UNCHANGED family

Next == AddArm
vars == <<family, arms>>
Spec == Init /\ [][Next]_vars

Unguarded == SelectSeq(arms, LAMBDA a : ~a.guarded)
=============================================================================
