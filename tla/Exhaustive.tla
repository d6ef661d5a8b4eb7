----------------------------- MODULE Exhaustive -----------------------------
(* The exhaustiveness and redundancy checks (mesh-typeck/exhaustiveness.rs)*)
(* and how infer_case uses them.  A type is the sequence of its            *)
(* constructors, empty when there is no end to them.                       *)
EXTENDS Patterns

Infinite == <<>>
Bool == <<<<"true", 0>>, <<"false", 0>>>>

(* ast_pattern_to_abstract: names become wildcards, and so do cons patterns.*)
RECURSIVE abstract(_)
abstract(p) ==
    IF p.k \in {"wild", "var", "cons"} THEN Wild
    ELSE [p EXCEPT !.a = [i \in DOMAIN p.a |-> abstract(p.a[i])]]

type_to_type_info_SumsOnly(t) == IF t \in DOMAIN Variants THEN Variants[t] ELSE Infinite

type_to_type_info(t) ==
    CASE t = "Bool" -> Bool
      [] t \in DOMAIN Variants -> Variants[t]
      [] OTHER -> Infinite

Wilds(n) == [i \in 1..n |-> Wild]

(* specialize_row_into: the rows that remain of one row under constructor c.*)
RECURSIVE specialize_row(_, _, _)
specialize_row(row, c, n) ==
    LET h == Head(row)
    IN  CASE h.k = "wild" -> <<Wilds(n) \o Tail(row)>>
          [] h.k = "or" -> FlattenSeq([i \in DOMAIN h.a |-> specialize_row(<<h.a[i]>> \o Tail(row), c, n)])
          [] OTHER -> IF h.c = c THEN <<h.a \o Tail(row)>> ELSE <<>>

specialize_matrix(matrix, c, n) ==
    FlattenSeq([i \in DOMAIN matrix |-> specialize_row(matrix[i], c, n)])

(* An or-pattern keeps its row if one of its own alternatives is `_`.      *)
default_matrix(matrix) ==
    LET rows == SelectSeq(matrix, LAMBDA r : r[1].k = "wild"
                                     \/ (r[1].k = "or" /\ \E i \in DOMAIN r[1].a : r[1].a[i].k = "wild"))
    IN  [i \in DOMAIN rows |-> Tail(rows[i])]

(* collect_head_constructors: of the first column, or-patterns opened.     *)
RECURSIVE Heads(_)
Heads(p) == CASE p.k = "wild" -> {} [] p.k = "or" -> UNION {Heads(p.a[i]) : i \in DOMAIN p.a} [] OTHER -> {p.c}
collect_head_constructors(matrix) == UNION {Heads(matrix[i][1]) : i \in DOMAIN matrix}

(* extract_type_name: the type a constructor in the column belongs to.     *)
RECURSIVE TypeNames(_)
TypeNames(p) ==
    CASE p.k = "con" -> {t \in DOMAIN Variants : \E i \in DOMAIN Variants[t] : Variants[t][i][1] = p.c}
      [] p.k = "or" -> UNION {TypeNames(p.a[i]) : i \in DOMAIN p.a}
      [] OTHER -> {}

infer_type_info_for_column(matrix, row, col) ==
    LET column == {matrix[i][col] : i \in DOMAIN matrix} \cup {row[col]}
        names == UNION {TypeNames(p) : p \in column}
    IN  IF names # {} THEN Variants[CHOOSE t \in names : TRUE]
        ELSE IF \E p \in column : p.k = "lit" /\ p.c \in {"true", "false"} THEN Bool
        ELSE Infinite

build_specialized_type_info(matrix, row, n, rest) ==
    [col \in 1..n |-> infer_type_info_for_column(matrix, row, col)] \o rest

RECURSIVE is_useful(_, _, _)
is_useful(matrix, row, types) ==
    LET h == Head(row)
        under(c, subs) ==
            LET spec == specialize_matrix(matrix, c, Len(subs))
                new == subs \o Tail(row)
            IN  is_useful(spec, new, build_specialized_type_info(spec, new, Len(subs), Tail(types)))
    IN  CASE matrix = <<>> -> TRUE
          [] matrix # <<>> /\ row = <<>> -> FALSE
          [] OTHER ->
               CASE h.k = "or" -> \E i \in DOMAIN h.a : is_useful(matrix, <<h.a[i]>> \o Tail(row), types)
                 [] h.k # "or" /\ h.k # "wild" -> under(h.c, h.a)
                 [] h.k = "wild" ->
                      IF types[1] # Infinite /\ {types[1][i][1] : i \in DOMAIN types[1]} \subseteq collect_head_constructors(matrix)
                      THEN \E i \in DOMAIN types[1] : under(types[1][i][1], Wilds(types[1][i][2]))
                      ELSE is_useful(default_matrix(matrix), Tail(row), Tail(types))

Rows(list) == [i \in DOMAIN list |-> <<abstract(list[i].pat)>>]
Scrutinee == <<type_to_type_info(TypeName(family))>>

accepted_GuardsCount == ~is_useful(Rows(arms), <<Wild>>, Scrutinee)

(* check_exhaustiveness, over the arms without a guard.                    *)
accepted == ~is_useful(Rows(Unguarded), <<Wild>>, Scrutinee)

find_witnesses_All ==
    {IF TypeName(family) = "Bool" THEN Lit(Scrutinee[1][i][1]) ELSE Con(Scrutinee[1][i][1], Wilds(Scrutinee[1][i][2])) :
        i \in DOMAIN Scrutinee[1]}

find_witnesses ==
    LET all == Scrutinee[1]
        pats == {IF TypeName(family) = "Bool" THEN Lit(all[i][1]) ELSE Con(all[i][1], Wilds(all[i][2])) : i \in DOMAIN all}
        missing == {p \in pats : is_useful(Rows(Unguarded), <<p>>, Scrutinee)}
    IN  IF missing = {} THEN {Wild} ELSE missing

check_redundancy_KeepsOwn ==
    {i \in DOMAIN arms : ~is_useful(Rows(SubSeq(arms, 1, i)), <<abstract(arms[i].pat)>>, Scrutinee)}

(* check_redundancy: guarded arms count as if they always matched.         *)
check_redundancy ==
    {i \in DOMAIN arms : ~is_useful(Rows(SubSeq(arms, 1, i - 1)), <<abstract(arms[i].pat)>>, Scrutinee)}
-----------------------------------------------------------------------------
Covered(v) == \E i \in DOMAIN Unguarded : Matches(Unguarded[i].pat, v)
Exhaustive == \A v \in Inhabitants(family) : Covered(v)
Uses(kinds) == \E i \in DOMAIN arms : Has(arms[i].pat, kinds)

(* check_exhaustiveness: a case that is accepted leaves no value of its    *)
(* scrutinee without an arm, as long as it has no cons pattern.            *)
AcceptedIsExhaustive == accepted /\ ~Uses({"cons"}) => Exhaustive

(* ast_pattern_to_abstract claims this of cons patterns too.               *)
ConsClaimedExhaustive == accepted => Exhaustive

(* A case that covers every value is accepted, unless its scrutinee is a   *)
(* tuple, or a `true | false` is nested in a pattern.                      *)
ExhaustiveIsAccepted ==
    Exhaustive /\ ~Uses({"tuple", "cons"}) /\ (\A i \in DOMAIN arms : Plain(arms[i].pat)) => accepted

(* find_witnesses: every pattern it reports matches a value that no arm    *)
(* without a guard matches.                                                *)
WitnessesAreMissing ==
    ~accepted /\ ~Uses({"tuple", "cons"}) /\ (\A i \in DOMAIN arms : Plain(arms[i].pat)) =>
        \A w \in find_witnesses : \E v \in Inhabitants(family) : Matches(w, v) /\ ~Covered(v)

(* check_redundancy: an arm that is reported matches no value first; with  *)
(* guards before it, only if they hold.                                    *)
RedundantIsUseless ==
    ~Uses({"cons"}) => \A i \in check_redundancy, v \in Inhabitants(family) :
        Matches(arms[i].pat, v) => \E j \in 1..(i - 1) : Matches(arms[j].pat, v)
=============================================================================
