---------------------------- MODULE DecisionTree ----------------------------
(* The compilation of a case into a decision tree (mesh-codegen,           *)
(* pattern/compile.rs), and what codegen/pattern.rs makes of the tree.     *)
(* Constructor switches, literal tests and list deconstruction are one     *)
(* kind of node here: a switch on what stands at a path.                   *)
EXTENDS Patterns

IsWild(p) == p.k \in {"wild", "var"}

expand_pattern_First(p) == <<IF p.k = "or" THEN p.a[1] ELSE p>>

(* expand_pattern: the alternatives at the top, each a row of its own.     *)
RECURSIVE expand_pattern(_)
expand_pattern(p) ==
    IF p.k = "or" THEN FlattenSeq([i \in DOMAIN p.a |-> expand_pattern(p.a[i])]) ELSE <<p>>

(* expand_or_patterns, compile_match: one column, the scrutinee.           *)
expand_or_patterns ==
    FlattenSeq([i \in DOMAIN arms |->
        LET alts == expand_pattern(arms[i].pat)
        IN  [j \in DOMAIN alts |-> [pats |-> <<alts[j]>>, arm |-> i, guarded |-> arms[i].guarded, binds |-> {}]]])
Matrix == [rows |-> expand_or_patterns, paths |-> <<<<>>>>]

(* head_ctor_key, and how many of them a column has.                       *)
Diversity(m, col) ==
    Cardinality({<<p.k, p.c>> : p \in {q \in {m.rows[i].pats[col] : i \in DOMAIN m.rows} : ~IsWild(q) /\ q.k # "or"}})

select_column(m) ==
    LET best == {c \in DOMAIN m.paths : \A d \in DOMAIN m.paths : Diversity(m, d) <= Diversity(m, c)}
    IN  Min(best)

(* The row with `subs` in the place of its column.                         *)
Row(m, row, col, subs) ==
    LET p == row.pats[col]
    IN  [row EXCEPT !.pats = subs \o RemoveAt(@, col),
                    !.binds = IF p.k = "var" THEN @ \cup {<<p.c, m.paths[col]>>} ELSE @]
Wilds(n) == [i \in 1..n |-> Wild]

(* `rows` with the n parts of the column in its place.                     *)
Parted(m, col, n, rows) ==
    LET parts(p) == IF p.k \in {"con", "tuple", "cons"} THEN p.a ELSE Wilds(n)
    IN  [rows |-> [i \in DOMAIN rows |-> Row(m, rows[i], col, parts(rows[i].pats[col]))],
         paths |-> [i \in 1..n |-> Append(m.paths[col], i)] \o RemoveAt(m.paths, col)]

(* specialize_for_constructor, _list_cons, _literal                        *)
specialize(m, col, head) ==
    LET n == Len(head.a)
        keeps(p) == IsWild(p) \/ (p.k = head.k /\ p.c = head.c)
    IN  Parted(m, col, n, SelectSeq(m.rows, LAMBDA r : keeps(r.pats[col])))

default_matrix_NoNames(m, col) ==
    Parted(m, col, 0, SelectSeq(m.rows, LAMBDA r : r.pats[col].k = "wild"))

default_matrix(m, col) ==
    Parted(m, col, 0, SelectSeq(m.rows, LAMBDA r : IsWild(r.pats[col])))

remove_wildcard_column(m, col) == Parted(m, col, 0, m.rows)

column_has_tuples(m, col) == \E i \in DOMAIN m.rows : m.rows[i].pats[col].k = "tuple"

expand_tuple_column(m, col) ==
    LET n == Len(SelectSeq(m.rows, LAMBDA r : r.pats[col].k = "tuple")[1].pats[col].a)
    IN  Parted(m, col, n, m.rows)

(* collect_head_constructors, in the order of the rows.                    *)
collect_head_constructors(m, col) ==
    FoldLeft(LAMBDA found, r :
                 LET p == r.pats[col]
                 IN  IF p.k \in {"con", "lit", "cons"} /\ \A i \in DOMAIN found : found[i].c # p.c
                     THEN Append(found, p) ELSE found,
             <<>>, m.rows)

Fail == [node |-> "fail"]
Leaf(row) == [node |-> "leaf", arm |-> row.arm, binds |-> row.binds]

(* If the guard fails the next row is taken as it stands: its patterns are *)
(* not tested and its variables are not bound.                             *)
RECURSIVE make_leaf_or_guard(_)
make_leaf_or_guard(rows) ==
    IF rows = <<>> THEN Fail
    ELSE IF ~rows[1].guarded THEN Leaf(rows[1])
    ELSE [node |-> "guard", arm |-> rows[1].arm, success |-> Leaf(rows[1]), failure |-> make_leaf_or_guard(Tail(rows))]

collect_bindings(m) ==
    LET r == m.rows[1]
    IN  [r EXCEPT !.binds = @ \cup {<<r.pats[i].c, m.paths[i]>> : i \in {j \in DOMAIN r.pats : r.pats[j].k = "var"}}]

RECURSIVE compile_matrix(_)
compile_matrix(m) ==
    LET col == select_column(m)
        heads == collect_head_constructors(m, col)
    IN  CASE m.rows = <<>> -> Fail
          [] m.rows # <<>> /\ \A i \in DOMAIN m.rows[1].pats : IsWild(m.rows[1].pats[i]) ->
               make_leaf_or_guard(<<collect_bindings(m)>> \o Tail(m.rows))
          [] OTHER ->
               IF column_has_tuples(m, col) THEN compile_matrix(expand_tuple_column(m, col))
               ELSE IF heads = <<>> THEN compile_matrix(remove_wildcard_column(m, col))
               ELSE [node |-> "switch", path |-> m.paths[col],
                     cases |-> [i \in DOMAIN heads |-> <<heads[i].c, compile_matrix(specialize(m, col, heads[i]))>>],
                     default |-> compile_matrix(default_matrix(m, col))]

tree == compile_matrix(Matrix)
-----------------------------------------------------------------------------
(* navigate_access_path                                                    *)
RECURSIVE At(_, _)
At(v, path) == IF path = <<>> THEN v ELSE At(v.a[path[1]], Tail(path))

(* codegen_decision_tree: the arm that is run, with its bindings; `holds`  *)
(* tells which guards do.                                                  *)
RECURSIVE Run(_, _, _)
Run(t, v, holds) ==
    CASE t.node = "fail" -> <<"fail">>
      [] t.node = "leaf" -> <<"arm", t.arm, {<<b[1], At(v, b[2])>> : b \in t.binds}>>
      [] t.node = "guard" -> Run(IF t.arm \in holds THEN t.success ELSE t.failure, v, holds)
      [] t.node = "switch" ->
           LET hit == SelectSeq(t.cases, LAMBDA c : c[1] = At(v, t.path).c)
           IN  Run(IF hit = <<>> THEN t.default ELSE hit[1][2], v, holds)

(* What the language promises: the first arm that matches, if its guard holds.*)
FirstMatch(v, holds) ==
    LET fits == {i \in DOMAIN arms : Matches(arms[i].pat, v) /\ (arms[i].guarded => i \in holds)}
    IN  IF fits = {} THEN <<"fail">> ELSE <<"arm", Min(fits), Bindings(arms[Min(fits)].pat, v)>>

Guarded == {i \in DOMAIN arms : arms[i].guarded}
AllPlain == \A i \in DOMAIN arms : Plain(arms[i].pat)

(* Every guard that fails is followed by `_` arms only.                    *)
Simple(holds) == \A i \in Guarded \ holds : \A j \in (i + 1)..Len(arms) : arms[j].pat = Wild

(* compile_matrix: the tree runs the first arm that matches, with what its *)
(* variables are bound to, without or-patterns below the top of an arm.    *)
TreeIsFirstMatch ==
    AllPlain => LET t == tree
                IN  \A v \in Inhabitants(family), holds \in SUBSET Guarded :
                        Simple(holds) => Run(t, v, holds) = FirstMatch(v, holds)

(* make_leaf_or_guard: "If the guard fails, fall through to the remaining  *)
(* rows", whatever they are.                                               *)
GuardFallsThrough ==
    AllPlain => LET t == tree
                IN  \A v \in Inhabitants(family), holds \in SUBSET Guarded :
                        Run(t, v, holds)[1] = FirstMatch(v, holds)[1]
                        /\ (Len(Run(t, v, holds)) > 1 => Run(t, v, holds)[2] = FirstMatch(v, holds)[2])
=============================================================================
