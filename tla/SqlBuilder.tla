----------------------------- MODULE SqlBuilder -----------------------------
(* The query builder (db/query.rs) and the SQL that Repo makes of a query  *)
(* (db/repo.rs).  Clauses and parameters are kept in separate lists; the   *)
(* SQL numbers its placeholders while it walks the clauses, so one clause  *)
(* that counts wrongly gives every later one the value of another.         *)
(* A text is the sequence of its placeholders: n for $n and 0 for ?.  A    *)
(* clause is <<kind, what it stands on>>.                                  *)
EXTENDS Naturals, Sequences, SequencesExt, FiniteSetsExt, Functions

CONSTANTS Texts,    \* raw texts, with one style of placeholder each
          Columns,  \* columns an update sets
          MaxCalls  \* bound: calls of the builder

VARIABLES query,  \* the slots of the query
          meant   \* the values each clause was given, in the order of its text

vars == <<query, meant>>

Empty == [select |-> <<>>, sp |-> <<>>, wc |-> <<>>, wp |-> <<>>,
          hc |-> <<>>, hp |-> <<>>, fr |-> <<>>, fp |-> <<>>]
Calls == Len(query.select) + Len(query.wc) + Len(query.hc) + Len(query.fr)
Fresh(n) == [k \in 1..n |-> 10 * Calls + k]
Zeros(t) == Cardinality({i \in DOMAIN t : t[i] = 0})
Needs(t) == IF Zeros(t) > 0 THEN Zeros(t) ELSE Max(Range(t) \cup {0})

(* What the author of a text means by its placeholders.                    *)
Meaning(t, v) == [i \in DOMAIN t |-> v[IF t[i] = 0 THEN Zeros(SubSeq(t, 1, i)) ELSE t[i]]]

Init == query = Empty /\ meant = [select |-> <<>>, wc |-> <<>>, hc |-> <<>>, fr |-> <<>>]

Add(slot, params, clause, values, meaning) ==
    /\ Calls < MaxCalls
    /\ query' = [query EXCEPT ![slot] = Append(@, clause), ![params] = @ \o values]
    /\ meant' = [meant EXCEPT ![slot] = @ \o meaning]

(* mesh_query_where, where_op, where_null, where_in, where_not_in,         *)
(* where_between and where_or: n values for n placeholders.                *)
Where == \E n \in 0..3 :
            \E kind \in CASE n = 0 -> {"null"} [] n = 1 -> {"cond", "in"}
                          [] n = 2 -> {"between", "or"} [] OTHER -> {"in"} :
               Add("wc", "wp", <<kind, n>>, Fresh(n), Fresh(n))
WhereText == \E t \in Texts : Add("wc", "wp", <<"text", t>>, Fresh(Needs(t)), Meaning(t, Fresh(Needs(t))))
SelectField == Add("select", "sp", <<"field">>, <<>>, <<>>)
(* An expression numbers its values $1, $2 ... in its own text.            *)
SelectExpr == \E n \in 1..2 : Add("select", "sp", <<"expr", [i \in 1..n |-> i]>>, Fresh(n), Fresh(n))
Having == Add("hc", "hp", <<"having">>, Fresh(1), Fresh(1))
Fragment == \E t \in Texts : Add("fr", "fp", <<"text", t>>, Fresh(Needs(t)), Meaning(t, Fresh(Needs(t))))

(* mesh_query_where_sub: the conditions of the inner query become one text *)
(* of ?, and its values follow those of the outer query.                   *)
WhereSub ==
    \E n \in 1..2 :
        Add("wc", "wp", <<"text", [i \in 1..n |-> 0]>>, Fresh(n), Fresh(n))

Next == Where \/ WhereText \/ SelectField \/ SelectExpr \/ Having \/ Fragment \/ WhereSub

Spec == Init /\ [][Next]_vars
-----------------------------------------------------------------------------
(* renumber_placeholders, and how many parameters it says it has used.     *)
renumber(t, start) ==
    [i \in DOMAIN t |-> IF t[i] = 0 THEN start + Zeros(SubSeq(t, 1, i)) - 1 ELSE start + t[i] - 1]

consumed_Counts(t) == Len(t)

consumed(t) == IF Zeros(t) > 0 THEN Zeros(t) ELSE Max(Range(t) \cup {0})

Takes(list, from, n) == SubSeq(list, from, from + n - 1)
Built(start) == [nums |-> <<>>, params |-> <<>>, idx |-> start]

(* n placeholders in a row for the next n values of the list.              *)
Emit(b, n, values) ==
    [nums |-> b.nums \o [k \in 1..n |-> b.idx + k - 1], params |-> b.params \o values, idx |-> b.idx + n]
EmitText(b, t, values) ==
    [nums |-> b.nums \o renumber(t, b.idx), params |-> b.params \o values, idx |-> b.idx + consumed(t)]

(* build_where_from_query_parts                                            *)
build_where(wc, wp, start) ==
    LET step(acc, c) ==
            LET used == IF c[1] = "text" THEN consumed(c[2]) ELSE c[2]
                values == SubSeq(wp, acc.at, Min({acc.at + used - 1, Len(wp)}))
            IN  [b |-> IF c[1] = "text" THEN EmitText(acc.b, c[2], values) ELSE Emit(acc.b, c[2], values),
                 at |-> acc.at + used]
    IN  FoldLeft(step, [b |-> Built(start), at |-> 1], wc).b

build_select_list(select, sp) ==
    LET step(acc, f) ==
            IF f[1] # "expr" THEN acc
            ELSE LET values == Takes(sp, acc.at, consumed(f[2]))
                 IN  [b |-> EmitText(acc.b, f[2], values), at |-> acc.at + consumed(f[2])]
    IN  FoldLeft(step, [b |-> Built(1), at |-> 1], select).b

Follow(b, w) == [nums |-> b.nums \o w.nums, params |-> b.params \o w.params, idx |-> w.idx]

(* HAVING, then the fragments: their values follow the SQL as whole lists. *)
build_tail(b, q) ==
    LET having == Emit(b, Len(q.hc), q.hp)
        step(acc, f) == EmitText(acc, f[2], <<>>)
        fragments == FoldLeft(step, having, q.fr)
    IN  [fragments EXCEPT !.params = @ \o q.fp]

query_to_select_sql_Restarts(q) ==
    LET b == build_select_list(q.select, q.sp)
    IN  build_tail(Follow(b, build_where(q.wc, q.wp, 1)), q)

query_to_select_sql(q) ==
    LET b == build_select_list(q.select, q.sp)
    IN  build_tail(Follow(b, build_where(q.wc, q.wp, b.idx)), q)

query_to_count_sql(q) == build_tail(build_where(q.wc, q.wp, 1), q)

query_to_exists_sql(q) == build_where(q.wc, q.wp, 1)

build_update_where_FromOne(q, values) ==
    Follow(Emit(Built(1), Len(values), values), build_where(q.wc, q.wp, 1))

(* mesh_repo_update_where and, with expressions, update_where_expr.        *)
build_update_where(q, values) ==
    LET set == Emit(Built(1), Len(values), values)
    IN  Follow(set, build_where(q.wc, q.wp, set.idx))
-----------------------------------------------------------------------------
TypeOK == Calls \in 0..MaxCalls /\ \A s \in {"sp", "wp", "hp", "fp"} : Range(query[s]) \subseteq Nat

Binds(b, values) ==
    /\ Len(b.nums) = Len(values)
    /\ \A i \in DOMAIN values : b.nums[i] \in DOMAIN b.params /\ b.params[b.nums[i]] = values[i]

(* query_to_select_sql, _count_sql, _exists_sql: whatever clauses a query  *)
(* was given and in whatever order, each placeholder is bound to the value *)
(* that was given for it.                                                  *)
ReadsBind ==
    LET rest == meant.wc \o meant.hc \o meant.fr
    IN  /\ Binds(query_to_select_sql(query), meant.select \o rest)
        /\ Binds(query_to_count_sql(query), rest)
        /\ Binds(query_to_exists_sql(query), meant.wc)

(* mesh_repo_update_where, _expr: the values of SET come before those of   *)
(* the conditions, and no condition is bound to a value of SET.            *)
WritesBind ==
    LET values == [c \in 1..Columns |-> 1000 + c]
    IN  Binds(build_update_where(query, values), values \o meant.wc)
=============================================================================
