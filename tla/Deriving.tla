------------------------------- MODULE Deriving -------------------------------
(* What the compiler derives for a type (mesh-typeck infer.rs registers the  *)
(* implementations, mesh-codegen lower.rs makes the functions) and what the  *)
(* functions do with the runtime's json.rs, hash.rs and db/row.rs.  A type   *)
(* is [c, a]: a name and its arguments.  A value is [c, i, a]: a name, the   *)
(* integer a primitive stands for, and parts; so are results and JSON.       *)
EXTENDS Integers, Sequences, FiniteSets, SequencesExt

CONSTANTS
    Decls,   \* name -> the declared type
    Order,   \* their names in the order of the file
    Atoms,   \* primitive -> the integers its values are
    Subjects, \* the types whose values are looked at
    Many      \* how many sequences of values of a type are, at most

VARIABLES subject, vals

Prims == {"Int", "Float", "Bool", "String"}
Inf == 99      \* the Float that is no JSON number
MinusZero == -9
ByAddress == 1  \* of a map: its keys are compared by their addresses
Mag(i) == IF i = MinusZero THEN 0 ELSE i
Ty(c) == [c |-> c, a |-> <<>>]
Prim(c, i) == [c |-> c, i |-> i, a |-> <<>>]
Built(c, a) == [c |-> c, i |-> 0, a |-> a]
Ok(v) == Built("Ok", <<v>>)
Err(what) == Built("Err", <<Prim(what, 0)>>)
IsOk(r) == r.c = "Ok"
Got(r) == r.a[1]

Declared(t) == t.a = <<>> /\ t.c \in DOMAIN Decls
(* resolve_type: structs and sums are values, collections are pointers.      *)
Kind(t) == CASE t.c \in Prims -> "prim"
             [] t.c = "Option" -> "option"
             [] Declared(t) -> Decls[t.c].kind
             [] OTHER -> "ptr"
Fields(n) == Decls[n].fields              \* of a struct: <<name, type>>
FieldTypes(n) == [k \in DOMAIN Fields(n) |-> Fields(n)[k][2]]
Variants(n) == Decls[n].fields            \* of a sum: <<name, types>>
Tag(n, c) == CHOOSE k \in DOMAIN Variants(n) : Variants(n)[k][1] = c
Payload(n, c) == Variants(n)[Tag(n, c)][2]

RECURSIVE Values(_), Products(_)
Products(ts) ==
    IF ts = <<>> THEN {<<>>} ELSE {<<v>> \o r : v \in Values(Head(ts)), r \in Products(Tail(ts))}
Values(t) ==
    CASE Kind(t) = "prim" -> {Prim(t.c, i) : i \in Atoms[t.c]}
      [] Kind(t) = "option" -> {Built("None", <<>>)} \cup {Built("Some", <<v>>) : v \in Values(t.a[1])}
      [] Kind(t) = "struct" -> {Built(t.c, a) : a \in Products(FieldTypes(t.c))}
      [] Kind(t) = "sum" -> UNION {{Built(w[1], a) : a \in Products(w[2])} : w \in ToSet(Variants(t.c))}
      [] t.c = "List" -> {Built("List", a) : a \in UNION {[1..n -> Values(t.a[1])] : n \in 0..2}}
      [] t.c = "Map" -> {Built("Map", <<>>)} \cup {Built("Map", <<Built("k", <<v>>)>>) : v \in Values(t.a[2])}

-----------------------------------------------------------------------------
(* infer.rs: the implementations that are registered, type after type.       *)
Default == [struct |-> {"Debug", "Eq", "Ord", "Hash"}, sum |-> {"Debug", "Eq", "Ord"}]
Asked(n) == IF Decls[n].traits = {} THEN Default[Decls[n].kind] ELSE Decls[n].traits

RECURSIVE is_json_serializable(_, _)
is_json_serializable(t, impls) ==
    \/ t.c \in Prims
    \/ t.a = <<>> /\ <<"ToJson", t.c>> \in impls
    \/ t.c \in {"Option", "List"} /\ is_json_serializable(t.a[1], impls)
    \/ t.c = "Map" /\ t.a[1] = Ty("String") /\ is_json_serializable(t.a[2], impls)

RECURSIVE is_row_mappable(_)
is_row_mappable(t) == t.c \in Prims \/ (t.c = "Option" /\ is_row_mappable(t.a[1]))

NoPrerequisite(n) == "Ord" \in Decls[n].traits /\ "Eq" \notin Decls[n].traits

Registered(acc, n, json, row) ==
    [impls |-> acc.impls \cup {<<tr, n>> : tr \in Asked(n) \ {"Json", "Row", "Schema"}}
               \cup (IF "Json" \in Asked(n) /\ json THEN {<<"ToJson", n>>, <<"FromJson", n>>} ELSE {})
               \cup (IF "Row" \in Asked(n) /\ row THEN {<<"FromRow", n>>} ELSE {}),
     errors |-> acc.errors \cup (IF "Json" \in Asked(n) /\ ~json THEN {n} ELSE {})
                \cup (IF "Row" \in Asked(n) /\ ~row /\ Decls[n].kind = "struct" THEN {n} ELSE {})]

register_struct_def(acc, n) ==
    IF NoPrerequisite(n) THEN [acc EXCEPT !.errors = @ \cup {n}]
    ELSE Registered(acc, n, \A t \in ToSet(FieldTypes(n)) : is_json_serializable(t, acc.impls),
                    \A t \in ToSet(FieldTypes(n)) : is_row_mappable(t))

register_sum_type_def_Unchecked(acc, n) == Registered(acc, n, TRUE, FALSE)

register_sum_type_def(acc, n) ==
    IF NoPrerequisite(n) \/ "Schema" \in Decls[n].traits THEN [acc EXCEPT !.errors = @ \cup {n}]
    ELSE Registered(acc, n, \A w \in ToSet(Variants(n)) : \A t \in ToSet(w[2]) : is_json_serializable(t, acc.impls), FALSE)

Registry ==
    FoldLeft(LAMBDA acc, n : IF Decls[n].kind = "struct" THEN register_struct_def(acc, n) ELSE register_sum_type_def(acc, n),
             [impls |-> {}, errors |-> {}], Order)
Impl(tr, n) == <<tr, n>> \in Registry.impls

(* lower.rs: the functions that are made.                                    *)
Functions == [Debug |-> {"inspect"}, Eq |-> {"eq"}, Ord |-> {"lt", "compare"}, Hash |-> {"hash"}, Display |-> {"to_string"},
              Json |-> {"to_json", "from_json", "json_decode"}, Row |-> {"from_row"}, Schema |-> {"table", "fields"}]
lower_struct_def(n) == UNION {{<<f, n>> : f \in Functions[tr]} : tr \in Asked(n)}
lower_sum_type_def(n) == UNION {{<<f, n>> : f \in Functions[tr]} : tr \in Asked(n) \ {"Row", "Schema"}}
Made(n) == IF Decls[n].kind = "struct" THEN lower_struct_def(n) ELSE lower_sum_type_def(n)
AllMade == UNION {Made(n) : n \in ToSet(Order)}
-----------------------------------------------------------------------------
(* Equality and order.                                                       *)
BinEq(c, v, w) == IF c = "Float" THEN Mag(v.i) = Mag(w.i) ELSE v.i = w.i
BinLt(c, v, w) == IF c = "Float" THEN Mag(v.i) < Mag(w.i) ELSE v.i < w.i
(* codegen_binop, codegen_string_compare                                     *)
codegen_binop == [eq |-> Prims, lt |-> {"Int", "Float"}]

RECURSIVE generate_eq_struct(_, _, _), generate_eq_sum(_, _, _)
EqOf(t, v, w) ==
    CASE Kind(t) = "struct" -> generate_eq_struct(t.c, v, w)
      [] Kind(t) = "sum" -> generate_eq_sum(t.c, v, w)
      [] OTHER -> BinEq(t.c, v, w)
generate_eq_struct(n, v, w) == \A k \in DOMAIN Fields(n) : EqOf(FieldTypes(n)[k], v.a[k], w.a[k])
generate_eq_sum(n, v, w) ==
    v.c = w.c /\ \A k \in DOMAIN v.a : EqOf(Payload(n, v.c)[k], v.a[k], w.a[k])

RECURSIVE generate_ord_struct(_, _, _), generate_ord_sum(_, _, _), build_lexicographic_lt(_, _, _)
LtOf(t, v, w) ==
    CASE Kind(t) = "struct" -> generate_ord_struct(t.c, v, w)
      [] Kind(t) = "sum" -> generate_ord_sum(t.c, v, w)
      [] OTHER -> BinLt(t.c, v, w)
(* The first part is less, or it is equal and the others are less.           *)
build_lexicographic_lt(ts, v, w) ==
    /\ ts # <<>>
    /\ \/ LtOf(Head(ts), Head(v), Head(w))
       \/ EqOf(Head(ts), Head(v), Head(w)) /\ build_lexicographic_lt(Tail(ts), Tail(v), Tail(w))
generate_ord_struct(n, v, w) == build_lexicographic_lt(FieldTypes(n), v.a, w.a)
generate_ord_sum_Untagged(n, v, w) == v.c = w.c /\ build_lexicographic_lt(Payload(n, v.c), v.a, w.a)

generate_ord_sum(n, v, w) ==
    \/ Tag(n, v.c) < Tag(n, w.c)
    \/ v.c = w.c /\ build_lexicographic_lt(Payload(n, v.c), v.a, w.a)

generate_compare(n, v, w) ==
    IF LtOf(Ty(n), v, w) THEN "Less" ELSE IF EqOf(Ty(n), v, w) THEN "Equal" ELSE "Greater"

(* Whether the function can be compiled: its operations on parts that are    *)
(* not structs (of a struct) or neither structs nor sums (of a sum) must be  *)
(* ones codegen_binop knows, and the functions it calls must be there.  The  *)
(* false of an `and` comes from the function's first block, so a comparison  *)
(* of more than two fields, or of two in the arm of a sum, is not verified.  *)
Calls(n) == IF Decls[n].kind = "struct" THEN {"struct"} ELSE {"struct", "sum"}
Groups(n) == IF Decls[n].kind = "struct" THEN {FieldTypes(n)} ELSE {w[2] : w \in ToSet(Variants(n))}
RECURSIVE Compiles(_, _)
Compiles(f, n) ==
    /\ <<f, n>> \in AllMade
    /\ \A ts \in Groups(n), k \in 1..5 : k \in DOMAIN ts =>
           IF Kind(ts[k]) \in Calls(n) THEN Compiles(f, ts[k].c) ELSE ts[k].c \in codegen_binop[f]
    /\ f = "eq" => \A ts \in Groups(n) : Len(ts) <= IF Decls[n].kind = "struct" THEN 2 ELSE 1
    /\ f = "lt" => \A ts \in Groups(n) : \A k \in 1..(Len(ts) - 1) : Kind(ts[k]) # "prim" => Compiles("eq", ts[k].c)

(* The operators on values of a type: on lists, with callbacks.              *)
RECURSIVE mesh_list_eq(_, _, _), mesh_list_compare(_, _, _)
resolve_eq_callback(t, v, w) == IF t.c = "List" THEN mesh_list_eq(t.a[1], v.a, w.a) ELSE BinEq(t.c, v, w)
mesh_list_eq(t, v, w) == Len(v) = Len(w) /\ \A k \in DOMAIN v : resolve_eq_callback(t, v[k], w[k])
Sign(a, b) == IF a < b THEN -1 ELSE IF a > b THEN 1 ELSE 0
resolve_compare_callback(t, v, w) ==
    CASE t.c = "List" -> mesh_list_compare(t.a[1], v.a, w.a)
      [] t.c = "String" -> IF v = w THEN 0 ELSE -1
      [] OTHER -> Sign(v.i, w.i)
mesh_list_compare(t, v, w) ==
    IF v = <<>> \/ w = <<>> THEN Sign(Len(v), Len(w))
    ELSE LET c == resolve_compare_callback(t, Head(v), Head(w))
         IN  IF c # 0 THEN c ELSE mesh_list_compare(t, Tail(v), Tail(w))
lower_binary_expr_Unswapped(t, op, v, w) ==
    CASE op \in {"<", ">"} -> LtOf(t, v, w) [] op = "==" -> EqOf(t, v, w) [] OTHER -> FALSE

lower_binary_expr(t, op, v, w) ==
    LET c == mesh_list_compare(t.a[1], v.a, w.a)
    IN  IF t.c = "List"
        THEN CASE op = "==" -> mesh_list_eq(t.a[1], v.a, w.a)
               [] op = "!=" -> ~mesh_list_eq(t.a[1], v.a, w.a)
               [] op = "<" -> c < 0 [] op = ">" -> c > 0 [] op = "<=" -> c <= 0 [] op = ">=" -> c >= 0
        ELSE CASE op = "==" -> EqOf(t, v, w) [] op = "!=" -> ~EqOf(t, v, w)
               [] op = "<" -> LtOf(t, v, w) [] op = ">" -> LtOf(t, w, v)
               [] op = "<=" -> ~LtOf(t, w, v) [] op = ">=" -> ~LtOf(t, v, w)

(* Hashes, as the terms that were hashed; what is no primitive or struct is  *)
(* hashed by its address, and stands for any term.                           *)
mesh_hash(c, i) == Prim(c, i)
mesh_hash_combine(g, h) == Built("combine", <<g, h>>)
RECURSIVE emit_hash_for_type(_, _)
Combined(hs) == FoldLeft(LAMBDA g, h : mesh_hash_combine(g, h), Head(hs), Tail(hs))
generate_hash_struct(n, v) ==
    IF Fields(n) = <<>> THEN mesh_hash("basis", 0)
    ELSE Combined([k \in DOMAIN Fields(n) |-> emit_hash_for_type(FieldTypes(n)[k], v.a[k])])
generate_hash_sum_type(n, v) ==
    Combined(<<mesh_hash("Int", Tag(n, v.c))>> \o
             [k \in DOMAIN v.a |-> emit_hash_for_type(Payload(n, v.c)[k], v.a[k])])
emit_hash_for_type(t, v) ==
    CASE t.c \in Prims -> mesh_hash(t.c, v.i)
      [] Kind(t) = "struct" -> generate_hash_struct(t.c, v)
      [] OTHER -> mesh_hash("address", 0)
HashOf(n, v) == IF Decls[n].kind = "struct" THEN generate_hash_struct(n, v) ELSE generate_hash_sum_type(n, v)
RECURSIVE HashedByValue(_)
HashedByValue(n) ==
    \A ts \in Groups(n), k \in 1..5 : k \in DOMAIN ts =>
        (ts[k].c \in Prims \ {"Float"}) \/ (Kind(ts[k]) = "struct" /\ HashedByValue(ts[k].c))
-----------------------------------------------------------------------------
(* JSON: an object is its entries, each named by its key.                    *)
mesh_json_object_new == Built("Object", <<>>)
mesh_json_object_put(obj, key, j) ==
    IF \E k \in DOMAIN obj.a : obj.a[k].c = key
    THEN [obj EXCEPT !.a = [k \in DOMAIN @ |-> IF @[k].c = key THEN Built(key, <<j>>) ELSE @[k]]]
    ELSE [obj EXCEPT !.a = Append(@, Built(key, <<j>>))]
mesh_json_object_get(j, key) ==
    IF j.c # "Object" THEN Err("expected Object")
    ELSE IF \E k \in DOMAIN j.a : j.a[k].c = key
         THEN Ok((CHOOSE e \in ToSet(j.a) : e.c = key).a[1]) ELSE Err("missing field")
mesh_json_array_get(j, k) ==
    IF j.c # "Array" THEN Err("expected Array")
    ELSE IF k \in DOMAIN j.a THEN Ok(j.a[k]) ELSE Err("out of bounds")
mesh_json_from(c, v) == Prim(c, v.i)
mesh_json_as(c, j) ==
    IF j.c = c \/ {j.c, c} = {"Int", "Float"} THEN Ok(Prim(c, IF c = "Int" THEN Mag(j.i) ELSE j.i)) ELSE Err("expected another")

RECURSIVE emit_to_json(_, _)
generate_to_json_struct(n, v) ==
    FoldLeft(LAMBDA obj, k : mesh_json_object_put(obj, Fields(n)[k][1], emit_to_json(FieldTypes(n)[k], v.a[k])),
             mesh_json_object_new, [k \in DOMAIN Fields(n) |-> k])
generate_to_json_sum_type(n, v) ==
    mesh_json_object_put(
        mesh_json_object_put(mesh_json_object_new, "tag", Built("String", <<Prim(v.c, 0)>>)),
        "fields", Built("Array", [k \in DOMAIN v.a |-> LET t == Payload(n, v.c)[k]
                                                       IN  IF Kind(t) = "ptr" THEN Prim("raw", 0) ELSE emit_to_json(t, v.a[k])]))
(* mir_type_from_name: what is in an Option and no struct is no type, and is *)
(* put into the object as it is: "raw" is no JSON.                           *)
emit_option_to_json(t, v) ==
    IF v.c = "None" THEN Prim("Null", 0)
    ELSE IF Kind(t.a[1]) \in {"prim", "struct"} THEN emit_to_json(t.a[1], v.a[1]) ELSE Prim("raw", 0)
(* A callback of a list or map gets every element in an integer register: of *)
(* an App it makes the integer of the address, and of a Float it reads       *)
(* another register.                                                         *)
resolve_to_json_callback(t, v) ==
    IF t.a # <<>> \/ t.c = "Float" THEN Prim("raw", 0) ELSE emit_to_json(t, v)
emit_collection_to_json(t, v) ==
    CASE t.c = "List" -> Built("Array", [k \in DOMAIN v.a |-> resolve_to_json_callback(t.a[1], v.a[k])])
      [] t.c = "Map" -> Built("Object", [k \in DOMAIN v.a |-> Built(v.a[k].c, <<resolve_to_json_callback(t.a[2], v.a[k].a[1])>>)])
emit_to_json(t, v) ==
    CASE t.c \in Prims -> mesh_json_from(t.c, v)
      [] Kind(t) = "option" -> emit_option_to_json(t, v)
      [] Kind(t) = "struct" -> generate_to_json_struct(t.c, v)
      [] Kind(t) = "sum" -> generate_to_json_sum_type(t.c, v)
      [] OTHER -> emit_collection_to_json(t, v)

(* mesh_json_encode and mesh_json_parse: a number that is not finite is null.*)
RECURSIVE mesh_json_to_serde_value(_)
mesh_json_to_serde_value(j) ==
    IF j.c = "Float" /\ j.i = Inf THEN Prim("Null", 0)
    ELSE [j EXCEPT !.a = [k \in DOMAIN @ |-> mesh_json_to_serde_value(@[k])]]

(* The parts one after the other, up to the first error.                     *)
Collect(c, rs) ==
    IF \E k \in DOMAIN rs : ~IsOk(rs[k])
    THEN rs[CHOOSE k \in DOMAIN rs : ~IsOk(rs[k]) /\ \A m \in 1..(k - 1) : IsOk(rs[m])]
    ELSE Ok(Built(c, [k \in DOMAIN rs |-> Got(rs[k])]))

RECURSIVE emit_from_json(_, _)
generate_from_json_struct_Lenient(n, j) ==
    Collect(n, [k \in DOMAIN Fields(n) |->
        LET g == mesh_json_object_get(j, Fields(n)[k][1])
        IN  emit_from_json(FieldTypes(n)[k], IF IsOk(g) THEN Got(g) ELSE Prim("Int", 0))])

generate_from_json_struct(n, j) ==
    Collect(n, [k \in DOMAIN Fields(n) |->
        LET g == mesh_json_object_get(j, Fields(n)[k][1])
        IN  IF IsOk(g) THEN emit_from_json(FieldTypes(n)[k], Got(g)) ELSE g])

build_variant_from_json_body(c, ts, j) ==
    LET f == mesh_json_object_get(j, "fields")
    IN  IF ~IsOk(f) THEN f
        ELSE Collect(c, [k \in DOMAIN ts |->
                 LET g == mesh_json_array_get(Got(f), k)
                 IN  CASE ~IsOk(g) -> g [] Kind(ts[k]) = "ptr" -> mesh_json_as("Int", Got(g)) [] OTHER -> emit_from_json(ts[k], Got(g))])
generate_from_json_sum_type(n, j) ==
    LET g == mesh_json_object_get(j, "tag")
        w == IF IsOk(g) /\ Got(g).c = "String" /\ Got(g).a # <<>> THEN {x \in ToSet(Variants(n)) : x[1] = Got(g).a[1].c} ELSE {}
    IN  CASE ~IsOk(g) -> g
          [] Got(g).c # "String" -> Err("expected String")
          [] w = {} -> Err("unknown variant")
          [] OTHER -> LET x == CHOOSE x \in w : TRUE
                      IN  IF x[2] = <<>> THEN Ok(Built(x[1], <<>>)) ELSE build_variant_from_json_body(x[1], x[2], j)
(* The value inside is what is returned, and null is an error.               *)
emit_option_from_json(t, j) == mesh_json_as(IF t.a[1].c \in Prims THEN t.a[1].c ELSE "Int", j)
resolve_from_json_callback(t, j) == IF t.a # <<>> THEN mesh_json_as("Int", j) ELSE emit_from_json(t, j)
emit_collection_from_json(t, j) ==
    CASE t.c = "List" ->
           IF j.c # "Array" THEN Err("expected Array")
           ELSE Collect("List", [k \in DOMAIN j.a |-> resolve_from_json_callback(t.a[1], j.a[k])])
      [] t.c = "Map" ->
           IF j.c # "Object" THEN Err("expected Object")
           ELSE LET rs == [k \in DOMAIN j.a |-> resolve_from_json_callback(t.a[2], j.a[k].a[1])]
                    m == Collect("Map", rs)
                IN  IF IsOk(m) THEN Ok([c |-> "Map", i |-> ByAddress, a |-> [k \in DOMAIN rs |-> Built(j.a[k].c, <<Got(rs[k])>>)]]) ELSE m
emit_from_json(t, j) ==
    CASE t.c \in Prims -> mesh_json_as(t.c, j)
      [] Kind(t) = "option" -> emit_option_from_json(t, j)
      [] Kind(t) = "struct" -> generate_from_json_struct(t.c, j)
      [] Kind(t) = "sum" -> generate_from_json_sum_type(t.c, j)
      [] OTHER -> emit_collection_from_json(t, j)
-----------------------------------------------------------------------------
(* Rows: a column is a text, known by what can be read from it.              *)
Texts == {"", "0", "1", "t", "1.0"}
Reads(c, x) ==
    CASE x = "0" -> {0} [] x = "1" -> {1}
      [] x = "1.0" /\ c = "Float" -> {1} [] x = "t" /\ c = "Bool" -> {1} [] OTHER -> {}
Code(x) == CHOOSE i \in 0..4 : <<"", "0", "1", "t", "1.0">>[i + 1] = x
mesh_row_from_row_get(row, key) == IF key \in DOMAIN row THEN Ok(Prim(row[key], 0)) ELSE Err("missing column")
mesh_row_parse(c, x) ==
    CASE c = "String" -> Ok(Prim("String", Code(x)))
      [] Reads(c, x) # {} -> Ok(Prim(c, CHOOSE i \in Reads(c, x) : TRUE))
      [] OTHER -> Err("cannot parse")
emit_from_row_option_some(t, x) ==
    LET r == mesh_row_parse(IF t.a[1].c \in Prims THEN t.a[1].c ELSE "Int", x)
    IN  IF IsOk(r) THEN Ok(Built("Some", <<Got(r)>>)) ELSE r
(* Of one field, from what mesh_row_from_row_get gave for its column.        *)
RowOption_Parsed(t, g) == IF IsOk(g) THEN emit_from_row_option_some(t, Got(g).c) ELSE Ok(Built("None", <<>>))

RowOption(t, g) ==
    IF IsOk(g) /\ Got(g).c # "" THEN emit_from_row_option_some(t, Got(g).c) ELSE Ok(Built("None", <<>>))

RowField(t, g) ==
    CASE Kind(t) = "option" -> RowOption(t, g)
      [] ~IsOk(g) -> g
      [] OTHER -> mesh_row_parse(t.c, Got(g).c)
generate_from_row_struct(n, row) ==
    Collect(n, [k \in DOMAIN Fields(n) |-> RowField(FieldTypes(n)[k], mesh_row_from_row_get(row, Fields(n)[k][1]))])
-----------------------------------------------------------------------------
Init == subject \in Subjects /\ vals = <<>>
Next == /\ Len(vals) < 3 /\ Cardinality(Values(subject))^(Len(vals) + 1) <= Many
        /\ \E v \in Values(subject) : vals' = Append(vals, v)
        /\ UNCHANGED subject
Spec == Init /\ [][Next]_<<subject, vals>>
-----------------------------------------------------------------------------
RECURSIVE Canonical(_), Within(_), WellTyped(_, _)
Canonical(v) == [v EXCEPT !.i = IF v.c = "Map" THEN 0 ELSE Mag(@), !.a = [k \in DOMAIN @ |-> Canonical(@[k])]]
(* The types a type is made of.                                              *)
Within(t) ==
    {t} \cup UNION {Within(t.a[k]) : k \in DOMAIN t.a}
        \cup (IF Declared(t) THEN UNION {UNION {Within(ts[k]) : k \in DOMAIN ts} : ts \in Groups(t.c)} ELSE {})
WellTyped(t, v) ==
    CASE t.c \in Prims -> v.c = t.c
      [] Kind(t) = "struct" -> /\ v.c = t.c /\ Len(v.a) = Len(Fields(t.c))
                               /\ \A k \in DOMAIN v.a : WellTyped(FieldTypes(t.c)[k], v.a[k])
      [] Kind(t) = "sum" -> /\ \E w \in ToSet(Variants(t.c)) : w[1] = v.c /\ Len(v.a) = Len(w[2])
                            /\ \A k \in DOMAIN v.a : WellTyped(Payload(t.c, v.c)[k], v.a[k])
      [] Kind(t) = "option" -> v.c = "None" \/ (v.c = "Some" /\ WellTyped(t.a[1], v.a[1]))
      [] OTHER -> v.c = t.c /\ \A k \in DOMAIN v.a : WellTyped(Last(t.a), IF t.c = "Map" THEN v.a[k].a[1] ELSE v.a[k])

Name == subject.c
User == Declared(subject)
Less(k, m) == LtOf(subject, vals[k], vals[m])
Equal(k, m) == EqOf(subject, vals[k], vals[m])

(* Eq__eq, Ord__lt, Ord__compare: derived equality is that of the parts, and *)
(* the derived order is a total one that agrees with it.                     *)
EqualIsTheSame ==
    User /\ Len(vals) = 2 /\ Compiles("eq", Name) => (Equal(1, 2) <=> Canonical(vals[1]) = Canonical(vals[2]))
OrderIsTotal ==
    User /\ Len(vals) \in 2..3 /\ Compiles("lt", Name) =>
        /\ Less(1, 2) => ~Less(2, 1)
        /\ ~Less(1, 2) /\ ~Less(2, 1) <=> Canonical(vals[1]) = Canonical(vals[2])
        /\ Compiles("eq", Name) =>
               (generate_compare(Name, vals[1], vals[2]) = "Less" <=> generate_compare(Name, vals[2], vals[1]) = "Greater")
        /\ Len(vals) = 3 /\ Less(1, 2) /\ Less(2, 3) => Less(1, 3)

(* lower_binary_expr: of two values one is less or they are equal, and the   *)
(* other operators say the same (lists of String are not ordered).           *)
OperatorsAgree ==
    Len(vals) = 2 /\ (IF User THEN Compiles("eq", Name) /\ Compiles("lt", Name)
                      ELSE subject.c = "List" /\ Within(subject) \subseteq {subject, subject.a[1], Ty("Int"), Ty("Bool")}) =>
        LET op(o) == lower_binary_expr(subject, o, vals[1], vals[2])
        IN  /\ Cardinality({o \in {"<", "==", ">"} : op(o)}) = 1
            /\ op("!=") = ~op("==") /\ op("<=") = (op("<") \/ op("==")) /\ op(">=") = (op(">") \/ op("=="))

(* Hash__hash: equal values have equal hashes (Float and what is hashed by   *)
(* its address aside), and different ones are different terms.               *)
EqualHashEqually ==
    User /\ Len(vals) = 2 /\ <<"hash", Name>> \in AllMade /\ HashedByValue(Name) =>
        (HashOf(Name, vals[1]) = HashOf(Name, vals[2]) <=> vals[1] = vals[2])

Coded == User /\ Impl("ToJson", Name)
Encoded == mesh_json_to_serde_value(emit_to_json(subject, vals[1]))
NoOption == \A t \in Within(subject) : t.c # "Option" /\ (t.a # <<>> => t.a = <<Ty("Int")>> \/ Declared(Last(t.a)))
RECURSIVE Finite(_), Altered(_)
Finite(v) == (v.c = "Float" => v.i # Inf) /\ \A k \in DOMAIN v.a : Finite(v.a[k])
(* JSON as somebody else may send it: without an entry, or with another value*)
Altered(j) ==
    {Prim("Null", 0), Prim("Int", 1), Prim("Float", 1), Built("Array", <<>>), Built("Object", <<>>)} \cup
    {[j EXCEPT !.a = RemoveAt(@, k)] : k \in DOMAIN j.a} \cup
    UNION {{[j EXCEPT !.a[k] = x] : x \in IF j.c = "Object" THEN {Built(j.a[k].c, <<y>>) : y \in Altered(j.a[k].a[1])}
                                          ELSE IF j.c = "Array" THEN Altered(j.a[k]) ELSE {}} : k \in DOMAIN j.a}

(* What somebody sent says what was read of it.                              *)
RECURSIVE Says(_, _)
Says(j, e) ==
    CASE e.c \in {"Int", "Float"} -> j.c \in {"Int", "Float"} /\ Mag(j.i) = Mag(e.i)
      [] e.c = "Object" -> \A x \in ToSet(e.a) : x.a[1] = Built("Array", <<>>) \/ \E y \in ToSet(j.a) : y.c = x.c /\ Says(y.a[1], x.a[1])
      [] e.c = "Array" -> j.c = "Array" /\ \A k \in DOMAIN e.a : k \in DOMAIN j.a /\ Says(j.a[k], e.a[k])
      [] OTHER -> j = e

(* ToJson__to_json, FromJson__from_json: a value is read back as it was      *)
(* written (Option aside), and what is read is a value of the type that the  *)
(* JSON says, nothing made up for what it leaves out.                        *)
JsonReturns ==
    Coded /\ NoOption /\ Len(vals) = 1 /\ Finite(vals[1]) =>
        LET r == emit_from_json(subject, Encoded) IN IsOk(r) /\ Canonical(Got(r)) = Canonical(vals[1])
JsonIsTyped ==
    Coded /\ NoOption /\ Len(vals) = 1 =>
        \A j \in Altered(Encoded) : LET r == emit_from_json(subject, j) IN IsOk(r) => WellTyped(subject, Got(r)) /\ Says(j, emit_to_json(subject, Got(r)))
(* emit_option_from_json: "null -> Ok(None), other -> decode inner then wrap *)
(* in Some".                                                                 *)
OptionReturns ==
    Coded /\ Len(vals) = 1 /\ Finite(vals[1]) => emit_from_json(subject, Encoded) = Ok(vals[1])
MapKeysAreFound ==
    Coded /\ NoOption /\ Len(vals) = 1 /\ Finite(vals[1]) => emit_from_json(subject, Encoded) = Ok(vals[1])

(* FromRow__from_row: the value of a row has in every field what its column  *)
(* says; a column that is absent or empty is a None, and any other that      *)
(* cannot be read is an error.                                               *)
Rows == LET cols == {Fields(Name)[k][1] : k \in DOMAIN Fields(Name)} IN UNION {[S -> Texts] : S \in SUBSET cols}
Said(t, row, col) ==
    CASE t.c = "Option" -> IF col \notin DOMAIN row \/ row[col] = "" THEN {Built("None", <<>>)}
                           ELSE {Built("Some", <<x>>) : x \in IF t.a[1].c = "String" THEN {Prim("String", Code(row[col]))}
                                                              ELSE {Prim(t.a[1].c, i) : i \in Reads(t.a[1].c, row[col])}}
      [] col \notin DOMAIN row -> {}
      [] t.c = "String" -> {Prim("String", Code(row[col]))}
      [] OTHER -> {Prim(t.c, i) : i \in Reads(t.c, row[col])}
RowIsTheStruct ==
    User /\ Impl("FromRow", Name) /\ vals = <<>> =>
        \A row \in Rows :
            LET r == generate_from_row_struct(Name, row)
                said == [k \in DOMAIN Fields(Name) |-> Said(FieldTypes(Name)[k], row, Fields(Name)[k][1])]
            IN  IF \E k \in DOMAIN said : said[k] = {} THEN ~IsOk(r)
                ELSE IsOk(r) /\ \A k \in DOMAIN said : Got(r).a[k] \in said[k]

(* register_struct_def, register_sum_type_def and their lowering: what is    *)
(* registered for a type that was accepted is made, and the JSON functions   *)
(* it calls are made too.                                                    *)
Known(n) == n \notin Registry.errors
ImplsAreMade ==
    User /\ vals = <<>> /\ Known(Name) =>
        /\ \A tr \in DOMAIN Functions \ {"Json", "Row"} : Impl(tr, Name) => \A f \in Functions[tr] : <<f, Name>> \in Made(Name)
        /\ Impl("FromRow", Name) => <<"from_row", Name>> \in Made(Name)
        /\ Impl("ToJson", Name) =>
               \A t \in Within(subject) : Declared(t) => {<<"to_json", t.c>>, <<"from_json", t.c>>} \subseteq AllMade
        /\ <<"to_json", Name>> \in Made(Name) => Impl("FromJson", Name)
=============================================================================
