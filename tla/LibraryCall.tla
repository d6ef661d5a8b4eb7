---------------------------- MODULE LibraryCall ----------------------------
(* A call of a library function on its way through the compiler: the type  *)
(* checker finds its type (infer.rs), lowering finds the runtime function  *)
(* behind it and the type of the result (lower.rs, lower_call_expr), and   *)
(* the code generator emits the call (expr.rs, codegen_call), with the     *)
(* values brought to the types the runtime function is declared with.      *)
EXTENDS LibraryRuntime, FiniteSets, SequencesExt

CONSTANTS Instances,  \* the types a type variable may stand for
          Modules,    \* the modules whose functions are methods of their type
          Fields      \* names a method may have

VARIABLES stage,  \* "written" -> "lowered" -> "emitted"
          call    \* what is known of the call by then

Sums == {"Option", "Result", "Ordering"}

Named(table, name) == CHOOSE f \in table : f.name = name
Names(table) == {f.name : f \in table}

(* The type of the code generator for a type of the checker.               *)
resolve_type(t) ==
    CASE t \in {"PgConn", "SqliteConn", "PoolHandle", "DateTime"} -> "Int"
      [] t \in {"Json", "Router", "Request", "Response", "Regex", "Tuple", "ListIterator"} -> "Ptr"
      [] t \in Sums -> "Sum"
      [] t = "()" -> "Unit"
      [] OTHER -> t

Machine(t) ==
    CASE t \in {"Int", "Pid"} -> "i64"
      [] t = "Float" -> "f64"
      [] t = "Bool" -> "i1"
      [] t \in {"String", "Ptr", "fun"} -> "ptr"
      [] t = "Unit" -> "{}"
      [] OTHER -> "struct"

(* ... and for the letters of the declarations: B is a byte there.         *)
Slot(t) == CASE t = "Bool" -> "i8" [] t = "i32" -> "i32" [] t \in {"()", "Unit"} -> "void" [] OTHER -> Machine(t)

map_builtin_name_Prefix(n) == n
map_builtin_name(n) ==
    IF \E r \in Renamed : r[1] = n THEN (CHOOSE r \in Renamed : r[1] = n)[2] ELSE n

Functions == Library \cup Bare

(* Names of the test framework that are no calls.                          *)
Blocks == {"test", "describe", "setup", "teardown", "assert_receive"}

(* Their result has the type of their arguments.                           *)
Numeric == {"math_abs", "math_min", "math_max"}

Init ==
    /\ stage = "written"
    /\ \E f \in {g \in Functions : g.name \notin Blocks}, a, r \in Instances, cls \in BOOLEAN :
           /\ (a # "Int" => \E i \in DOMAIN f.args : f.args[i] = A) /\ (r # "Int" => f.ret = A)
           /\ (f.name \in Numeric => a = r)
           /\ (cls => \E i \in DOMAIN f.args : f.args[i] = L)
           /\ call = [name |-> f.name, method |-> <<>>,
                      args |-> [i \in DOMAIN f.args |->
                                   IF f.args[i] = A THEN a ELSE IF f.args[i] = L /\ cls THEN "Closure"
                                   ELSE resolve_type(f.args[i])],
                      ret |-> IF f.ret = A THEN r ELSE resolve_type(f.ret)]

(* A method call: the checker takes the function of the receiver's module  *)
(* (infer_field_access).                                                   *)
Receiver(module) == IF module = "string" THEN "String" ELSE "Ptr"
InitMethod ==
    /\ stage = "written"
    /\ \E m \in Modules, field \in Fields, a \in Instances :
           LET own == m \o "_" \o field
           IN  /\ own \in Names(Library)
               /\ LET f == Named(Library, own)
                  IN  /\ f.args # <<>> /\ f.args[1] = Receiver(m)
                      /\ call = [name |-> own, method |-> <<m, field>>,
                                 args |-> [i \in DOMAIN f.args |-> IF f.args[i] = A THEN a ELSE resolve_type(f.args[i])],
                                 ret |-> IF f.ret = A THEN a ELSE resolve_type(f.ret)]

KnownReturn(callee) == IF callee \in Names(Known) THEN resolve_type(Named(Known, callee).ret) ELSE "none"

(* default(), compare() and String.from() go by the type of their value.   *)
FromText(t) ==
    CASE t = "Float" -> "float_to_string" [] t = "Bool" -> "bool_to_string" [] OTHER -> "int_to_string"

Asserts == [assert |-> <<"Bool", "Ptr", "Ptr", "Int", "Int">>,
            assert_eq |-> <<"Ptr", "Ptr", "Ptr", "Ptr", "Int", "Int">>,
            assert_ne |-> <<"Ptr", "Ptr", "Ptr", "Ptr", "Int", "Int">>,
            assert_raises |-> <<"Closure", "Ptr", "Int", "Int">>]
AssertName == [assert |-> "test_assert", assert_eq |-> "test_assert_eq",
               assert_ne |-> "test_assert_ne", assert_raises |-> "test_assert_raises"]

Lowered(callee, args, ret) ==
    call' = [call EXCEPT !.args = args, !.ret = ret] @@ [callee |-> callee]

LowerAssert ==
    /\ stage = "written" /\ call.name \in DOMAIN Asserts
    /\ Lowered(AssertName[call.name], Asserts[call.name], "Unit")
    /\ stage' = "lowered"

(* Calls of trait functions, made for the type: no library function.       *)
LowerDispatch ==
    /\ stage = "written" /\ call.name \in {"default", "compare"}
    /\ stage' = "dispatched" /\ UNCHANGED call

LowerFrom ==
    /\ stage = "written" /\ call.method = <<>> /\ map_builtin_name(call.name) = "string_from"
    /\ Lowered(FromText(call.args[1]), call.args, "String")
    /\ stage' = "lowered"

(* The type lowering gives the result: a tuple the runtime returns as one  *)
(* pointer is that pointer, an unresolved type the one it knows.           *)
ResultType(callee, ret) ==
    CASE ret = "Tuple" /\ KnownReturn(callee) = "Ptr" -> "Ptr"
      [] ret = "Unit" /\ KnownReturn(callee) # "none" -> KnownReturn(callee)
      [] OTHER -> ret

(* A key that is a struct is hashed, and its hash is the key.              *)
KeyedMaps == {"map_put", "map_get", "map_has_key", "map_delete"}
Keyed(callee, args) ==
    IF callee \in KeyedMaps /\ Len(args) >= 2 /\ args[2] = "Struct" THEN [args EXCEPT ![2] = "Int"] ELSE args
Encoded(callee, args) ==
    IF callee = "json_encode" /\ args[1] \in {"Struct", "Sum"} THEN <<"Ptr">> ELSE args

LowerCall ==
    /\ stage = "written" /\ call.method = <<>>
    /\ call.name \notin DOMAIN Asserts \cup {"default", "compare"}
    /\ LET callee == map_builtin_name(call.name)
       IN  /\ callee # "string_from"
           /\ Lowered(callee, Encoded(callee, Keyed(callee, call.args)), ResultType(callee, call.ret))
    /\ stage' = "lowered"

(* Lowering has only the machine type of the receiver: a pointer is a list.*)
resolve_trait_callee_Bare(field, receiver) == map_builtin_name(field)
resolve_trait_callee(field, receiver) ==
    LET runtime == map_builtin_name((IF receiver = "String" THEN "string_" ELSE "list_") \o field)
    IN  IF runtime \in Names(Known) \cup MappedStrings \cup MappedData THEN runtime ELSE field

LowerMethod ==
    /\ stage = "written" /\ call.method # <<>>
    /\ Lowered(resolve_trait_callee(call.method[2], call.args[1]), call.args, call.ret)
    /\ stage' = "lowered"

-----------------------------------------------------------------------------
(* The code generator.                                                     *)
Inline == {"math_abs", "math_min", "math_max", "math_pow", "math_sqrt", "math_floor", "math_ceil", "math_round",
           "int_to_float", "float_to_int"}
ByText == {"node_start", "node_connect", "node_monitor", "global_register", "global_whereis", "global_unregister"}
Remote == {"node_spawn", "node_spawn_link"}

Arity(callee) == Len(Named(Declared, callee).args)
Expanded(args) == FoldLeft(LAMBDA n, t : n + (IF t \in {"fun", "Closure"} THEN 2 ELSE 1), 0, args)

(* A function passed to the runtime is a code pointer and an environment   *)
(* if the runtime function takes as many arguments then.                   *)
ArgValues_Always(callee, args) ==
    FlattenSeq([i \in DOMAIN args |-> IF args[i] \in {"fun", "Closure"} THEN <<"ptr", "ptr">> ELSE <<Machine(args[i])>>])
ArgValues(callee, args) ==
    LET both == Expanded(args) = Arity(callee)
    IN  FlattenSeq([i \in DOMAIN args |-> IF both /\ args[i] \in {"fun", "Closure"} THEN <<"ptr", "ptr">>
                                          ELSE <<Machine(args[i])>>])

(* Text goes to the node functions as an address and a length, a message   *)
(* and the arguments of a remote function as a buffer and its size.        *)
Marshalled(callee, args) ==
    CASE callee \in ByText ->
           FlattenSeq([i \in DOMAIN args |-> IF args[i] = "String" THEN <<"ptr", "i64">> ELSE <<Machine(args[i])>>])
      [] callee = "timer_send_after" -> <<"i64", "i64", "ptr", "i64">>
      [] callee \in Remote -> <<"ptr", "i64", "ptr", "i64", "ptr", "i64", "i8">>
      [] OTHER -> ArgValues(callee, args)

Width == [i1 |-> 1, i8 |-> 8, i32 |-> 32, i64 |-> 64]
coerce(v, p) ==
    CASE v \in DOMAIN Width /\ p \in DOMAIN Width -> IF Width[v] < Width[p] THEN p ELSE v
      [] {v, p} = {"i64", "ptr"} -> p
      [] v = "f64" /\ p = "i64" -> p
      [] v \in {"{}", "struct"} /\ p \in {"ptr", "i64"} -> p
      [] OTHER -> v

convert_NoFloat(ty, r) ==
    CASE ty = "Unit" -> "{}"
      [] ty = "Bool" /\ r \in DOMAIN Width -> "i1"
      [] ty \in {"String", "Ptr", "Struct", "Sum", "Pid"} /\ r = "i64" -> "ptr"
      [] OTHER -> r
convert(ty, r) ==
    CASE ty = "Unit" -> "{}"
      [] ty = "Bool" /\ r \in DOMAIN Width -> "i1"
      [] ty = "Float" /\ r = "i64" -> "f64"
      [] ty \in {"String", "Ptr", "Struct", "Sum", "Pid"} /\ r = "i64" -> "ptr"
      [] ty = "Ptr" /\ r = "struct" -> "ptr"
      [] OTHER -> r

Emitted(callee, args, params, result) ==
    /\ stage' = "emitted"
    /\ call' = [call EXCEPT !.callee = callee] @@ [passed |-> args, params |-> params, result |-> result]

(* Arithmetic is emitted in place.                                         *)
EmitInline ==
    /\ stage = "lowered" /\ call.callee \in Inline
    /\ IF call.callee \in Numeric /\ call.args[1] \notin {"Int", "Float"}
       THEN stage' = "refused" /\ UNCHANGED call
       ELSE LET float == \/ call.callee \in {"math_pow", "math_sqrt", "int_to_float"}
                         \/ call.callee \in Numeric /\ call.args[1] = "Float"
                vs == [i \in DOMAIN call.args |-> Machine(call.args[i])]
            IN  Emitted(call.callee, vs, vs, IF float THEN "f64" ELSE "i64")

(* The constant is no call: the name itself is compiled.                   *)
EmitCall ==
    /\ stage = "lowered" /\ call.callee \notin Inline /\ call.callee \in Names(Declared)
    /\ LET callee == IF call.callee = "list_contains" /\ call.args[2] = "String" THEN "list_contains_str"
                     ELSE call.callee
           f == Named(Declared, callee)
           params == [i \in DOMAIN f.args |-> Slot(f.args[i])]
           values == Marshalled(callee, call.args)
           special == callee \in ByText \cup Remote \cup {"timer_send_after", "list_contains_str"}
           raw == Slot(f.ret)
       IN  Emitted(callee,
                   [i \in DOMAIN values |-> IF special \/ i \notin DOMAIN params THEN values[i]
                                            ELSE coerce(values[i], params[i])],
                   params,
                   IF special THEN (IF raw = "void" THEN "{}" ELSE raw)
                   ELSE convert(call.ret, raw))

EmitFails ==
    /\ stage = "lowered" /\ call.callee \notin Inline /\ call.callee \notin Names(Declared)
    /\ stage' = "undefined" /\ UNCHANGED call

Next == LowerMethod \/ LowerAssert \/ LowerDispatch \/ LowerFrom \/ LowerCall \/ EmitInline \/ EmitCall \/ EmitFails
vars == <<stage, call>>
Spec == (Init \/ InitMethod) /\ [][Next]_vars
-----------------------------------------------------------------------------
(* A function the checker accepts is one the code generator can call: the  *)
(* tables of the four passes have no gap (expr.rs, codegen_call).          *)
CalleeExists == stage # "undefined"

(* The runtime function gets as many arguments as it is declared with, and *)
(* each of the declared machine type, closures, text and keys included     *)
(* (expr.rs, codegen_call).  JSON.encode takes anything and passes it on.  *)
ArgumentsFit == stage = "emitted" /\ call.callee # "json_encode" => call.passed = call.params

(* What comes back is what the code makes of a value of the type: a sum or *)
(* a struct may also come as a pointer, which codegen_let loads.  Tuples   *)
(* and the functions of Unconverted are left as the runtime returns them.  *)
Uses(ty) ==
    CASE ty \in {"Sum", "Struct"} -> {"ptr", "struct"}
      [] ty = "Pid" -> {"i64", "ptr"}
      [] OTHER -> {Machine(ty)}
Unconverted == {"changeset_valid", "list_contains_str"}
ResultFits ==
    stage = "emitted" /\ call.ret # "Tuple" /\ call.callee \notin Unconverted => call.result \in Uses(call.ret)

(* A method of a receiver is the function of the receiver's module the     *)
(* checker typed it with ("check if the method name matches a stdlib module*)
(* function for the receiver type", infer.rs).                             *)
MethodIsItsOwn == stage = "lowered" /\ call.method # <<>> => call.callee = map_builtin_name(call.name)

(* The types of one function agree wherever they are written: those of the *)
(* module and of the bare name (infer.rs, builtins.rs), and what lowering  *)
(* knows of a runtime function and its declaration (lower.rs,              *)
(* intrinsics.rs), but for the elements of lists, which are one word.      *)
Elements == {"list_get", "list_head", "list_last", "list_nth", "list_reduce"}
Of(table, name) == {f \in table : f.name = name}
Slots(f) == [i \in DOMAIN f.args |-> Slot(resolve_type(f.args[i]))]
OneType ==
    /\ call.name # "json_encode" => Cardinality(Of(Library, call.name) \cup Of(Bare, call.name)) = 1
    /\ stage = "lowered" /\ call.callee \notin Elements =>
           \A f \in Of(Known, call.callee), g \in Of(Declared, call.callee) :
               Slots(f) = Slots(g) /\ Slot(resolve_type(f.ret)) = Slot(g.ret)
=============================================================================
