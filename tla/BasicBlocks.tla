----------------------------- MODULE BasicBlocks ------------------------------
(* The basic blocks that mesh-codegen makes of the body of a function        *)
(* (codegen/expr.rs, the locals of codegen/pattern.rs), what running them    *)
(* does, and what the body means.  An expression has a kind, a name or       *)
(* number, and its parts; integers stand for all values; "ask" is a call     *)
(* whose answer comes from outside and "tell" one that is seen outside.      *)
EXTENDS Naturals, Sequences, FiniteSets, SequencesExt, Functions

CONSTANTS
    Bodies,  \* the functions that are compiled
    Params,  \* the names of their parameters, in order
    Inputs,  \* what "ask" may be answered, one after the other
    Bound    \* on the turns of loops, and calls, of a run

VARIABLES body, code

Parts(e) == Range(e.a)
Loops == {"for_range", "for_list", "for_set", "for_map", "for_iter"}

TailPart_Anywhere(e, i) == e.k \in {"block", "let", "if", "case", "receive", "return", "and"}

(* rewrite_tail_calls: a call of the function itself in a tail position.     *)
TailPart(e, i) ==
    CASE e.k = "block" -> i = Len(e.a)
      [] e.k \in {"let", "if", "case", "receive"} -> i > 1 \/ (e.k = "receive")
      [] e.k = "return" -> TRUE
      [] OTHER -> FALSE

RECURSIVE rewrite_tail_calls(_)
rewrite_tail_calls(e) ==
    IF e.k = "self" THEN [e EXCEPT !.k = "tail"]
    ELSE [e EXCEPT !.a = [i \in DOMAIN @ |-> IF TailPart(e, i) THEN rewrite_tail_calls(@[i]) ELSE @[i]]]

RECURSIVE Kinds(_)
Kinds(e) == {e.k} \cup UNION {Kinds(p) : p \in Parts(e)}

(* The function as it is built: its blocks, the one at whose end the builder *)
(* stands, the locals and their allocas, the loops around, and the register  *)
(* of the last value.  Registers 0 and 1 hold the constants.                 *)
EmptyBlock == [ops |-> <<>>, ends |-> <<>>]
Ended(f) == f.blocks[f.cur].ends # <<>>
At(f, b) == [f EXCEPT !.cur = b]
AppendBlocks(f, n) == [f EXCEPT !.blocks = @ \o [i \in 1..n |-> EmptyBlock]]
(* An instruction after the end of its block is kept as an end of its own.   *)
Put(f, op) ==
    IF Ended(f) THEN [f EXCEPT !.blocks[f.cur].ends = Append(@, op)]
                ELSE [f EXCEPT !.blocks[f.cur].ops = Append(@, op)]
End(f, op) == [f EXCEPT !.blocks[f.cur].ends = Append(@, op)]
Br(f, b) == End(f, <<"br", b>>)
(* An instruction with a value.                                              *)
Val(f, kind, args) ==
    LET r == f.regs + 1 IN Put([f EXCEPT !.regs = r, !.val = r], <<kind, r>> \o args)

(* build_alloca, build_entry_alloca                                          *)
Alloca(f) == [f EXCEPT !.slots = @ + 1]
Store(f, slot, r) == Put(f, <<"store", slot, r>>)
Bind(f, x, slot) == [f EXCEPT !.locals = [y \in DOMAIN @ \cup {x} |-> IF y = x THEN slot ELSE @[y]]]

Restore_Kept(f, old) == f

Restore(f, old) == [f EXCEPT !.locals = old.locals]

(* emit_reduction_check                                                      *)
Check(f) == IF Ended(f) THEN f ELSE Put(f, <<"check">>)

Join_Always(f, slot, merge) == Br(Store(f, slot, f.val), merge)

(* The result of a branch goes to its alloca, and on to the merge block.     *)
Join(f, slot, merge) == IF Ended(f) THEN f ELSE Br(Store(f, slot, f.val), merge)

RECURSIVE Gen(_, _)

(* The values of the parts from left to right: the builder and the registers.*)
GenAll(es, f) ==
    FoldLeft(LAMBDA acc, e : LET g == Gen(e, acc.f) IN [f |-> g, regs |-> Append(acc.regs, g.val)],
             [f |-> f, regs |-> <<>>], es)

codegen_binop(e, f) == LET g == GenAll(e.a, f) IN Val(g.f, e.k, g.regs)

(* The false of the left side comes from the first block of the function     *)
(* that is neither block of the right side nor the merge block.              *)
codegen_short_circuit_and(e, f) ==
    LET l == Gen(e.a[1], f)
        n == Len(l.blocks)
        r == Gen(e.a[2], At(End(AppendBlocks(l, 2), <<"cbr", l.val, n + 1, n + 2>>), n + 1))
        m == At(Br(r, n + 2), n + 2)
        lhs_bb == CHOOSE b \in DOMAIN m.blocks :
                      /\ b \notin {n + 1, n + 2, r.cur}
                      /\ \A c \in 1..(b - 1) : c \in {n + 1, n + 2, r.cur}
    IN  Val(m, "phi", <<{<<lhs_bb, 0>>, <<r.cur, r.val>>}>>)

codegen_short_circuit_or_Rhs(e, f) ==
    LET l == Gen(e.a[1], f)
        n == Len(l.blocks)
        r == Gen(e.a[2], At(End(AppendBlocks(l, 2), <<"cbr", l.val, n + 2, n + 1>>), n + 1))
        m == At(Br(r, n + 2), n + 2)
    IN  Val(m, "phi", <<{<<l.cur, 1>>, <<n + 1, r.val>>}>>)

codegen_short_circuit_or(e, f) ==
    LET l == Gen(e.a[1], f)
        n == Len(l.blocks)
        r == Gen(e.a[2], At(End(AppendBlocks(l, 2), <<"cbr", l.val, n + 2, n + 1>>), n + 1))
        m == At(Br(r, n + 2), n + 2)
    IN  Val(m, "phi", <<{<<l.cur, 1>>, <<r.cur, r.val>>}>>)

codegen_if(e, f) ==
    LET c == Alloca(Gen(e.a[1], f))
        n == Len(c.blocks)
        t == Gen(e.a[2], At(End(AppendBlocks(c, 3), <<"cbr", c.val, n + 1, n + 2>>), n + 1))
        s == Gen(e.a[3], At(Join(t, c.slots, n + 3), n + 2))
    IN  Val(At(Join(s, c.slots, n + 3), n + 3), "load", <<c.slots>>)

codegen_let(e, f) ==
    LET v == Gen(e.a[1], Alloca(f))
        slot == f.slots + 1
    IN  Restore(Gen(e.a[2], Bind(Store(v, slot, v.val), e.x, slot)), f)

codegen_block_Whole(e, f) == FoldLeft(LAMBDA g, s : Gen(s, g), [f EXCEPT !.val = 0], e.a)

(* What comes after a return, a break or a continue is left out.             *)
codegen_block(e, f) ==
    FoldLeft(LAMBDA g, s : IF Ended(g) THEN g ELSE Gen(s, g), [f EXCEPT !.val = 0], e.a)

(* codegen_match with a literal arm and one that binds a name: DecisionTree  *)
(* has the tests, here is the scope.  codegen_leaf stores into the alloca    *)
(* the name has, if it has one, and the name stays.                          *)
codegen_leaf(f, x, r) ==
    IF x \in DOMAIN f.locals THEN Store(f, f.locals[x], r)
    ELSE LET g == Alloca(f) IN Bind(Store(g, g.slots, r), x, g.slots)

codegen_match(e, f) ==
    LET c == Alloca(Gen(e.a[1], f))
        n == Len(c.blocks)  \* match_merge, then the blocks of the test
        z == Val(AppendBlocks(c, 3), "zero", <<c.val>>)
        t == Gen(e.a[2], At(End(z, <<"cbr", z.val, n + 2, n + 3>>), n + 2))
        s == Gen(e.a[3], codegen_leaf(At(Join(t, c.slots, n + 1), n + 3), e.x, c.val))
    IN  Val(At(Join(s, c.slots, n + 1), n + 1), "load", <<c.slots>>)

(* build_return, and the blocks after it                                     *)
codegen_return(e, f) == LET g == Gen(e.a[1], f) IN End(g, <<"ret", g.val>>)

(* Null is 0: a time-out.  The first arm binds the message, and its name     *)
(* stays as well.                                                            *)
codegen_recv_process_arms(e, f, r) ==
    LET g == Alloca(f) IN Gen(e.a[1], Bind(Store(g, g.slots, r), e.x, g.slots))

codegen_actor_receive(e, f) ==
    LET m == Alloca(Val(f, "ask", <<>>))
        n == Len(m.blocks)
        z == Val(AppendBlocks(m, 3), "zero", <<m.val>>)
        t == Gen(e.a[2], At(End(z, <<"cbr", z.val, n + 1, n + 2>>), n + 1))
        s == codegen_recv_process_arms(e, At(Join(t, m.slots, n + 3), n + 2), m.val)
    IN  IF Len(e.a) = 1 THEN codegen_recv_process_arms(e, Val(f, "ask", <<>>), f.regs + 1)
        ELSE Val(At(Join(s, m.slots, n + 3), n + 3), "load", <<m.slots>>)

codegen_while(e, f) ==
    LET n == Len(f.blocks)
        c == Gen(e.a[1], At(Br([AppendBlocks(f, 3) EXCEPT !.loops = Append(@, <<n + 1, n + 3>>)], n + 1), n + 1))
        b == Gen(e.a[2], At(End(c, <<"cbr", c.val, n + 2, n + 3>>), n + 2))
        l == IF Ended(b) THEN b ELSE Br(Check(b), n + 1)
    IN  [At(l, n + 3) EXCEPT !.loops = f.loops, !.val = 0]

(* The list of the results, a counter, and the blocks header, body, latch    *)
(* and merge: continue goes to the latch, break to the merge block.          *)
Open(f, from) ==
    LET n == Len(f.blocks)
        res == f.slots + 1
        g == Store(Put([f EXCEPT !.slots = res + 1], <<"list", res>>), res + 1, from)
    IN  At([AppendBlocks(Br(g, n + 1), 4) EXCEPT !.loops = Append(@, <<n + 3, n + 4>>)], n + 1)
Latch(o) == Last(o.loops)[1]
Merge(o) == Last(o.loops)[2]

(* In the header: on with the body, or out of the loop.                      *)
Header(h, o) == At(End(h, <<"cbr", h.val, Latch(o) - 1, Merge(o)>>), Latch(o) - 1)
Counted(o, limit) ==
    LET i == Val(o, "load", <<o.slots>>) IN Header(Val(i, "less", <<i.val, limit>>), o)
(* The element that stands at the counter, under its name.                   *)
Element(b, o, x, kind, collection) ==
    LET i == Val(b, "load", <<o.slots>>)
        g == Alloca(Val(i, kind, <<collection, i.val>>))
    IN  Bind(Store(g, g.slots, g.val), x, g.slots)

(* Filter, body and what is pushed, then the latch; the locals are as they   *)
(* were in f.                                                                *)
Body(e, v, o, f, counts) ==
    LET filter == e.a[Len(e.a) - 1]
        g == Gen(filter, v)
        n == Len(g.blocks) + 1
        d == IF filter.k = "true" THEN v
             ELSE At(End(AppendBlocks(g, 1), <<"cbr", g.val, n, Latch(o)>>), n)
        w == Gen(Last(e.a), d)
        l == At(IF Ended(w) THEN w ELSE Br(Put(w, <<"push", o.slots - 1, w.val>>), Latch(o)), Latch(o))
        i == Val(l, "load", <<o.slots>>)
        j == Val(i, "next", <<i.val>>)
        k == Br(Check(IF counts THEN Store(j, o.slots, j.val) ELSE l), Latch(o) - 2)
    IN  Val([At(Restore(k, f), Merge(o)) EXCEPT !.loops = f.loops], "load", <<o.slots - 1>>)

(* The counter itself has the name.                                          *)
codegen_for_in_range(e, f) ==
    LET r == GenAll(SubSeq(e.a, 1, 2), f)
        o == Open(r.f, r.regs[1])
    IN  Body(e, Bind(Counted(o, r.regs[2]), e.x, o.slots), o, f, TRUE)

codegen_for_in_list(e, f) ==
    LET c == Gen(e.a[1], f)
        o == Open(c, 0)
    IN  Body(e, Element(Counted(o, c.val), o, e.x, "get", c.val), o, f, TRUE)

codegen_for_in_set(e, f) == codegen_for_in_list(e, f)

(* Two names, of the key and of the value.                                   *)
codegen_for_in_map(e, f) ==
    LET c == Gen(e.a[1], f)
        o == Open(c, 0)
        k == Element(Counted(o, c.val), o, e.x, "key", c.val)
    IN  Body(e, Element(k, o, "value", "get", c.val), o, f, TRUE)

(* The header asks for the next element: Some or None.                       *)
codegen_for_in_iterator(e, f) ==
    LET o == Open(Gen(e.a[1], f), 0)
        h == Val(o, "ask", <<>>)
        b == Header(h, o)
    IN  Body(e, Bind(Store(b, o.slots, h.val), e.x, o.slots), o, f, FALSE)

codegen_break_Outer(f) == [Br(f, Head(f.loops)[2]) EXCEPT !.val = 0]

codegen_break(f) == [Br(f, Last(f.loops)[2]) EXCEPT !.val = 0]

codegen_continue_NoCheck(f) == [Br(f, Last(f.loops)[1]) EXCEPT !.val = 0]

codegen_continue(f) == [Br(Check(f), Last(f.loops)[1]) EXCEPT !.val = 0]

TailCall_OneByOne(e, f) ==
    LET stored == FoldLeft(LAMBDA h, i : LET g == Gen(e.a[i], h) IN Store(g, g.locals[Params[i]], g.val),
                           f, [i \in DOMAIN Params |-> i])
    IN  [Br(Check(stored), f.tce) EXCEPT !.val = 0]

(* TailCall: all arguments are evaluated before any is stored, into the      *)
(* allocas that the names of the parameters have by now.                     *)
TailCall(e, f) ==
    LET g == GenAll(e.a, f)
        stored == FoldLeft(LAMBDA h, i : Store(h, h.locals[Params[i]], g.regs[i]), g.f, [i \in DOMAIN Params |-> i])
    IN  [Br(Check(stored), f.tce) EXCEPT !.val = 0]

(* codegen_expr                                                              *)
Gen(e, f) ==
    CASE e.k = "var" -> Val(f, "load", <<f.locals[e.x]>>)
      [] e.k \in {"lit", "true"} -> Val(f, "const", <<e.x>>)
      [] e.k \in {"ask", "tell", "next", "zero", "less", "self"} -> codegen_binop(e, f)
      [] e.k = "and" -> codegen_short_circuit_and(e, f)
      [] e.k = "or" -> codegen_short_circuit_or(e, f)
      [] e.k = "if" -> codegen_if(e, f)
      [] e.k = "let" -> codegen_let(e, f)
      [] e.k = "block" -> codegen_block(e, f)
      [] e.k = "case" -> codegen_match(e, f)
      [] e.k = "return" -> codegen_return(e, f)
      [] e.k = "receive" -> codegen_actor_receive(e, f)
      [] e.k = "while" -> codegen_while(e, f)
      [] e.k = "for_range" -> codegen_for_in_range(e, f)
      [] e.k = "for_list" -> codegen_for_in_list(e, f)
      [] e.k = "for_set" -> codegen_for_in_set(e, f)
      [] e.k = "for_map" -> codegen_for_in_map(e, f)
      [] e.k = "for_iter" -> codegen_for_in_iterator(e, f)
      [] e.k = "break" -> codegen_break(f)
      [] e.k = "continue" -> codegen_continue(f)
      [] e.k = "tail" -> TailCall(e, f)

(* compile_function: an alloca for each parameter, and a block for tail      *)
(* calls to go back to.                                                      *)
compile_function(e) ==
    LET lowered == rewrite_tail_calls(e)
        tails == "tail" \in Kinds(lowered)
        entry == [blocks |-> <<EmptyBlock>>, cur |-> 1, slots |-> Len(Params), regs |-> 1, val |-> 0,
                  locals |-> [x \in Range(Params) |-> CHOOSE i \in DOMAIN Params : Params[i] = x],
                  loops |-> <<>>, tce |-> 2]
        f == Gen(lowered, IF tails THEN At(AppendBlocks(Br(entry, 2), 1), 2) ELSE entry)
    IN  IF Ended(f) THEN f.blocks ELSE End(f, <<"ret", f.val>>).blocks
-----------------------------------------------------------------------------
Init == body \in Bodies /\ code = <<>>
Compile == code = <<>> /\ code' = compile_function(body) /\ UNCHANGED body
Next == Compile
Spec == Init /\ [][Next]_<<body, code>>
-----------------------------------------------------------------------------
(* What module.verify asks of the blocks: one end, at the end, and phi nodes *)
(* with one value for each block that comes before.                          *)
Ends(b) == code[b].ends
Targets(b) == IF Ends(b)[1][1] = "br" THEN {Ends(b)[1][2]}
              ELSE IF Ends(b)[1][1] = "cbr" THEN {Ends(b)[1][3], Ends(b)[1][4]} ELSE {}
Before(b) == {c \in DOMAIN code : b \in Targets(c)}
Phis(b) == {op \in Range(code[b].ops) : op[1] = "phi"}
PhiFits(b, op) == {p[1] : p \in op[3]} = Before(b)
OneEnd == \A b \in DOMAIN code : Len(Ends(b)) = 1 /\ Ends(b)[1][1] \in {"br", "cbr", "ret"}
Verified == OneEnd /\ \A b \in DOMAIN code : \A op \in Phis(b) : PhiFits(b, op)
(* An `and` whose left side did not end in the first block.                  *)
AndElsewhere(b, op) == \E p \in op[3] : p = <<1, 0>> /\ 1 \notin Before(b)

(* The blocks that can be reached from `from` without a reduction check.     *)
Unchecked == {b \in DOMAIN code : <<"check">> \notin Range(code[b].ops)}
RECURSIVE Reach(_)
Reach(bs) == LET more == bs \cup (Unchecked \cap UNION {Targets(b) : b \in bs})
             IN  IF more = bs THEN bs ELSE Reach(more)
-----------------------------------------------------------------------------
(* A run, of the blocks and of the body: what "ask" has left, what was told, *)
(* the turns left, and how it stands.                                        *)
Start(in, bound) == [in |-> in, out |-> <<>>, turns |-> bound, sig |-> "ok", val |-> 0]
Answer(st) == IF st.in = <<>> THEN [st EXCEPT !.sig = "waits"] ELSE [st EXCEPT !.val = Head(st.in), !.in = Tail(@)]
Truth(p) == IF p THEN 1 ELSE 0
Apply(st, kind, v) ==
    CASE kind = "ask" -> Answer(st)
      [] kind = "tell" -> [st EXCEPT !.out = Append(@, v[1]), !.val = v[1]]
      [] kind = "next" -> [st EXCEPT !.val = v[1] + 1]
      [] kind = "zero" -> [st EXCEPT !.val = Truth(v[1] = 0)]
      [] kind = "get" -> [st EXCEPT !.val = v[2] + 1]  \* the element at v[2]
      [] kind = "key" -> [st EXCEPT !.val = v[2]]
      [] kind = "less" -> [st EXCEPT !.val = Truth(v[1] < v[2])]

RECURSIVE RunBlocks(_, _, _, _, _), Meaning(_, _, _)
RunCode(args, st) ==
    IF st.turns = 0 THEN [st EXCEPT !.sig = "long"]
    ELSE RunBlocks(1, 0, [s \in DOMAIN args |-> args[s]], <<0, 1>>, [st EXCEPT !.turns = @ - 1])

(* One instruction: memory `mem`, registers `reg` and the run after it.      *)
Instr(op, from, mem, reg, st) ==
    LET R(r) == reg[r + 1]
        arg == [i \in 1..(Len(op) - 2) |-> op[i + 2]]
        Set(m, s, v) == [t \in DOMAIN m \cup {s} |-> IF t = s THEN v ELSE m[t]]
        Out(v) == [mem |-> mem, reg |-> Set(reg, op[2] + 1, v), st |-> st]
    IN  CASE op[1] = "store" -> [mem |-> Set(mem, op[2], R(op[3])), reg |-> reg, st |-> st]
          [] op[1] = "list" -> [mem |-> Set(mem, op[2], 0), reg |-> reg, st |-> st]
          [] op[1] = "push" -> [mem |-> Set(mem, op[2], mem[op[2]] * 4 + R(op[3]) + 1), reg |-> reg, st |-> st]
          [] op[1] = "check" -> [mem |-> mem, reg |-> reg, st |-> st]
          [] op[1] = "load" -> Out(mem[op[3]])
          [] op[1] = "const" -> Out(op[3])
          [] op[1] = "phi" -> Out(R((CHOOSE p \in op[3] : p[1] = from)[2]))
          [] op[1] = "self" ->
               LET t == RunCode([i \in DOMAIN arg |-> R(arg[i])], st)
               IN  [mem |-> mem, reg |-> Set(reg, op[2] + 1, t.val), st |-> t]
          [] OTHER ->
               LET t == Apply(st, op[1], [i \in DOMAIN arg |-> R(arg[i])])
               IN  [mem |-> mem, reg |-> Set(reg, op[2] + 1, t.val), st |-> t]

RunBlocks(b, from, mem, reg, st) ==
    LET after == FoldLeft(LAMBDA acc, op : IF acc.st.sig # "ok" THEN acc ELSE Instr(op, from, acc.mem, acc.reg, acc.st),
                          [mem |-> mem, reg |-> reg, st |-> st], code[b].ops)
        end == Ends(b)[1]
        s == after.st
        goto(c) == IF <<"check">> \notin Range(code[b].ops) THEN RunBlocks(c, b, after.mem, after.reg, s)
                   ELSE IF s.turns = 0 THEN [s EXCEPT !.sig = "long"]
                   ELSE RunBlocks(c, b, after.mem, after.reg, [s EXCEPT !.turns = @ - 1])
    IN  CASE s.sig # "ok" -> s
          [] end[1] = "br" -> goto(end[2])
          [] end[1] = "cbr" -> goto(IF after.reg[end[2] + 1] # 0 THEN end[3] ELSE end[4])
          [] end[1] = "ret" -> [s EXCEPT !.val = after.reg[end[2] + 1]]
-----------------------------------------------------------------------------
(* What the body means, with `env` for the names.                            *)
Then(st, f(_)) == IF st.sig = "ok" THEN f(st) ELSE st
With(env, x, v) == [y \in DOMAIN env \cup {x} |-> IF y = x THEN v ELSE env[y]]
Values(es, env, st) ==
    FoldLeft(LAMBDA acc, e : LET t == Meaning(e, env, acc.st) IN
                 IF acc.st.sig # "ok" THEN acc ELSE [st |-> t, vals |-> Append(acc.vals, t.val)],
             [st |-> st, vals |-> <<>>], es)

CallBody(args, st) ==
    LET t == Meaning(body, [x \in Range(Params) |-> args[CHOOSE i \in DOMAIN Params : Params[i] = x]],
                     [st EXCEPT !.turns = @ - 1])
    IN  IF st.turns = 0 THEN [st EXCEPT !.sig = "long"]
        ELSE IF t.sig = "return" THEN [t EXCEPT !.sig = "ok"] ELSE t

(* A turn of a loop is over: on with it, or out of it.                       *)
Again(t, f(_), done) ==
    CASE t.sig \in {"ok", "continue"} ->
           IF t.turns = 0 THEN [t EXCEPT !.sig = "long"] ELSE f([t EXCEPT !.sig = "ok", !.turns = @ - 1])
      [] t.sig = "break" -> [t EXCEPT !.sig = "ok", !.val = done]
      [] OTHER -> t

RECURSIVE While(_, _, _), ForIn(_, _, _, _, _)
While(e, env, st) ==
    LET c == Meaning(e.a[1], env, st)
        again(t) == While(e, env, t)
    IN  IF c.sig # "ok" THEN c
        ELSE IF c.val = 0 THEN [c EXCEPT !.val = 0]
        ELSE Again(Meaning(e.a[2], env, c), again, 0)

(* The elements in order; those of an iterator are asked for.                *)
Elements(e, vals) ==
    IF e.k = "for_range" THEN [i \in 1..(IF vals[2] > vals[1] THEN vals[2] - vals[1] ELSE 0) |-> vals[1] + i - 1]
    ELSE [i \in 1..vals[1] |-> i]

ForIn(e, env, elements, list, st) ==
    LET asks == e.k = "for_iter"
        h == IF asks THEN Answer(st) ELSE st
        over == IF asks THEN h.val = 0 ELSE elements = <<>>
        x == IF asks THEN h.val ELSE Head(elements)
        named == IF e.k = "for_map" THEN With(With(env, e.x, x - 1), "value", x) ELSE With(env, e.x, x)
        g == Meaning(e.a[Len(e.a) - 1], named, h)
        b == IF g.sig = "ok" /\ g.val = 0 THEN [g EXCEPT !.sig = "continue"]
             ELSE Then(g, LAMBDA t : Meaning(Last(e.a), named, t))
        list2 == IF b.sig = "ok" THEN list * 4 + b.val + 1 ELSE list
        again(t) == ForIn(e, env, IF asks THEN <<>> ELSE Tail(elements), list2, t)
    IN  IF h.sig # "ok" THEN h ELSE IF over THEN [h EXCEPT !.val = list] ELSE Again(b, again, list)

Meaning(e, env, st) ==
    LET M(i, t) == Meaning(e.a[i], env, t)
        first == M(1, st)
    IN  CASE st.sig # "ok" -> st
          [] e.k = "var" -> [st EXCEPT !.val = env[e.x]]
          [] e.k \in {"lit", "true"} -> [st EXCEPT !.val = e.x]
          [] e.k \in {"ask", "tell", "next", "zero", "less", "self"} ->
               LET v == Values(e.a, env, st)
               IN  IF v.st.sig # "ok" THEN v.st
                   ELSE IF e.k = "self" THEN CallBody(v.vals, v.st) ELSE Apply(v.st, e.k, v.vals)
          [] e.k = "and" -> IF first.sig = "ok" /\ first.val # 0 THEN M(2, first) ELSE first
          [] e.k = "or" -> IF first.sig = "ok" /\ first.val = 0 THEN M(2, first) ELSE first
          [] e.k = "if" -> IF first.sig # "ok" THEN first ELSE IF first.val # 0 THEN M(2, first) ELSE M(3, first)
          [] e.k = "let" -> Then(first, LAMBDA t : Meaning(e.a[2], With(env, e.x, t.val), t))
          [] e.k = "block" -> FoldLeft(LAMBDA t, s : IF t.sig = "ok" THEN Meaning(s, env, t) ELSE t, [st EXCEPT !.val = 0], e.a)
          [] e.k = "case" -> IF first.sig # "ok" THEN first
                             ELSE IF first.val = 0 THEN M(2, first)
                             ELSE Meaning(e.a[3], With(env, e.x, first.val), first)
          [] e.k = "return" -> Then(first, LAMBDA t : [t EXCEPT !.sig = "return"])
          [] e.k = "receive" ->
               LET m == Answer(st) IN
               IF m.sig # "ok" THEN m
               ELSE IF m.val = 0 /\ Len(e.a) = 2 THEN M(2, m)
               ELSE Meaning(e.a[1], With(env, e.x, m.val), m)
          [] e.k = "while" -> While(e, env, st)
          [] e.k \in Loops ->
               LET v == Values(SubSeq(e.a, 1, Len(e.a) - 2), env, st)
               IN  IF v.st.sig # "ok" THEN v.st
                   ELSE ForIn(e, env, IF e.k = "for_iter" THEN <<>> ELSE Elements(e, v.vals), 0, v.st)
          [] e.k \in {"break", "continue"} -> [st EXCEPT !.sig = e.k]
-----------------------------------------------------------------------------
(* Names that are bound anew where the compiler loses the one they hide: by  *)
(* a pattern, or a parameter's before a tail call.                           *)
RECURSIVE Binders(_, _)
Binders(e, kinds) == (IF e.k \in kinds THEN {e.x} ELSE {}) \cup UNION {Binders(p, kinds) : p \in Parts(e)}
Scoped == Binders(body, {"let"} \cup Loops) \cup Range(Params)
PatternsHide == Binders(body, {"case", "receive"}) \cap Scoped # {}
TailsHide == /\ "tail" \in Kinds(rewrite_tail_calls(body))
             /\ Binders(body, {"let"} \cup Loops) \cap Range(Params) # {}

Agree(in) ==
    LET args == [i \in DOMAIN Params |-> i - 1]
        made == RunCode(args, Start(in, 3 * Bound))
        meant == CallBody(args, Start(in, Bound))
    IN  IF meant.sig = "long" THEN IsPrefix(meant.out, made.out)
        ELSE made.sig = meant.sig /\ made.out = meant.out /\ (made.sig = "ok" => made.val = meant.val)

(* A `return` of a call that became a jump: a block with two ends.           *)
RECURSIVE ReturnsTail(_)
ReturnsTail(e) == (e.k = "return" /\ "tail" \in Kinds(e)) \/ \E p \in Parts(e) : ReturnsTail(p)

(* codegen_expr: the blocks pass the verifier, but for a tail call that is   *)
(* returned, and an `and` whose left side did not end in the first block of  *)
(* the function (its phi node names that block, whatever came before it).    *)
BlocksVerify ==
    code # <<>> => /\ OneEnd \/ ReturnsTail(rewrite_tail_calls(body))
                   /\ OneEnd => \A b \in DOMAIN code : \A op \in Phis(b) : PhiFits(b, op) \/ AndElsewhere(b, op)

(* codegen_expr: whatever is answered, the blocks tell what the body tells,  *)
(* in that order, and return what it returns, where no name is lost.         *)
BlocksDoAsMeant ==
    code # <<>> /\ Verified /\ ~PatternsHide /\ ~TailsHide => \A in \in Inputs : Agree(in)

(* emit_reduction_check: "preemptive scheduling": no way around a loop       *)
(* leaves out the check, whether it goes by its end, a continue or a tail    *)
(* call.                                                                     *)
LoopsAreChecked ==
    code # <<>> /\ OneEnd => \A b \in Unchecked : b \notin Reach(Unchecked \cap Targets(b))

(* codegen/pattern.rs, codegen_leaf: "If already bound by a guard node for   *)
(* this arm, just update the store": a name in the pattern of a case arm is  *)
(* its own.  (The arm of a receive loses the name it hides in another way:   *)
(* bodies in which one does are left out.)                                   *)
ReceivesHide == Binders(body, {"receive"}) \cap Scoped # {}
PatternNamesAreFresh ==
    code # <<>> /\ Verified /\ ~TailsHide /\ ~ReceivesHide => \A in \in Inputs : Agree(in)

(* TailCall: "Store all evaluated values into parameter allocas".            *)
TailCallStoresParameters ==
    code # <<>> /\ Verified /\ ~PatternsHide => \A in \in Inputs : Agree(in)
=============================================================================
