-------------------------------- MODULE Heap --------------------------------
(* The heap of an actor and its collector (actor/heap.rs): blocks of bump  *)
(* pages, threaded through one pointer field into the list of objects or   *)
(* the free list; a conservative mark from the words of the stack, and a   *)
(* sweep that unlinks in place.  A block keeps its size for ever.          *)
EXTENDS Naturals, Sequences, FiniteSets, SequencesExt

CONSTANTS MaxBlocks,  \* bound: blocks cut from the pages
          Sizes,      \* sizes that are asked for, header included
          MaxSteps    \* bound: operations of the program, collections included

ASSUME HeapAssumption == MaxBlocks \in Nat /\ Sizes \subseteq Nat /\ MaxSteps \in Nat

VARIABLES size,      \* size[b]: the blocks so far, in the order they were cut
          next,      \* next[b]: the intrusive pointer; 0 is null
          body,      \* body[b]: blocks that words of b point into
          flags,     \* flags[b]: subset of {"marked", "free"}
          head, freehead,      \* all_objects, free_list
          total,     \* total_allocated
          roots,     \* blocks that words of the stack point into
          stage,     \* run, mark or sweep
          work, current, prev, newhead, first,   \* locals of mark and sweep
          steps

heapVars == <<size, next, body, flags, head, freehead, total, roots, stage, work, current, prev,
              newhead, first, steps>>
locals == <<work, current, prev, newhead, first>>

Blocks == 1..Len(size)

HeapInit ==
    /\ size = <<>> /\ next = <<>> /\ body = <<>> /\ flags = <<>>
    /\ head = 0 /\ freehead = 0 /\ total = 0 /\ roots = {} /\ stage = "run"
    /\ work = <<>> /\ current = 0 /\ prev = 0 /\ newhead = 0 /\ first = TRUE
    /\ steps = 0

Operate == stage = "run" /\ steps < MaxSteps /\ steps' = steps + 1

(* The pointers lead from h through s, in order, to e.                     *)
Links(h, s, e) ==
    /\ h = IF s = <<>> THEN e ELSE s[1]
    /\ \A i \in DOMAIN s : next[s[i]] = IF i = Len(s) THEN e ELSE s[i + 1]

(* The blocks of the list that h is the head of, in order.                 *)
Lists == UNION {[1..n -> Blocks] : n \in 0..Len(size)}
Chain(h) == CHOOSE s \in Lists : Links(h, s, 0)

(* Where the free list has a block that is large enough.                   *)
Fits(n) == LET free == Chain(freehead) IN {i \in DOMAIN free : size[free[i]] >= n}

(* First fit: the block is unlinked from its predecessor; the total is not *)
(* touched.                                                                *)
alloc_from_free_list(n) ==
    /\ Operate
    /\ \E i \in Fits(n) :
        LET b == Chain(freehead)[i]
        IN  /\ \A j \in Fits(n) : i <= j
            /\ next' = [p \in Blocks |->
                   IF p = b THEN head
                   ELSE IF i > 1 /\ p = Chain(freehead)[i - 1] THEN next[b] ELSE next[p]]
            /\ head' = b
            /\ freehead' = IF i = 1 THEN next[b] ELSE freehead
            /\ flags' = [flags EXCEPT ![b] = {}] /\ body' = [body EXCEPT ![b] = {}]
            /\ roots' = roots \cup {b}
    /\ UNCHANGED <<size, total, stage, locals>>

bump_alloc_with_header(n) ==
    /\ Operate /\ Fits(n) = {} /\ Len(size) < MaxBlocks
    /\ size' = Append(size, n) /\ next' = Append(next, head)
    /\ head' = Len(size) + 1 /\ roots' = roots \cup {Len(size) + 1}
    /\ body' = Append(body, {}) /\ flags' = Append(flags, {})
    /\ total' = total + n
    /\ UNCHANGED <<freehead, stage, locals>>

(* The program: it stores pointers, loads them and forgets them.           *)
StorePointer(b, c) ==
    /\ Operate /\ {b, c} \subseteq roots /\ c \notin body[b]
    /\ body' = [body EXCEPT ![b] = @ \cup {c}]
    /\ UNCHANGED <<size, next, flags, head, freehead, total, roots, stage, locals>>

LoadPointer(b, c) ==
    /\ Operate /\ b \in roots /\ c \in body[b] \ roots
    /\ roots' = roots \cup {c}
    /\ UNCHANGED <<size, next, body, flags, head, freehead, total, stage, locals>>

Forget(b) ==
    /\ Operate /\ b \in roots /\ roots' = roots \ {b}
    /\ UNCHANGED <<size, next, body, flags, head, freehead, total, stage, locals>>
-----------------------------------------------------------------------------
(* collect, from try_trigger_gc or because the program asks: the words of  *)
(* the stack first.  find_object_containing sees the listed objects only.  *)
Objects == {b \in Range(Chain(head)) : "free" \notin flags[b]}

Collect ==
    /\ Operate /\ head # 0 /\ stage' = "mark"
    /\ LET found == roots \cap Objects
       IN  /\ flags' = [b \in Blocks |-> IF b \in found THEN flags[b] \cup {"marked"} ELSE flags[b]]
           /\ work' = SetToSeq(found)
    /\ UNCHANGED <<size, next, body, head, freehead, total, roots, current, prev, newhead, first>>

Mark_OneLevel ==
    /\ stage = "mark" /\ work # <<>>
    /\ LET found == {c \in body[Last(work)] \cap Objects : "marked" \notin flags[c]}
       IN  /\ flags' = [b \in Blocks |-> IF b \in found THEN flags[b] \cup {"marked"} ELSE flags[b]]
           /\ work' = Front(work)
    /\ UNCHANGED <<size, next, body, head, freehead, total, roots, stage, current, prev, newhead, first, steps>>

(* One object of the worklist.                                             *)
Mark ==
    /\ stage = "mark" /\ work # <<>>
    /\ LET found == {c \in body[Last(work)] \cap Objects : "marked" \notin flags[c]}
       IN  /\ flags' = [b \in Blocks |-> IF b \in found THEN flags[b] \cup {"marked"} ELSE flags[b]]
           /\ work' = Front(work) \o SetToSeq(found)
    /\ UNCHANGED <<size, next, body, head, freehead, total, roots, stage, current, prev, newhead, first, steps>>

StartSweep ==
    /\ stage = "mark" /\ work = <<>> /\ stage' = "sweep"
    /\ current' = head /\ prev' = 0 /\ newhead' = head /\ first' = TRUE
    /\ UNCHANGED <<size, next, body, flags, head, freehead, total, roots, work, steps>>

SweepOne_LosesTail ==
    /\ stage = "sweep" /\ current # 0
    /\ LET c == current
       IN  /\ current' = next[c]
           /\ IF "marked" \in flags[c]
              THEN /\ flags' = [flags EXCEPT ![c] = @ \ {"marked"}]
                   /\ newhead' = (IF first THEN c ELSE newhead) /\ first' = FALSE
                   /\ prev' = c /\ UNCHANGED <<next, freehead, total>>
              ELSE /\ total' = IF total > size[c] THEN total - size[c] ELSE 0
                   /\ next' = [next EXCEPT ![c] = freehead]
                   /\ newhead' = IF prev = 0 THEN next[c] ELSE newhead
                   /\ flags' = [flags EXCEPT ![c] = @ \cup {"free"}]
                   /\ freehead' = c /\ UNCHANGED <<first, prev>>
    /\ UNCHANGED <<size, body, head, roots, stage, work, steps>>

SweepOne_Subtracts ==
    /\ stage = "sweep" /\ current # 0
    /\ LET c == current
       IN  /\ current' = next[c]
           /\ IF "marked" \in flags[c]
              THEN /\ flags' = [flags EXCEPT ![c] = @ \ {"marked"}]
                   /\ newhead' = (IF first THEN c ELSE newhead) /\ first' = FALSE
                   /\ prev' = c /\ UNCHANGED <<next, freehead, total>>
              ELSE /\ total' = total - size[c]
                   /\ next' = [b \in Blocks |-> IF b = c THEN freehead
                                                ELSE IF b = prev THEN next[c] ELSE next[b]]
                   /\ newhead' = IF prev = 0 THEN next[c] ELSE newhead
                   /\ flags' = [flags EXCEPT ![c] = @ \cup {"free"}]
                   /\ freehead' = c /\ UNCHANGED <<first, prev>>
    /\ UNCHANGED <<size, body, head, roots, stage, work, steps>>

(* One object of the list: kept, or unlinked and put on the free list.     *)
SweepOne ==
    /\ stage = "sweep" /\ current # 0
    /\ LET c == current
       IN  /\ current' = next[c]
           /\ IF "marked" \in flags[c]
              THEN /\ flags' = [flags EXCEPT ![c] = @ \ {"marked"}]
                   /\ newhead' = (IF first THEN c ELSE newhead) /\ first' = FALSE
                   /\ prev' = c /\ UNCHANGED <<next, freehead, total>>
              ELSE /\ total' = IF total > size[c] THEN total - size[c] ELSE 0   \* saturating_sub
                   /\ next' = [b \in Blocks |-> IF b = c THEN freehead
                                                ELSE IF b = prev THEN next[c] ELSE next[b]]
                   /\ newhead' = IF prev = 0 THEN next[c] ELSE newhead
                   /\ flags' = [flags EXCEPT ![c] = @ \cup {"free"}]
                   /\ freehead' = c /\ UNCHANGED <<first, prev>>
    /\ UNCHANGED <<size, body, head, roots, stage, work, steps>>

SweepEnds ==
    /\ stage = "sweep" /\ current = 0 /\ stage' = "run"
    /\ head' = IF first THEN 0 ELSE newhead
    /\ prev' = 0 /\ newhead' = 0 /\ first' = TRUE   \* these locals end here
    /\ UNCHANGED <<size, next, body, flags, freehead, total, roots, work, current, steps>>

HeapNext ==
    \/ \E n \in Sizes : alloc_from_free_list(n) \/ bump_alloc_with_header(n)
    \/ \E b, c \in Blocks : StorePointer(b, c) \/ LoadPointer(b, c)
    \/ \E b \in Blocks : Forget(b)
    \/ Collect \/ Mark \/ StartSweep \/ SweepOne \/ SweepEnds

HeapSpec == HeapInit /\ [][HeapNext]_heapVars
-----------------------------------------------------------------------------
HeapTypeOK ==
    /\ Len(size) <= MaxBlocks
    /\ DOMAIN next = Blocks /\ DOMAIN body = Blocks /\ DOMAIN flags = Blocks
    /\ {head, freehead, current, prev, newhead} \subseteq Blocks \cup {0}
    /\ roots \subseteq Blocks /\ stage \in {"run", "mark", "sweep"} /\ total \in Nat

(* alloc, sweep: between collections every block is on one of the two      *)
(* lists, once, the one its FREE bit says, and nothing is marked.          *)
ListsPartition ==
    stage = "run" =>
        \E objects \in Lists :
            /\ Links(head, objects, 0)
            /\ \E free \in Lists :
                /\ Links(freehead, free, 0)
                /\ IsInjective(objects \o free) /\ Range(objects \o free) = Blocks
                /\ \A b \in Blocks : flags[b] = IF b \in Range(free) THEN {"free"} ELSE {}

(* mark_from_roots: what the program can reach is never swept, so a block  *)
(* that is handed out again is one the program has lost.                   *)
Closed(S) == roots \subseteq S /\ \A b \in S : body[b] \subseteq S
Reached == {b \in Blocks : \A S \in SUBSET Blocks : Closed(S) => b \in S}
ReachableIsKept == \A b \in Reached : "free" \notin flags[b]

(* total_bytes: the bytes of the objects, as the comment on it says.  The  *)
(* blocks of the free list are handed out without being counted again.     *)
Bytes(s) == FoldLeft(LAMBDA n, b : n + size[b], 0, s)
TotalIsAllocated == stage = "run" => total = Bytes(Chain(head))
-----------------------------------------------------------------------------
(* heap.rs, collect: every block is in one of the two lists, once, and what  *)
(* the program can reach is never handed out again.                          *)
HeapIsSound == HeapTypeOK /\ ListsPartition /\ ReachableIsKept
=============================================================================
