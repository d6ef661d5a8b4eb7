----------------------------- MODULE NameTable -----------------------------
(***************************************************************************)
(* What a table of process names promises its users: a name belongs to at  *)
(* most one process, it changes hands only by becoming free first, and it  *)
(* becomes free only when a process is dropped that owned it when the drop *)
(* began and owns it still; the drop frees all of those.                   *)
(***************************************************************************)
CONSTANTS Names,  \* the names
          Pids,   \* the processes
          NoPid   \* the owner of a free name

VARIABLES names,    \* the owner of each name
          dropping  \* the names each process is being dropped from

Init == /\ names = [n \in Names |-> NoPid]
        /\ dropping = [p \in Pids |-> {}]

\* A free name is claimed for a process.
Claim(n, p) == /\ names[n] = NoPid
               /\ names' = [names EXCEPT ![n] = p]
               /\ UNCHANGED dropping

\* The drop of a process begins, from every name it owns.
StartDrop(p) == /\ dropping[p] = {}
                /\ dropping' = [dropping EXCEPT ![p] = {n \in Names : names[n] = p}]
                /\ UNCHANGED names

\* The drop ends: those names are free, and no name of another process is.
Drop(p) == /\ \A n \in dropping[p] : names[n] = p
           /\ names' = [n \in Names |-> IF n \in dropping[p] THEN NoPid ELSE names[n]]
           /\ dropping' = [dropping EXCEPT ![p] = {}]

Next == \/ \E n \in Names, p \in Pids : Claim(n, p)
        \/ \E p \in Pids : StartDrop(p) \/ Drop(p)

Spec == Init /\ [][Next]_<<names, dropping>>
=============================================================================
