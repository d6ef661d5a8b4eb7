----------------------------- MODULE MCServices -----------------------------
(* The services of a node, each on a small instance of its own: a behaviour *)
(* belongs to the part it starts in, and leaves the others alone.  They are *)
(* the modules themselves, as they are proved about, so that their          *)
(* assumptions are evaluated.                                               *)
EXTENDS Registry, Scheduler, Supervisor, Reply, WsConnection, Rooms, TLC

VARIABLE part

(* Every strategy over pairs of children of each kind.                     *)
Child(type, trap, remote) == [type |-> type, trap |-> trap, remote |-> remote]
Pairs == {<<Child("permanent", FALSE, FALSE), Child("transient", TRUE, FALSE)>>,
          <<Child("permanent", FALSE, FALSE), Child("permanent", FALSE, TRUE)>>,
          <<Child("temporary", FALSE, FALSE), Child("permanent", TRUE, FALSE)>>}

(* Two processes that call two services, one that starts jobs, and one     *)
(* that maps a list over jobs.                                             *)
EachUse == [c1 |-> {"call"}, c2 |-> {"call"}, j1 |-> {"job"}, m1 |-> {"map"}]

(* Three connections on two nodes, and a broadcast from each node.  Only a *)
(* leaves a room by itself, is rejected, joined late or shut down, and what *)
(* follows a use of its freed handle is left out; b and c are admitted      *)
(* before the first broadcast.                                             *)
ServedAt == [a |-> 1, b |-> 2, c |-> 1]
FirstAndSecond == <<1, 2>>
ButForC == <<"c", "none">>
OneRoom == <<"r", "r">>

ChosenParts == {"registry", "scheduler", "tree", "calls", "maps", "connection", "lobby"}

ServicesInit ==
    /\ part \in ChosenParts
    /\ RegistryInit /\ Init /\ SupervisorInit /\ ReplyInit /\ WsInit /\ RoomsInit
    /\ part # "tree" => strategy = "one_for_one" /\ children[2].spec.type = "transient"

ServicesNext ==
    /\ UNCHANGED part
    /\ \/ /\ part = "registry" /\ RegistryNext
          /\ UNCHANGED <<vars, supervisorVars, replyVars, wsVars, roomVars>>
       \/ /\ part = "scheduler" /\ Next
          /\ UNCHANGED <<registry, supervisorVars, replyVars, wsVars, roomVars>>
       \/ /\ part = "tree" /\ SupervisorNext
          /\ UNCHANGED <<registry, vars, replyVars, wsVars, roomVars>>
       \/ /\ part \in {"calls", "maps"} /\ ReplyNext
          /\ \A c \in Callers : (c = "m1") = (part = "calls") => at'[c] = at[c]
          /\ part = "maps" => alive' = alive
          /\ UNCHANGED <<registry, vars, supervisorVars, wsVars, roomVars>>
       \/ /\ part = "connection" /\ WsNext
          /\ UNCHANGED <<registry, vars, supervisorVars, replyVars, roomVars>>
       \/ /\ part = "lobby" /\ RoomsNext
          /\ ~wild /\ stray' \subseteq {"a"}
          /\ \A c \in Conns \ {"a"} : /\ life'[c] \notin {"shut", "freed"}
                                      /\ c \in rooms["r"] \ rooms'["r"] => life'[c] = "left"
                                      /\ life[c] = "met" => UNCHANGED sending
          /\ UNCHANGED <<registry, vars, supervisorVars, replyVars, wsVars>>

ServicesSpec ==
    /\ ServicesInit
    /\ [][ServicesNext]_<<part, registry, vars, supervisorVars, replyVars, wsVars, roomVars>>

(* Only the scheduler has handles to permute.                              *)
Symmetry == Permutations(Actors) \cup Permutations(Workers)
=============================================================================
