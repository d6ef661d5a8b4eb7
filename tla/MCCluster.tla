----------------------------- MODULE MCCluster -----------------------------
(* The modules of the distribution, each on small instances of its own: a  *)
(* behaviour belongs to the part it starts in, and leaves the variables of *)
(* the others alone.  The constants of GlobalNames are the widest ones.    *)
EXTENDS GlobalNames, Session, RemoteSignals

VARIABLE part

(* One registration and two sessions that follow each other.               *)
Lost == INSTANCE GlobalNames WITH Unregistering <- {1}, MaxOps <- 1

(* One session, and three calls that take the name and give it up.         *)
Rivals == INSTANCE GlobalNames WITH MaxSessions <- 1

(* Two nodes that dial each other once, with a cut and a monitor ("pair"), *)
(* or that open three connections between them ("triple"), and three nodes *)
(* of which two learn of each other from the third ("mesh").               *)
MeshDials == {<<1, 2>>, <<3, 2>>}
PairDials == {<<1, 2>>, <<2, 1>>}
AllDials == PairDials \cup MeshDials
Mesh == INSTANCE Session WITH Dials <- MeshDials

PartDials == [pair |-> PairDials, triple |-> PairDials, mesh |-> MeshDials]

PartNext ==
    /\ SessionNext
    /\ \A c \in 1..MaxDials : ends'[c] \notin (AllDials \ PartDials[part])
    /\ part # "triple" => ends'[3] = <<>>
    /\ part # "pair" => cut' = {} /\ asking' = asking

(* Two processes of node 1, one of which spawns on node 2.                 *)
TwoAndNone == <<2, 0>>

ClusterInit ==
    /\ part \in {"pair", "triple", "mesh", "signals", "lost", "rivals"}
    /\ SessionInit /\ SignalsInit /\ IF part = "rivals" THEN Rivals!Init ELSE Lost!Init

ClusterNext ==
    /\ UNCHANGED part
    /\ \/ part \in {"pair", "triple", "mesh"} /\ PartNext /\ UNCHANGED <<vars, signalVars>>
       \/ /\ \/ part = "lost" /\ Lost!Next
             \/ part = "rivals" /\ Rivals!Next
          /\ UNCHANGED <<sessionVars, signalVars>>
       \/ part = "signals" /\ SignalsNext /\ UNCHANGED <<sessionVars, vars>>

ClusterSpec == ClusterInit /\ [][ClusterNext]_<<part, sessionVars, vars, signalVars>>
-----------------------------------------------------------------------------
(* send_peer_list, handle_peer_list: nodes that learn of each other from a   *)
(* third one are connected when no connection is lost.                       *)
PeersMeet == part = "mesh" => Mesh!MeshForms
=============================================================================
