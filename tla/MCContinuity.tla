---------------------------- MODULE MCContinuity ----------------------------
(* Work continuity on small instances: a behaviour belongs to the part it   *)
(* starts in.  The constants of the module are the widest ones; each part   *)
(* narrows some of them.                                                    *)
(*   requests: submissions of one key, which is placed on the other node,   *)
(*             mirrored or not, with a cut and retries;                     *)
(*   payloads: the same with two payloads, mirrored;                        *)
(*   startup:  the startup work of a primary, which a standby mirrors, with *)
(*             cuts and a promotion;                                        *)
(*   crash:    the same with nodes that restart with an empty registry, and *)
(*             more replicas required than there are;                       *)
(*   both:     both nodes receive submissions of the key, two payloads,     *)
(*             mirrored or not, and retry;                                  *)
(*   split:    both nodes receive one mirrored submission each, with a cut  *)
(*             and a promotion, and at most WireBound messages on the wire  *)
(*             to a node;                                                   *)
(*   route:    one request of an HTTP route that is served as such work.    *)
EXTENDS Continuity, ClusteredRoute, TLC

VARIABLE part

WireBound == 1

RequestsPart == INSTANCE Continuity WITH
    Required <- {0, 1}, Hashes <- {CHOOSE h \in Hashes : TRUE}

PayloadsPart == INSTANCE Continuity WITH Required <- {1}

BothPart == INSTANCE Continuity WITH Ingress <- Nodes, Required <- {0, 1}, MaxCuts <- 0

SplitPart == INSTANCE Continuity WITH
    Ingress <- Nodes, Required <- {1}, MaxToken <- 1, Hashes <- {CHOOSE h \in Hashes : TRUE}

StartupPart == INSTANCE Continuity WITH
    Primaries <- {2}, Ingress <- {2}, Required <- {1}, StartupKeys <- Keys,
    Hashes <- {CHOOSE h \in Hashes : TRUE}

CrashPart == INSTANCE Continuity WITH
    Primaries <- {2}, Ingress <- {2}, Required <- {1, 2}, StartupKeys <- Keys,
    Hashes <- {CHOOSE h \in Hashes : TRUE}, MaxEpoch <- 2, MaxCuts <- 0, MaxCrashes <- 2

ContinuityInit ==
    /\ \/ part \in {"requests", "route"} /\ RequestsPart!Init
       \/ part = "payloads" /\ PayloadsPart!Init
       \/ part = "startup" /\ StartupPart!Init
       \/ part = "crash" /\ CrashPart!Init
       \/ part = "both" /\ BothPart!Init
       \/ part = "split" /\ SplitPart!Init
    /\ RouteInit /\ (part # "route" => owner = Gateway)

ContinuityNext ==
    /\ \/ part = "requests" /\ RequestsPart!Next /\ UNCHANGED routeVars
       \/ part = "payloads" /\ PayloadsPart!Next /\ UNCHANGED routeVars
       \/ part = "startup" /\ StartupPart!Next /\ UNCHANGED routeVars
       \/ part = "crash" /\ CrashPart!Next /\ UNCHANGED routeVars
       \/ part = "both" /\ BothPart!Next /\ UNCHANGED routeVars
       \/ part = "split" /\ SplitPart!Next /\ UNCHANGED routeVars
          /\ \A n \in Nodes : Cardinality({msg \in msgs' : msg.to = n}) <= WireBound
       \/ part = "route" /\ RouteNext /\ UNCHANGED vars
    /\ UNCHANGED part

ContinuitySpec == ContinuityInit /\ [][ContinuityNext]_<<part, vars, routeVars>>
-----------------------------------------------------------------------------
(* A record said to be mirrored is held by its replica, an attempt has one   *)
(* owner, only the owner completes it, and nodes that are connected and quiet *)
(* hold the same; Continuity states under which conditions, and the parts     *)
(* differ in who submits.                                                     *)
OwnersAgree ==
    /\ MirroredIsHeld /\ QuietAgreement
    /\ IF part \in {"both", "split"} THEN BothPart!OneOwner /\ BothPart!CompletedByOwner
                                     ELSE OneOwner /\ CompletedByOwner

(* No step takes an authority, an attempt or an ended attempt back.          *)
NothingGoesBack ==
    [][/\ AuthorityOnlyAdvances /\ AttemptNeverRegresses
       /\ IF part \in {"both", "split"} THEN BothPart!EndIsFinal ELSE EndIsFinal]_<<vars, part>>
=============================================================================
