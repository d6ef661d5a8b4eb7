--------------------------- MODULE ClusteredRoute ---------------------------
(* An HTTP request that is served as declared work (dist/node.rs): the      *)
(* ingress has submitted it, and has the handler run by the owner over a    *)
(* connection made for it, while the records travel over the session.  The  *)
(* ingress, the owner and its accept loop each give up after a time.        *)
EXTENDS ContinuityRecord, Sequences

CONSTANTS Gateway,  \* the ingress: the node that the client is connected to
          Backend,  \* the other node
          RouteKey, Payload  \* of the one request

ASSUME RouteAssumption ==
    /\ {Gateway, Backend} \subseteq Nodes /\ Gateway # Backend
    /\ RouteKey \in Keys /\ Payload \in Hashes

VARIABLES owner,    \* the node the key of the request is placed on
          registry, \* registry[n]: the registry of node n
          upserts,  \* upserts[n]: upserts on their way to n, in order
          client,   \* new, waiting, ok or err: what the request is answered
          query,    \* none, sent, served (the accept loop waits for the actor) or closed
          handler,  \* none, running or ran
          reply     \* none, ok or err: on its way to the ingress

routeVars == <<owner, registry, upserts, client, query, handler, reply>>

Ends == {Gateway, Backend}
Other(n) == IF n = Gateway THEN Backend ELSE Gateway

(* The record of the request that n holds, if any.                         *)
Work(n) == registry[n].requests[RouteKey]

EmptyRegistry == [role |-> "primary", epoch |-> 0, token |-> 0, requests |-> [k \in Keys |-> NoRecord]]

(* The registry of n becomes st, and its record is broadcast.              *)
Becomes(n, st) ==
    /\ registry' = [registry EXCEPT ![n] = st]
    /\ upserts' = [upserts EXCEPT ![Other(n)] = Append(@, [token |-> st.token, rec |-> st.requests[RouteKey]])]

Keep == UNCHANGED <<registry, upserts>>

RouteInit ==
    /\ owner \in Ends
    /\ registry = [n \in Ends |-> EmptyRegistry] /\ upserts = [n \in Ends |-> <<>>]
    /\ client = "new" /\ query = "none" /\ handler = "none" /\ reply = "none"

(* prepare_declared_handler_submission has created the record.  Its replica *)
(* was not asked, when none is required, or it was, has mirrored the record *)
(* and acknowledges it; or it refuses or is silent, there is none or more   *)
(* than one are required, and nothing is dispatched.                        *)
SubmitRoute ==
    \E replica \in (Ends \ {owner}) \cup {NoNode}, answer \in {"unasked", "acknowledged", "refused"} :
        LET r   == Submitted([hash |-> Payload, owner |-> owner, replica |-> replica,
                              role |-> "primary", epoch |-> 0], 0)
            rec == CASE answer = "unasked" -> r
                     [] answer = "acknowledged" -> Acknowledged(r)
                     [] answer = "refused" -> Rejected(r)
        IN  /\ client = "new" /\ client' = IF answer = "refused" THEN "err" ELSE "waiting"
            /\ Becomes(Gateway, Put(RaiseToken(registry[Gateway], 1), RouteKey, rec))
            /\ query' = IF owner # Gateway /\ answer # "refused" THEN "sent" ELSE query
            /\ handler' = IF owner = Gateway /\ answer # "refused" THEN "running" ELSE handler
            /\ UNCHANGED reply

(* What the record of n makes of an attempt that is rejected, or completed.*)
RejectRoute(n) ==
    IF CanReject(Work(n), 0)
    THEN Becomes(n, Put(registry[n], RouteKey, Rejected(Work(n)))) ELSE Keep

CompleteRoute(n) == Becomes(n, Put(registry[n], RouteKey, Completed(Work(n), n)))

(* handle_transient_http_route_connection: the accept loop takes the query *)
(* and has an actor run the handler.                                       *)
ServeQuery ==
    /\ query = "sent" /\ query' = "served" /\ handler' = "running"
    /\ UNCHANGED <<registry, upserts, client, reply>>

Answer(result) ==
    IF owner = Gateway
    THEN client' = result /\ UNCHANGED <<query, reply>>
    ELSE /\ reply' = IF query = "served" THEN result ELSE reply
         /\ UNCHANGED <<client, query>>

HandlerReturns_IgnoresRecord ==
    /\ handler = "running" /\ handler' = "ran"
    /\ IF CanComplete(Work(owner), 0, owner) THEN CompleteRoute(owner) ELSE Keep
    /\ Answer("ok")

(* execute_clustered_http_route_locally: the handler has run; the record   *)
(* that is completed may not have arrived, or may have been rejected.      *)
HandlerReturns ==
    /\ handler = "running" /\ handler' = "ran"
    /\ IF CanComplete(Work(owner), 0, owner)
       THEN CompleteRoute(owner) /\ Answer("ok")
       ELSE RejectRoute(owner) /\ Answer("err")

HandlerFails ==
    /\ handler = "running" /\ handler' = "ran"
    /\ RejectRoute(owner) /\ Answer("err")

(* build_http_route_reply_via_actor gives up; the actor runs on.           *)
OwnerGivesUp ==
    /\ query = "served" /\ reply = "none" /\ query' = "closed"
    /\ UNCHANGED <<registry, upserts, client, handler, reply>>

(* execute_clustered_http_route: on an error the ingress rejects.          *)
TakeReply ==
    /\ owner # Gateway /\ client = "waiting" /\ reply # "none"
    /\ client' = reply
    /\ IF reply = "ok" THEN Keep ELSE RejectRoute(Gateway)
    /\ UNCHANGED <<query, handler, reply>>

IngressGivesUp_Leaves ==
    /\ owner # Gateway /\ client = "waiting" /\ query # "none"
    /\ client' = "err" /\ Keep
    /\ query' = IF query = "sent" THEN "none" ELSE "closed"
    /\ UNCHANGED <<handler, reply>>

IngressGivesUp ==
    /\ owner # Gateway /\ client = "waiting" /\ query # "none"
    /\ client' = "err" /\ RejectRoute(Gateway)
    /\ query' = IF query = "sent" THEN query ELSE "closed"   \* still in the backlog of the owner
    /\ UNCHANGED <<handler, reply>>

Merged_Overwrites(n) ==
    /\ upserts[n] # <<>> /\ upserts' = [upserts EXCEPT ![n] = Tail(@)]
    /\ registry' = [registry EXCEPT ![n] = Put(RaiseToken(@, upserts[n][1].token), RouteKey, upserts[n][1].rec)]
    /\ UNCHANGED <<client, query, handler, reply>>

(* DIST_CONTINUITY_UPSERT                                                  *)
Merged(n) ==
    /\ upserts[n] # <<>> /\ upserts' = [upserts EXCEPT ![n] = Tail(@)]
    /\ registry' = [registry EXCEPT ![n] = Merge(@, upserts[n][1].token, RouteKey, upserts[n][1].rec)]
    /\ UNCHANGED <<client, query, handler, reply>>

RouteNext ==
    /\ \/ SubmitRoute \/ ServeQuery \/ HandlerReturns \/ HandlerFails \/ OwnerGivesUp
       \/ TakeReply \/ IngressGivesUp
       \/ \E n \in Ends : Merged(n)
    /\ UNCHANGED owner

RouteSpec == RouteInit /\ [][RouteNext]_routeVars
-----------------------------------------------------------------------------
Phase(n) == Work(n).phase
RecordsArrived == \A n \in Ends : upserts[n] = <<>>

RouteTypeOK ==
    /\ owner \in Ends
    /\ \A n \in Ends : registry[n] \in [role : Roles, epoch : {0}, token : 0..1,
                                    requests : [Keys -> Record \cup {NoRecord}]]
    /\ client \in {"new", "waiting", "ok", "err"} /\ query \in {"none", "sent", "served", "closed"}
    /\ handler \in {"none", "running", "ran"} /\ reply \in {"none", "ok", "err"}

(* A request that was answered is completed work on every node, once the   *)
(* records have arrived: no node that gave up takes it back.               *)
OkIsCompleted == client = "ok" /\ RecordsArrived => \A n \in Ends : Phase(n) = "completed"

(* Once the records have arrived the nodes agree on what became of the     *)
(* work, also when one has rejected what the other was completing.         *)
NodesAgree == client # "new" /\ RecordsArrived => \A m, n \in Ends : Phase(m) = Phase(n)

(* Work that ran after its client was told of an error is not left pending *)
(* on any node.                                                            *)
NothingPending == client \in {"ok", "err"} /\ RecordsArrived => \A n \in Ends : Phase(n) # "submitted"
-----------------------------------------------------------------------------
(* execute_clustered_http_route: an answered request is completed work, the *)
(* nodes agree on what became of it, and failed work is not left pending.   *)
RouteIsSettled == RouteTypeOK /\ OkIsCompleted /\ NodesAgree /\ NothingPending
=============================================================================
