------------------------------ MODULE PgClient ------------------------------
(* A connection to PostgreSQL (db/pg.rs): how it is made, how statements   *)
(* and transactions are sent over it, and how their answers are told apart *)
(* by nothing but the ReadyForQuery that ends each.  A read gives up after *)
(* its timeout; the answer may still come.                                 *)
EXTENDS Naturals, Sequences

CONSTANTS Modes,         \* values of sslmode
          MaxStatements, \* bound: statements 1..MaxStatements
          MaxMessages,   \* bound: messages of the server before the connection is up
          MaxTimeouts    \* bound: reads that give up

ASSUME PgBoundsAssumption == MaxStatements \in Nat /\ MaxMessages \in Nat /\ MaxTimeouts \in Nat

VARIABLES mode, tls,
          phase,    \* what mesh_pg_connect waits for, up or failed
          entitled, \* the server has sent AuthenticationOk
          heard,    \* messages of the server so far
          op,       \* the statement that is read for: request, error, rows; or Idle
          txn,      \* where mesh_pg_transaction stands
          txn_status,
          requests, \* what the server has not taken yet
          wire,     \* what the client has not read yet
          srv, held, db,  \* at the server: its transaction status, what the
                          \* transaction has done, what is committed
          number,   \* statements sent
          timeouts,
          log,      \* what the statements returned: <<statement, error, rows>>
          closure,  \* statements of the transaction that returned Ok
          result    \* what the last transaction returned, and its closure

handshake == <<mode, tls, phase, entitled, heard>>
atServer == <<requests, wire, srv, held, db>>
pgVars == <<handshake, op, txn, txn_status, atServer, number, timeouts, log, closure, result>>

Idle == <<"idle">>

PgInit ==
    /\ mode \in Modes /\ tls = FALSE /\ entitled = FALSE /\ heard = 0
    /\ phase = IF mode = "disable" THEN "auth" ELSE "ssl"
    /\ op = Idle /\ txn = "none" /\ txn_status = "I"
    /\ requests = <<>> /\ wire = <<>> /\ srv = "I" /\ held = {} /\ db = {}
    /\ number = 0 /\ timeouts = 0 /\ log = <<>> /\ closure = {} /\ result = <<>>

statements == <<op, txn, atServer, number, timeouts, log, closure, result>>

(* negotiate_tls: one byte.                                                *)
NegotiateTls(answer) ==
    /\ phase = "ssl" /\ heard < MaxMessages /\ heard' = heard + 1
    /\ phase' = IF answer = "S" \/ (answer = "N" /\ mode = "prefer") THEN "auth" ELSE "failed"
    /\ tls' = (answer = "S")
    /\ UNCHANGED <<mode, entitled, txn_status, statements>>

AfterAuth_AnyReply(tag, type) ==
    IF tag # "R" THEN "failed" ELSE
    CASE phase = "auth" -> (CASE type = 0 -> "sync" [] type \in {3, 5} -> "result" [] type = 10 -> "continue"
                              [] OTHER -> "failed")
      [] phase = "continue" -> IF type = 11 THEN "final" ELSE "failed"
      [] phase = "final" -> IF type = 12 THEN "result" ELSE "failed"
      [] phase = "result" -> "sync"

(* mesh_pg_connect: clear text, MD5 or SCRAM, each answered in its turn.   *)
AfterAuth(tag, type) ==
    IF tag # "R" THEN "failed" ELSE
    CASE phase = "auth" -> (CASE type = 0 -> "sync" [] type \in {3, 5} -> "result" [] type = 10 -> "continue"
                              [] OTHER -> "failed")
      [] phase = "continue" -> IF type = 11 THEN "final" ELSE "failed"
      [] phase = "final" -> IF type = 12 THEN "result" ELSE "failed"
      [] phase = "result" -> IF type = 0 THEN "sync" ELSE "failed"

Authenticate(tag, type) ==
    /\ phase \in {"auth", "continue", "final", "result"} /\ heard < MaxMessages /\ heard' = heard + 1
    /\ phase' = AfterAuth(tag, type)
    /\ entitled' = (entitled \/ (tag = "R" /\ type = 0))
    /\ UNCHANGED <<mode, tls, txn_status, statements>>

(* What follows the authentication, up to ReadyForQuery.                   *)
Synchronise(tag) ==
    /\ phase = "sync" /\ heard < MaxMessages /\ heard' = heard + 1
    /\ phase' = CASE tag = "Z" -> "up" [] tag = "E" -> "failed" [] OTHER -> "sync"
    /\ txn_status' = "I"
    /\ UNCHANGED <<mode, tls, entitled, statements>>

(* A password the client cannot answer with, a signature that differs, a   *)
(* read or a write that fails.                                             *)
ConnectFails ==
    /\ phase \notin {"up", "failed"} /\ phase' = "failed"
    /\ UNCHANGED <<mode, tls, entitled, heard, txn_status, statements>>
-----------------------------------------------------------------------------
Send(request) ==
    /\ requests' = Append(requests, request)
    /\ op' = <<request, FALSE, {}>>
    /\ UNCHANGED <<wire, srv, held, db>>

(* mesh_pg_execute, mesh_pg_query: Parse to Sync in one write.             *)
Statement ==
    /\ phase = "up" /\ op = Idle /\ txn \in {"none", "body"} /\ number < MaxStatements
    /\ number' = number + 1 /\ Send(<<"run", number + 1>>)
    /\ UNCHANGED <<handshake, txn, txn_status, timeouts, log, closure, result>>

(* mesh_pg_begin, mesh_pg_commit, mesh_pg_rollback                         *)
Command(kind) ==
    /\ phase = "up" /\ op = Idle /\ txn = "none" /\ number < MaxStatements
    /\ Send(<<kind>>) /\ number' = number + 1
    /\ UNCHANGED <<handshake, txn, txn_status, timeouts, log, closure, result>>

(* mesh_pg_transaction                                                     *)
Begin ==
    /\ phase = "up" /\ op = Idle /\ txn = "none" /\ number < MaxStatements
    /\ txn' = "begin" /\ closure' = {} /\ Send(<<"begin">>)
    /\ UNCHANGED <<handshake, txn_status, number, timeouts, log, result>>

BodyReturns_Commits(ok) ==
    /\ op = Idle /\ txn = "body"
    /\ txn' = (IF ok THEN "commit" ELSE "rollback")
    /\ Send(<<"commit">>)
    /\ UNCHANGED <<handshake, txn_status, number, timeouts, log, closure, result>>

(* The callback returns Ok, or Err, or panics.                             *)
BodyReturns(ok) ==
    /\ op = Idle /\ txn = "body"
    /\ txn' = (IF ok THEN "commit" ELSE "rollback")
    /\ Send(IF ok THEN <<"commit">> ELSE <<"rollback">>)
    /\ UNCHANGED <<handshake, txn_status, number, timeouts, log, closure, result>>

(* The statement in hand has come to its end, with an error or without.    *)
Return(error) ==
    LET request == op[1]
        failed == txn = "commit" /\ error
    IN  /\ log' = IF request[1] = "run" THEN Append(log, <<request[2], error, op[3]>>) ELSE log
        /\ closure' = IF request[1] = "run" /\ txn = "body" /\ ~error THEN closure \cup {request[2]} ELSE closure
        /\ txn' = CASE txn = "begin" /\ ~error -> "body"
                    [] failed -> "rollback"
                    [] txn = "body" -> "body"
                    [] OTHER -> "none"
        /\ result' = CASE txn = "begin" /\ error -> <<"err", {}>>
                       [] txn = "commit" /\ ~error -> <<"ok", closure>>
                       [] txn = "rollback" -> <<"err", closure>>
                       [] OTHER -> result
        /\ op' = IF failed THEN <<<<"rollback">>, FALSE, {}>> ELSE Idle
        /\ requests' = IF failed THEN Append(requests, <<"rollback">>) ELSE requests

Read_ReturnsAtError ==
    /\ op # Idle /\ wire # <<>> /\ wire' = Tail(wire)
    /\ \/ /\ Head(wire)[1] = "D" /\ op' = [op EXCEPT ![3] = @ \cup {Head(wire)[2]}]
          /\ UNCHANGED <<txn, txn_status, requests, log, closure, result>>
       \/ Head(wire)[1] = "C" /\ UNCHANGED <<op, txn, txn_status, requests, log, closure, result>>
       \/ Head(wire)[1] = "E" /\ Return(TRUE) /\ UNCHANGED txn_status
       \/ Head(wire)[1] = "Z" /\ txn_status' = Head(wire)[2] /\ Return(FALSE)
    /\ UNCHANGED <<handshake, srv, held, db, number, timeouts>>

Read_KeepsStatus ==
    /\ op # Idle /\ wire # <<>> /\ wire' = Tail(wire)
    /\ \/ /\ Head(wire)[1] = "D" /\ op' = [op EXCEPT ![3] = @ \cup {Head(wire)[2]}]
          /\ UNCHANGED <<txn, txn_status, requests, log, closure, result>>
       \/ /\ Head(wire)[1] = "E" /\ op' = [op EXCEPT ![2] = TRUE]
          /\ UNCHANGED <<txn, txn_status, requests, log, closure, result>>
       \/ Head(wire)[1] = "C" /\ UNCHANGED <<op, txn, txn_status, requests, log, closure, result>>
       \/ Head(wire)[1] = "Z" /\ Return(op[2]) /\ txn_status' = IF op[2] THEN txn_status ELSE Head(wire)[2]
    /\ UNCHANGED <<handshake, srv, held, db, number, timeouts>>

(* One message: an error is kept and reading goes on to ReadyForQuery.     *)
Read ==
    /\ op # Idle /\ wire # <<>> /\ wire' = Tail(wire)
    /\ \/ /\ Head(wire)[1] = "D" /\ op' = [op EXCEPT ![3] = @ \cup {Head(wire)[2]}]
          /\ UNCHANGED <<txn, txn_status, requests, log, closure, result>>
       \/ /\ Head(wire)[1] = "E" /\ op' = [op EXCEPT ![2] = TRUE]
          /\ UNCHANGED <<txn, txn_status, requests, log, closure, result>>
       \/ Head(wire)[1] = "C" /\ UNCHANGED <<op, txn, txn_status, requests, log, closure, result>>
       \/ Head(wire)[1] = "Z" /\ txn_status' = Head(wire)[2] /\ Return(op[2])
    /\ UNCHANGED <<handshake, srv, held, db, number, timeouts>>

(* read_message returns Err: what is on its way is left in the stream.     *)
ReadTimesOut ==
    /\ op # Idle /\ wire = <<>> /\ timeouts < MaxTimeouts /\ timeouts' = timeouts + 1
    /\ Return(TRUE)
    /\ UNCHANGED <<handshake, txn_status, wire, srv, held, db, number>>
-----------------------------------------------------------------------------
(* The server: any statement may fail, which fails its transaction; COMMIT *)
(* of a failed transaction rolls back, and is answered like any other.     *)
Answer(request, ok, status) ==
    /\ requests' = Tail(requests) /\ srv' = status
    /\ wire' = wire \o (IF ok THEN IF request[1] = "run" THEN <<<<"D", request[2]>>, <<"C">>>> ELSE <<<<"C">>>>
                        ELSE <<<<"E">>>>) \o <<<<"Z", status>>>>

ServerRuns ==
    /\ requests # <<>>
    /\ LET r == Head(requests)
       IN  \/ /\ r[1] = "run" /\ srv # "E" /\ Answer(r, TRUE, srv)
              /\ IF srv = "I" THEN db' = db \cup {r[2]} /\ UNCHANGED held
                              ELSE held' = held \cup {r[2]} /\ UNCHANGED db
           \/ /\ r[1] = "run" /\ Answer(r, FALSE, IF srv = "I" THEN "I" ELSE "E") /\ UNCHANGED <<held, db>>
           \/ /\ r[1] = "begin" /\ UNCHANGED <<held, db>>
              /\ IF srv = "E" THEN Answer(r, FALSE, "E") ELSE Answer(r, TRUE, "T")
           \/ r[1] = "commit" /\ Answer(r, TRUE, "I") /\ held' = {} /\ db' = IF srv = "T" THEN db \cup held ELSE db
           \/ r[1] = "commit" /\ srv = "T" /\ Answer(r, FALSE, "I") /\ held' = {} /\ UNCHANGED db
           \/ r[1] = "rollback" /\ Answer(r, TRUE, "I") /\ held' = {} /\ UNCHANGED db
    /\ UNCHANGED <<handshake, op, txn, txn_status, number, timeouts, log, closure, result>>

PgNext ==
    \/ \E answer \in {"S", "N", "?"} : NegotiateTls(answer)
    \/ \E tag \in {"R", "E", "Z"}, type \in {0, 3, 5, 10, 11, 12} : Authenticate(tag, type)
    \/ \E tag \in {"S", "E", "Z"} : Synchronise(tag)
    \/ ConnectFails
    \/ \E kind \in {"begin", "commit", "rollback"} : Command(kind)
    \/ Statement \/ Begin \/ Read \/ ReadTimesOut \/ ServerRuns
    \/ \E ok \in BOOLEAN : BodyReturns(ok)

PgSpec == PgInit /\ [][PgNext]_pgVars
-----------------------------------------------------------------------------
PgTypeOK ==
    /\ phase \in {"ssl", "auth", "continue", "final", "result", "sync", "up", "failed"}
    /\ txn \in {"none", "begin", "body", "commit", "rollback"}
    /\ {txn_status, srv} \subseteq {"I", "T", "E"} /\ heard <= MaxMessages
    /\ held \cup db \cup closure \subseteq 1..number

(* mesh_pg_connect: a connection is up only after the server has granted   *)
(* it, whichever way it asked, and over TLS if TLS was required.           *)
UpIsEntitled == phase = "up" => entitled /\ (mode = "require" => tls)

(* mesh_pg_query: until a read has given up, what a statement returns is   *)
(* its own answer, whatever the statements before it have failed with.     *)
AnswersMatch ==
    timeouts = 0 => \A k \in 1..Len(log) : log[k][3] = IF log[k][2] THEN {} ELSE {log[k][1]}

(* The pool rolls back by txn_status: between statements it is the status  *)
(* of the server, until a read has given up.                               *)
StatusIsServers == timeouts = 0 /\ op = Idle => txn_status = srv

(* mesh_pg_transaction: one that returns Err has left nothing behind,      *)
(* until a read has given up.                                              *)
ErrLeavesNothing ==
    timeouts = 0 /\ txn = "none" /\ op = Idle /\ result # <<>> /\ result[1] = "err"
    => result[2] \cap db = {}

(* What a program may count on while no read has given up.                 *)
StatementsAnswered == PgTypeOK /\ UpIsEntitled /\ AnswersMatch /\ StatusIsServers /\ ErrLeavesNothing

(* mesh_pg_transaction: "On Ok result from closure: COMMIT.  If COMMIT     *)
(* fails, ROLLBACK and return Err."                                        *)
OkIsCommitted == result # <<>> /\ result[1] = "ok" => result[2] \subseteq db
=============================================================================
