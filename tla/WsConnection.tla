---------------------------- MODULE WsConnection ----------------------------
(* One WebSocket connection (ws/server.rs): the actor that runs the        *)
(* callbacks and the thread that reads frames for it.  They share the      *)
(* mailbox of the actor and the shutdown flag.                             *)
EXTENDS Naturals, Sequences, SequencesExt

CONSTANTS Limit,      \* max_message_size, in frames of one unit
          MaxFrames,  \* bound: frames of the client
          MaxPings    \* bound: heartbeats

ASSUME WsAssumption == Limit \in Nat \ {0} /\ MaxFrames \in Nat /\ MaxPings \in Nat

VARIABLES sent,     \* the frames of the client that the reader has read
          reader,   \* none, top, read or done
          frag,     \* FragmentState: the frames of the message being assembled
          pings,    \* heartbeats sent; the payload of a ping is its number
          pending,  \* pending_ping_payload, 0 for none
          actor,    \* new, open, crashed, leaving or freed
          box,      \* the mailbox of the actor
          stopped,  \* the shutdown flag
          told,     \* the callbacks that were called, in order
          closes    \* codes of the close frames sent

wsVars == <<sent, reader, frag, pings, pending, actor, box, stopped, told, closes>>
readerVars == <<sent, reader, frag, pings, pending>>
actorVars == <<actor, told, stopped>>

Data == [op : {"text", "cont"}, fin : BOOLEAN, valid : {TRUE}]
Garbled == [op : {"text", "binary"}, fin : {TRUE}, valid : {FALSE}]
Ping == [op |-> "ping"]
Close == [op |-> "close"]
Pong(n) == [op |-> "pong", of |-> n]
IsData(f) == f.op \in {"text", "binary", "cont"}

WsInit ==
    /\ sent = <<>> /\ reader = "none" /\ frag = <<>> /\ pings = 0 /\ pending = 0
    /\ actor = "new" /\ box = <<>> /\ stopped = FALSE /\ told = <<>> /\ closes = <<>>

(* call_on_connect, and what follows its answer.                           *)
Accept ==
    /\ actor = "new" /\ actor' = "open" /\ reader' = "top"
    /\ told' = <<<<"connect">>>>
    /\ UNCHANGED <<sent, frag, pings, pending, box, stopped, closes>>

Reject ==
    /\ actor = "new" /\ actor' = "freed" /\ stopped' = TRUE
    /\ told' = <<<<"connect">>>> /\ closes' = <<1008>>
    /\ UNCHANGED <<readerVars, box>>
-----------------------------------------------------------------------------
(* reader_thread_loop                                                      *)
push_disconnect == box' = Append(box, <<"disconnect">>)

(* The reader closes the connection with `code` and ends.                  *)
EndWith(code) ==
    /\ reader' = "done" /\ closes' = Append(closes, code) /\ push_disconnect

ReaderStops ==
    /\ reader = "top" /\ stopped /\ reader' = "done"
    /\ UNCHANGED <<sent, frag, pings, pending, actorVars, box, closes>>

PongOverdue ==
    /\ reader = "top" /\ ~stopped /\ pending # 0
    /\ EndWith(1001)
    /\ UNCHANGED <<sent, frag, pings, pending, actorVars>>

(* No ping is due while one is pending: ping_interval exceeds pong_timeout.*)
SendPing ==
    /\ reader = "top" /\ ~stopped /\ pending = 0 /\ pings < MaxPings
    /\ pings' = pings + 1 /\ pending' = pings + 1 /\ reader' = "read"
    /\ UNCHANGED <<sent, frag, actorVars, box, closes>>

NothingDue ==
    /\ reader = "top" /\ ~stopped /\ reader' = "read"
    /\ UNCHANGED <<sent, frag, pings, pending, actorVars, box, closes>>

(* read_frame returns `f`: any frame, but the client can answer only pings *)
(* that it was sent.                                                       *)
Frames == Data \cup Garbled \cup {Ping, Close} \cup {Pong(n) : n \in 1..pings}
Takes(f) == reader = "read" /\ Len(sent) < MaxFrames /\ sent' = Append(sent, f)

ReadControl_AnyPong(f) ==
    /\ Takes(f)
    /\ \/ /\ f.op = "pong" /\ reader' = "top"
          /\ UNCHANGED <<box, closes, pending>>
       \/ /\ f.op = "ping" /\ reader' = "top" /\ UNCHANGED <<box, closes, pending>>
       \/ f.op = "close" /\ EndWith(1000) /\ UNCHANGED pending
    /\ UNCHANGED <<frag, pings, actorVars>>

(* A control frame: the fragments assembled so far are left as they are.   *)
ReadControl(f) ==
    /\ Takes(f)
    /\ \/ /\ f.op = "pong" /\ reader' = "top"
          /\ pending' = IF f.of = pending THEN 0 ELSE pending
          /\ UNCHANGED <<box, closes>>
       \/ /\ f.op = "ping" /\ UNCHANGED <<closes, pending>>   \* the pong is written, or is not
          /\ \/ reader' = "top" /\ UNCHANGED box
             \/ reader' = "done" /\ push_disconnect
       \/ f.op = "close" /\ EndWith(1000) /\ UNCHANGED pending
    /\ UNCHANGED <<frag, pings, actorVars>>

reassemble_ForgetsFirst(f) ==
    LET all == Append(frag, Len(sent) + 1)
    IN  IF (f.op = "cont") = (frag = <<>>) THEN <<"ProtocolError">>
        ELSE IF Len(all) > Limit /\ frag # <<>> THEN <<"TooLarge">>
        ELSE IF ~f.fin THEN <<"Accumulating", all>>
        ELSE <<"Complete", IF frag = <<>> THEN all ELSE frag>>

reassemble_NoLimit(f) ==
    LET all == Append(frag, Len(sent) + 1)
    IN  IF (f.op = "cont") = (frag = <<>>) THEN <<"ProtocolError">>
        ELSE IF ~f.fin THEN <<"Accumulating", all>> ELSE <<"Complete", all>>

(* reassemble: what the data frame makes of the message, as frame numbers. *)
reassemble(f) ==
    LET all == Append(frag, Len(sent) + 1)
    IN  IF (f.op = "cont") = (frag = <<>>) THEN <<"ProtocolError">>
        ELSE IF Len(all) > Limit /\ frag # <<>> THEN <<"TooLarge">>
        ELSE IF ~f.fin THEN <<"Accumulating", all>> ELSE <<"Complete", all>>

ReadData_Quietly(f) ==
    /\ Takes(f) /\ IsData(f)
    /\ LET r == reassemble(f)
       IN  \/ /\ r[1] = "Complete" /\ reader' = "top" /\ frag' = <<>> /\ UNCHANGED closes
              /\ box' = Append(box, <<sent'[r[2][1]].op, r[2]>>)
           \/ r[1] = "Accumulating" /\ reader' = "top" /\ frag' = r[2] /\ UNCHANGED <<box, closes>>
           \/ /\ r[1] \in {"TooLarge", "ProtocolError"} /\ frag' = <<>> /\ reader' = "done"
              /\ closes' = Append(closes, 1002) /\ UNCHANGED box
    /\ UNCHANGED <<pings, pending, actorVars>>

(* A data frame; the text is validated when the message is complete.       *)
ReadData(f) ==
    /\ Takes(f) /\ IsData(f)
    /\ LET r == reassemble(f)
       IN  \/ /\ r[1] = "Complete" /\ sent'[r[2][1]].op = "text" /\ frag' = <<>>
              /\ \E k \in DOMAIN r[2] : ~sent'[r[2][k]].valid
              /\ EndWith(1007)
           \/ /\ r[1] = "Complete" /\ frag' = <<>> /\ reader' = "top" /\ UNCHANGED closes
              /\ sent'[r[2][1]].op = "text" => \A k \in DOMAIN r[2] : sent'[r[2][k]].valid
              /\ box' = Append(box, <<sent'[r[2][1]].op, r[2]>>)
           \/ r[1] = "Accumulating" /\ reader' = "top" /\ frag' = r[2] /\ UNCHANGED <<box, closes>>
           \/ r[1] = "TooLarge" /\ frag' = <<>> /\ EndWith(1009)
           \/ /\ r[1] = "ProtocolError" /\ EndWith(1002)
              /\ frag' = <<>>
    /\ UNCHANGED <<pings, pending, actorVars>>

(* read_frame fails: by its timeout, or because the connection has ended.  *)
ReadTimesOut ==
    /\ reader = "read"
    /\ reader' = IF stopped THEN "done" ELSE "top"
    /\ UNCHANGED <<sent, frag, pings, pending, actorVars, box, closes>>

ReadFails ==
    /\ reader = "read"
    /\ reader' = "done"
    /\ IF stopped THEN UNCHANGED box ELSE push_disconnect
    /\ UNCHANGED <<sent, frag, pings, pending, actorVars, closes>>
-----------------------------------------------------------------------------
(* actor_message_loop; on_message returns or panics.                       *)
Receive_ClosesToo ==
    /\ actor = "open" /\ box # <<>> /\ box' = Tail(box)
    /\ \/ /\ Head(box)[1] \in {"text", "binary"}
          /\ told' = Append(told, <<"message", Head(box)[2]>>)
          /\ actor' \in {"open", "crashed"}
       \/ /\ Head(box)[1] = "disconnect" /\ actor' = "leaving"
          /\ told' = Append(told, <<"close", 1000>>)
       \/ Head(box)[1] = "exit" /\ actor' = "leaving" /\ UNCHANGED told
    /\ UNCHANGED <<readerVars, stopped, closes>>

Receive ==
    /\ actor = "open" /\ box # <<>> /\ box' = Tail(box)
    /\ \/ /\ Head(box)[1] \in {"text", "binary"}
          /\ told' = Append(told, <<"message", Head(box)[2]>>)
          /\ actor' \in {"open", "crashed"}
       \/ Head(box)[1] \in {"disconnect", "exit"} /\ actor' = "leaving" /\ UNCHANGED told
    /\ UNCHANGED <<readerVars, stopped, closes>>

(* A linked process ends.                                                  *)
ExitSignal ==
    /\ actor = "open" /\ \A k \in DOMAIN box : box[k][1] # "exit"
    /\ box' = Append(box, <<"exit">>)
    /\ UNCHANGED <<readerVars, actorVars, closes>>

(* The end: the flag for the reader, on_close, and the handle is freed.    *)
Shutdown ==
    /\ actor \in {"leaving", "crashed"} /\ ~stopped /\ stopped' = TRUE
    /\ UNCHANGED <<readerVars, actor, told, box, closes>>

Finish ==
    /\ actor \in {"leaving", "crashed"} /\ stopped /\ actor' = "freed"
    /\ closes' = IF actor = "crashed" THEN Append(closes, 1011) ELSE closes
    /\ told' = Append(told, <<"close", IF actor = "crashed" THEN 1011 ELSE 1000>>)
    /\ UNCHANGED <<readerVars, box, stopped>>

WsNext ==
    \/ Accept \/ Reject
    \/ ReaderStops \/ PongOverdue \/ SendPing \/ NothingDue
    \/ (\E f \in Frames : ReadControl(f) \/ ReadData(f)) \/ ReadTimesOut \/ ReadFails
    \/ Receive \/ ExitSignal \/ Shutdown \/ Finish

WsSpec == WsInit /\ [][WsNext]_wsVars
-----------------------------------------------------------------------------
(* RFC 6455 5.4, by the frames alone: where the message of a data frame    *)
(* begins, and whether a frame is one the protocol allows there.           *)
DataUpTo(k) == {i \in 1..k : IsData(sent[i])}
LastOf(S) == CHOOSE i \in S : \A j \in S : j <= i
OpenAt(k) == DataUpTo(k - 1) # {} /\ ~sent[LastOf(DataUpTo(k - 1))].fin
Begins(k) == LastOf({i \in DataUpTo(k) : sent[i].op # "cont"})
Parts(k) == SetToSortSeq({i \in DataUpTo(k) : i >= Begins(k)}, <)
Legal(k) ==
    /\ sent[k].op # "close"
    /\ IsData(sent[k]) =>
          /\ (sent[k].op = "cont") = OpenAt(k)
          /\ Len(Parts(k)) <= Limit
          /\ sent[k].fin /\ sent[Begins(k)].op = "text" => \A i \in Range(Parts(k)) : sent[i].valid
Messages(n) ==
    LET ends == SetToSortSeq({k \in DataUpTo(n) : sent[k].fin /\ \A i \in 1..k : Legal(i)}, <)
    IN  [i \in DOMAIN ends |-> Parts(ends[i])]

Heard == [i \in DOMAIN SelectSeq(told, LAMBDA t : t[1] = "message") |->
             SelectSeq(told, LAMBDA t : t[1] = "message")[i][2]]
Waiting == [i \in DOMAIN SelectSeq(box, LAMBDA m : Len(m) = 2) |->
             SelectSeq(box, LAMBDA m : Len(m) = 2)[i][2]]

Letters == ({"text", "binary"} \X Seq(Nat)) \cup {<<"disconnect">>, <<"exit">>}
Callbacks == {<<"connect">>} \cup ({"message"} \X Seq(Nat)) \cup ({"close"} \X Nat)

WsTypeOK ==
    /\ sent \in Seq(Frames) /\ Len(sent) <= MaxFrames
    /\ reader \in {"none", "top", "read", "done"} /\ pings \in 0..MaxPings /\ pending \in {0, pings}
    /\ frag \in Seq(1..Len(sent)) /\ Len(frag) <= Limit
    /\ actor \in {"new", "open", "crashed", "leaving", "freed"} /\ stopped \in BOOLEAN
    /\ box \in Seq(Letters) /\ told \in Seq(Callbacks) /\ closes \in Seq(Nat)

(* reassemble: the callbacks receive the messages of the client, complete, *)
(* in order and once each, whatever control frames fall between fragments. *)
WholeMessages == Heard \o Waiting = Messages(Len(sent))

(* push_disconnect: a reader that has ended by itself has left a message   *)
(* that ends the actor, so no connection stays open with nobody reading.   *)
ReaderEndIsTold ==
    reader = "done" /\ actor = "open" => \E k \in DOMAIN box : box[k][1] = "disconnect"

(* ws_connection_entry: on_close is called at most once, after everything  *)
(* else, and always before the handle of an accepted connection is freed.  *)
CloseEndsIt ==
    /\ \A k \in DOMAIN told : told[k][1] = "close" => k = Len(told)
    /\ actor = "freed" /\ reader # "none" => told[Len(told)][1] = "close"

(* HeartbeatState: a client whose pong to the last ping was read is not    *)
(* closed for a missing pong.                                              *)
LiveClientKept ==
    1001 \in Range(closes) => \A k \in 1..Len(sent) : sent[k] # Pong(pings)
-----------------------------------------------------------------------------
(* reassemble: callbacks receive the messages of the client whole and once.  *)
ConversationIsWhole == WsTypeOK /\ WholeMessages

(* ws_connection_entry: a reader that ends by itself ends the actor too,     *)
(* on_close comes last, and a client that answers its ping is kept.          *)
ConversationEnds == ReaderEndIsTold /\ CloseEndsIt /\ LiveClientKept
=============================================================================
