----------------------------- MODULE Websocket -------------------------------
(***************************************************************************)
(* What one connection of mongoose does with its buffers: the mbuf         *)
(* operations, and the websocket half of the protocol                      *)
(* (mg_http_websocket.c in the amalgamated mongoose.c).                    *)
(*                                                                         *)
(* Everything here runs inside one event of one connection, so it is a     *)
(* function of the connection's state.  Buffers hold units: a frame is     *)
(* the unit <<"f", op, fin>> (its first byte), the unit <<"l", n>> (the    *)
(* rest of its header, with length and mask) and n units of payload.       *)
(***************************************************************************)
EXTENDS Integers, Sequences, SequencesExt

(* struct mg_connection, as far as a TCP server uses it.                   *)
NewConnection ==
  [recv |-> <<>>,      (* recv_mbuf                                        *)
   send |-> <<>>,      (* send_mbuf                                        *)
   flags |-> {},       (* MG_F_SEND_AND_CLOSE, MG_F_CLOSE_IMMEDIATELY      *)
   proto |-> "http",   (* proto_handler: mg_http_handler or mg_ws_handler  *)
   rcvd |-> 0,         (* mg_http_proto_data.rcvd                          *)
   chunk |-> 0,        (* mg_http_proto_data.chunk.body_len                *)
   reass |-> 0,        (* mg_ws_proto_data.reass_len                       *)
   log |-> <<>>,       (* history: what the user's handler was called with *)
   err |-> "none"]     (* what ended the process in this handler, if       *)
                       (* anything did                                     *)

mbuf_remove(b, n) == IF n > 0 /\ n <= Len(b) THEN SubSeq(b, n + 1, Len(b)) ELSE b

mg_send(c, units) == [c EXCEPT !.send = @ \o units]

Flagged(c, f) == [c EXCEPT !.flags = @ \cup {f}]

(* mg_call of the user's handler with an event it is known to get.         *)
mg_call(c, event) == [c EXCEPT !.log = Append(@, event)]

ControlOps == {"close", "ping", "pong"}

mg_send_websocket_frame(c, op, data) ==
  LET sent == mg_send(c, <<<<"f", op, TRUE>>, <<"l", Len(data)>>>> \o data)
  IN  IF op = "close" THEN Flagged(sent, "send_and_close") ELSE sent

mg_ws_close(c, data) ==
  Flagged(mg_send_websocket_frame(c, "close", data), "send_and_close")

(* Mutant: a frame in the middle of a fragmented message is not looked for *)
(* behind the part already reassembled.                                    *)
DataFromStart(c) == c.recv

(* The data behind what has been reassembled so far.                       *)
NewData(c) == SubSeq(c.recv, c.reass + 1, Len(c.recv))

(* The message reassembled in the first len units of the buffer.           *)
Reassembled(c, len) == <<"frame", c.recv[1][2], SubSeq(c.recv, 2, len)>>

(* One fragment: its header is cut out, so that its payload follows what   *)
(* was collected before; the first one keeps its first byte, the opcode.   *)
(* The last one hands over the message.                                    *)
Fragment(c, new, size) ==
  LET first == new[1][2] # "cont"
      head == IF first THEN <<new[1]>> ELSE <<>>
      kept == SubSeq(c.recv, 1, c.reass) \o head
      len == (IF first THEN 1 ELSE c.reass) + size
      d == [c EXCEPT !.recv = kept \o SubSeq(new, 3, Len(new)), !.reass = len]
  IN  IF new[1][3]
      THEN LET m == mg_call([d EXCEPT !.reass = 0], Reassembled(d, len))
           IN  [m EXCEPT !.recv = mbuf_remove(@, len)]
      ELSE d

(* A complete frame, possibly between two fragments of a message.          *)
Whole(c, new, size) ==
  LET op == new[1][2]
      data == SubSeq(new, 3, 2 + size)
      reply == CASE op = "ping" -> mg_send_websocket_frame(c, "pong", data)
                 [] op = "close" -> mg_ws_close(c, data)
                 [] OTHER -> c
      event == <<IF op \in ControlOps THEN "control" ELSE "frame", op, data>>
  IN  [mg_call(reply, event) EXCEPT
         !.recv = SubSeq(c.recv, 1, c.reass) \o SubSeq(new, 3 + size, Len(new))]

(* mg_deliver_websocket_data: at most one frame; ok says that one was      *)
(* there.                                                                  *)
mg_deliver_websocket_data(c) ==
  LET new == NewData(c)
      n == Len(new)
      fragment == n > 0 /\ (~ new[1][3] \/ new[1][2] = "cont")
      control == n > 0 /\ new[1][2] \in ControlOps
      size == IF n >= 2 /\ new[2][1] = "l" THEN new[2][2] ELSE 0
  IN  IF fragment /\ control
      THEN [ok |-> FALSE, c |-> mg_ws_close(c, <<>>)]
      ELSE IF n > 0 /\ ~ fragment /\ ~ control /\ c.reass > 0
      THEN [ok |-> FALSE, c |-> mg_ws_close(c, <<>>)]
      ELSE IF n < 2 \/ 2 + size > n
      THEN [ok |-> FALSE, c |-> c]
      ELSE [ok |-> TRUE, c |-> IF fragment THEN Fragment(c, new, size) ELSE Whole(c, new, size)]

(* MG_EV_RECV in mg_ws_handler: frames are delivered as long as there are  *)
(* whole ones, of two units at least.                                      *)
WsRecv(c) ==
  LET frames == Len(c.recv) \div 2 + 1
      run[i \in 0..frames] ==
        IF i = 0 THEN [ok |-> TRUE, c |-> c]
        ELSE LET before == run[i - 1]
             IN  IF before.ok THEN mg_deliver_websocket_data(before.c) ELSE before
  IN  run[frames].c

(* MG_EV_POLL in mg_ws_handler, when nothing was sent or received for      *)
(* MG_WEBSOCKET_PING_INTERVAL_SECONDS.                                     *)
WsPing(c) == mg_send_websocket_frame(c, "ping", <<>>)

-----------------------------------------------------------------------------
(* The messages and control frames a stream of frames means, as RFC 6455   *)
(* has it: the reference the server is compared with.  A stream is read    *)
(* frame by frame; open is the message being collected.                    *)
Meaning(stream) ==
  LET step(s, i) ==
        LET n == stream[i + 1][2]
            data == SubSeq(stream, i + 2, i + 1 + n)
            op == stream[i][2]
            fin == stream[i][3]
        IN  CASE op \in ControlOps -> [s EXCEPT !.out = Append(@, <<"control", op, data>>)]
              [] op # "cont" /\ fin -> [s EXCEPT !.out = Append(@, <<"frame", op, data>>)]
              [] op # "cont" /\ ~ fin -> [s EXCEPT !.open = <<op, data>>]
              [] op = "cont" /\ fin ->
                   [out |-> Append(s.out, <<"frame", s.open[1], s.open[2] \o data>>), open |-> <<>>]
              [] OTHER -> [s EXCEPT !.open = <<@[1], @[2] \o data>>]
      whole(i) == /\ stream[i][1] = "f"
                  /\ i < Len(stream) /\ i + 1 + stream[i + 1][2] <= Len(stream)
      starts == SelectSeq([i \in 1..Len(stream) |-> i], whole)
  IN  FoldLeft(LAMBDA s, i : step(s, i), [out |-> <<>>, open |-> <<>>], starts).out
=============================================================================
