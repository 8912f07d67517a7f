-------------------------------- MODULE Http ---------------------------------
(***************************************************************************)
(* The HTTP server of mongoose (mg_http.c in mongoose.c) with the handler  *)
(* of stdlib/simpleweb, on one connection: requests are cut out of what    *)
(* has been received, and handed to a function written in BearLang.        *)
(*                                                                         *)
(* A request is <<"h", r>> (the first part of its head), <<"e", r>> (the   *)
(* rest, with the empty line), then its body; a chunk of a chunked body is *)
(* <<"s", n>> (the size line), n units and <<"z">> (the newline).          *)
(***************************************************************************)
EXTENDS Websocket

CONSTANTS
  Request,     (* Request[r]: post, length (Content-Length or NoLength),   *)
               (* chunked, upgrade (Sec-WebSocket-Key), page (whether the  *)
               (* function answers with html_response)                     *)
  MaxRequest   (* MG_MAX_HTTP_REQUEST_SIZE, in units                       *)

NoLength == 999   (* (size_t) ~0                                           *)

(* -1: malformed; 0: no empty line yet; otherwise the length of the head.  *)
mg_http_get_request_len(buf) ==
  LET stops == {i \in 1..Len(buf) : buf[i][1] \in {"e", "bad"}}
      first == CHOOSE i \in stops : \A j \in stops : i <= j
  IN  IF stops = {} THEN 0 ELSE IF buf[first][1] = "bad" THEN 0 - 1 ELSE first

(* The head at the front of the buffer, len units of it.  What stands      *)
(* before a request line is taken for a part of the method.                *)
mg_parse_http(buf, len) ==
  LET r == buf[len][2]
      post == Request[r].post /\ len = 2
  IN  [r |-> r,
       message |-> CASE Request[r].length # NoLength -> len + Request[r].length
                     [] post -> NoLength
                     [] OTHER -> len]

(* The length of the chunk at the front of s if all of it is there, or 0.  *)
mg_http_parse_chunk(s) ==
  IF Len(s) > 0 /\ s[1][1] = "s" /\ s[1][2] + 2 <= Len(s) /\ s[s[1][2] + 2][1] = "z"
  THEN s[1][2] + 2 ELSE 0

(* The chunks of buf from each place on: where the one that ends them, a   *)
(* zero chunk or an incomplete one, ends; which of the two it is; and the  *)
(* data of those before it.                                                *)
Chunks(buf) ==
  LET n(p) == mg_http_parse_chunk(SubSeq(buf, p + 1, Len(buf)))
      from[p \in 0..Len(buf)] ==
        IF n(p) \in {0, 2} THEN [end |-> p + n(p), zero |-> n(p) = 2, data |-> <<>>]
        ELSE [from[p + n(p)] EXCEPT !.data = SubSeq(buf, p + 2, p + n(p) - 1) \o @]
  IN  from

(* mg_handle_chunked: the chunks behind what was collapsed before are      *)
(* collapsed to their data.  A zero chunk fixes the length of the message, *)
(* which then ends where the buffer does.                                  *)
mg_handle_chunked(c, head, message) ==
  LET buf == SubSeq(c.recv, head + 1, Len(c.recv))
      new == Chunks(buf)[c.chunk]
      body == SubSeq(buf, 1, c.chunk) \o new.data
      recv == SubSeq(c.recv, 1, head) \o body \o SubSeq(buf, new.end + 1, Len(buf))
  IN  IF Len(buf) < c.chunk THEN [c |-> [c EXCEPT !.err = "assert"], message |-> message]
      ELSE IF new.end = Len(body) THEN [c |-> c, message |-> message]
      ELSE [c |-> [c EXCEPT !.recv = recv, !.chunk = Len(body)],
            message |-> IF new.zero THEN Len(recv) ELSE message]

-----------------------------------------------------------------------------
(* ev_handler of simpleweb: the function is called with the request, and   *)
(* what it answers is taken for an html_response without a look at its     *)
(* type.                                                                   *)
ev_handler(c, r, body, when) ==
  LET called == mg_call(c, <<"request", r, body, when>>)
  IN  IF Request[r].page
      THEN mg_send(called, <<<<"200", r>>, <<"page", r>>>>)
      ELSE [called EXCEPT !.err = "reply"]

(* deliver_chunk, then the handler: the body is whatever is in the buffer  *)
(* behind the head.                                                        *)
CallHandler(c, head, r, when) == ev_handler(c, r, SubSeq(c.recv, head + 1, Len(c.recv)), when)

(* The switch to websockets.  An answer already in the buffer is taken for *)
(* the handler's own, and no handshake is sent.                            *)
Upgrade(c, head) ==
  LET d == [c EXCEPT !.recv = mbuf_remove(@, head), !.proto = "ws"]
  IN  IF d.flags # {} THEN d
      ELSE WsRecv(IF d.send = <<>> THEN mg_send(d, <<<<"101">>>>) ELSE d)

(* Mutant: the request stays in the buffer.                                *)
HandledKept(c, head, hm) == [CallHandler(c, head, hm.r, "recv") EXCEPT !.rcvd = 0]

(* The whole message is there.                                             *)
Handled(c, head, hm) ==
  [CallHandler(c, head, hm.r, "recv") EXCEPT !.recv = mbuf_remove(@, hm.message), !.rcvd = 0]

(* MG_EV_RECV in mg_http_handler, n units having been appended.            *)
HttpRecv(c, n) ==
  LET counted == [c EXCEPT !.rcvd = @ + n]
      len == mg_http_get_request_len(c.recv)
      hm == mg_parse_http(c.recv, len)
      ch == mg_handle_chunked(counted, len, hm.message)
      chunked == len > 0 /\ Request[hm.r].chunked
      d == IF chunked THEN ch.c ELSE counted
      m == [r |-> hm.r, message |-> IF chunked THEN ch.message ELSE hm.message]
  IN  IF len < 0 \/ (len = 0 /\ Len(c.recv) >= MaxRequest) THEN Flagged(counted, "close_immediately")
      ELSE IF len = 0 \/ d.err # "none" THEN d
      ELSE IF Request[m.r].upgrade THEN Upgrade(d, len)
      ELSE IF m.message > d.rcvd THEN d
      ELSE Handled(d, len, m)

(* MG_EV_CLOSE in mg_http_handler: a head still in the buffer is handed    *)
(* over, with as much of its body as there is.                             *)
HttpClose(c) ==
  LET len == mg_http_get_request_len(c.recv)
  IN  [(IF len > 0 THEN CallHandler(c, len, c.recv[len][2], "close") ELSE c) EXCEPT !.rcvd = 0]
=============================================================================
