--------------------------------- MODULE Web ---------------------------------
(***************************************************************************)
(* (serve port handler) of stdlib/simpleweb: mongoose's connection manager *)
(* with the select interface (mg_net.c and mg_net_if_socket.c in           *)
(* mongoose.c), serving HTTP and websockets (Http, Websocket).             *)
(*                                                                         *)
(* One thread runs mg_mgr_poll for ever.  A poll asks select which sockets *)
(* are ready, handles every connection in the order of the list of active  *)
(* ones, then closes those that are to be closed.  Clients connect, send,  *)
(* read, shut down and vanish at any moment in between; what they have     *)
(* sent arrives in pieces of any length.                                   *)
(***************************************************************************)
EXTENDS Http, FiniteSets

CONSTANTS
  Clients,
  Scripts,     (* what the clients may send: functions from Clients to     *)
               (* sequences of units; one with nothing to send stays away  *)
  Vanishing,   (* the clients that may drop their connection               *)
  RecvSize,    (* MG_TCP_RECV_BUFFER_SIZE, in units                        *)
  MaxPings     (* bound: pings sent to an idle websocket                   *)

Listener == "listener"
End == "end"

ASSUME WebAssumption ==
  /\ RecvSize \in Nat \ {0} /\ MaxPings \in Nat
  /\ Clients \cap {Listener, End} = {}

(* What is sent is made of units whose lengths are numbers.                *)
Units == UNION {ToSet(s[k]) : s \in Scripts, k \in Clients}

ASSUME ScriptsAssumption ==
  /\ \A s \in Scripts, k \in Clients : s[k] \in Seq(Units)
  /\ \A u \in Units : u[1] \in {"l", "s"} => u[2] \in Nat
  /\ \A u \in Units : u[1] = "e" => Request[u[2]].length \in Nat

NotReady == 0 - 1   (* no read from this socket in this poll             *)

VARIABLES
  up,      (* "starting", "polling", or what ended the process             *)
  list,    (* mgr.active_connections                                       *)
  conn,    (* the connections: a function on the clients in list           *)
  phase,   (* "select", "handle" or "sweep"                                *)
  cursor,  (* the connection the loop of this phase comes to next          *)
  ready,   (* what select returned: sockets to read, sockets to write      *)
  peer,    (* the other side: what it has still to send, what has arrived  *)
           (* and was not read, its state, and what was sent to it         *)
  pings,   (* history: pings sent to each client                           *)
  handled  (* history: what the handlers of closed connections were given  *)

netVars == <<up, list, conn, phase, cursor, ready>>
vars == <<netVars, peer, pings, handled>>

Nobody == [r |-> {}, w |-> {}]

Init ==
  /\ up = "starting" /\ list = <<>> /\ conn = <<>>
  /\ phase = "select" /\ cursor = End /\ ready = Nobody
  /\ \E s \in Scripts :
       peer = [k \in Clients |-> [script |-> s[k], todo |-> s[k], wire |-> <<>>, st |-> "out", got |-> <<>>]]
  /\ pings = [k \in Clients |-> 0]
  /\ handled = [k \in Clients |-> <<>>]

(* bl_serve: mg_mgr_init, mg_bind and mg_set_protocol_http_websocket.  A   *)
(* port that cannot be bound makes mg_bind return NULL, which is written   *)
(* through.                                                                *)
bl_serve ==
  /\ up = "starting"
  /\ \/ up' = "polling" /\ list' = <<Listener>>
     \/ up' = "no listener" /\ UNCHANGED list
  /\ UNCHANGED <<conn, phase, cursor, ready, peer, pings, handled>>

-----------------------------------------------------------------------------
(* The clients.                                                            *)
Connected(k) == k \in DOMAIN conn

Connect(k) ==
  /\ up = "polling" /\ peer[k].st = "out" /\ peer[k].todo # <<>>
  /\ peer' = [peer EXCEPT ![k].st = "waiting"]
  /\ UNCHANGED <<netVars, pings, handled>>

(* One more unit arrives at the server's socket.                           *)
Send(k) ==
  /\ peer[k].st = "open" /\ peer[k].todo # <<>>
  /\ peer' = [peer EXCEPT ![k].todo = Tail(@), ![k].wire = Append(@, peer[k].todo[1])]
  /\ UNCHANGED <<netVars, pings, handled>>

(* An orderly shutdown, when everything has been sent.                     *)
Shutdown(k) ==
  /\ peer[k].st = "open" /\ peer[k].todo = <<>>
  /\ peer' = [peer EXCEPT ![k].st = "shut"]
  /\ UNCHANGED <<netVars, pings, handled>>

(* The connection breaks; units that have not been read are lost.          *)
Vanish(k) ==
  /\ k \in Vanishing /\ peer[k].st = "open"
  /\ peer' = [peer EXCEPT ![k].st = "reset", ![k].todo = <<>>, ![k].wire = <<>>]
  /\ UNCHANGED <<netVars, pings, handled>>

-----------------------------------------------------------------------------
PlaceOf(x) == CHOOSE j \in 1..Len(list) : list[j] = x

(* The connection after x in the list.                                     *)
NextOf(x) == IF PlaceOf(x) < Len(list) THEN list[PlaceOf(x) + 1] ELSE End

(* mg_remove_conn.                                                         *)
Without(x) == SubSeq(list, 1, PlaceOf(x) - 1) \o SubSeq(list, PlaceOf(x) + 1, Len(list))

FirstOf(l) == IF l = <<>> THEN End ELSE l[1]

(* There are units to read, or the end of them.                            *)
Readable(k) == peer[k].wire # <<>> \/ peer[k].st \in {"shut", "reset"}

(* mg_socket_if_poll up to the return of select: the sockets that can be   *)
(* read from (units, or the end of them) or accepted from, and those of    *)
(* the connections with something to send; clients read what they are sent.*)
Select ==
  /\ up = "polling" /\ phase = "select"
  /\ ready' =
       [r |-> {k \in DOMAIN conn : Readable(k)}
                \cup {x \in {Listener} : \E k \in Clients : peer[k].st = "waiting"},
        w |-> {k \in DOMAIN conn : conn[k].send # <<>>}]
  /\ phase' = "handle" /\ cursor' = FirstOf(list)
  /\ UNCHANGED <<up, list, conn, peer, pings, handled>>

(* mg_accept_conn for one of the waiting clients: the new connection is    *)
(* put in front of the list, so this poll does not come to it.             *)
Accept ==
  /\ up = "polling" /\ phase = "handle" /\ cursor = Listener
  /\ Listener \in ready.r
  /\ \E k \in Clients :
       /\ peer[k].st = "waiting"
       /\ peer' = [peer EXCEPT ![k].st = "open"]
       /\ conn' = [x \in DOMAIN conn \cup {k} |-> IF x = k THEN NewConnection ELSE conn[x]]
       /\ list' = <<k>> \o list
  /\ cursor' = NextOf(Listener)
  /\ UNCHANGED <<up, phase, ready, pings, handled>>

NothingToAccept ==
  /\ up = "polling" /\ phase = "handle" /\ cursor = Listener
  /\ Listener \notin ready.r
  /\ cursor' = NextOf(Listener)
  /\ UNCHANGED <<up, list, conn, phase, ready, peer, pings, handled>>

(* mg_if_recv_tcp_cb: n units appended, and the protocol handler called.   *)
mg_recv_common(c, units) ==
  LET d == [c EXCEPT !.recv = @ \o units]
  IN  IF "close_immediately" \in c.flags THEN c
      ELSE IF c.proto = "ws" THEN WsRecv(d) ELSE HttpRecv(d, Len(units))

(* Mutant: the end of the stream closes the connection at once.            *)
TcpReadCloses(k, n) ==
  CASE n > 0 -> mg_recv_common(conn[k], SubSeq(peer[k].wire, 1, n))
    [] n = 0 -> Flagged(conn[k], "close_immediately")
    [] n = NotReady -> conn[k]

(* mg_handle_tcp_read: n units, or the end of the stream, or an error.     *)
mg_handle_tcp_read(k, n) ==
  CASE n > 0 -> mg_recv_common(conn[k], SubSeq(peer[k].wire, 1, n))
    [] n = 0 /\ peer[k].st = "shut" -> Flagged(conn[k], "send_and_close")
    [] n = 0 /\ peer[k].st = "reset" -> Flagged(conn[k], "close_immediately")
    [] n = NotReady -> conn[k]

(* What recv returns for k: a number of units; 0 for the end or an error.  *)
Received(k) ==
  IF k \notin ready.r THEN NotReady
  ELSE IF Len(peer[k].wire) < RecvSize THEN Len(peer[k].wire) ELSE RecvSize

(* mg_if_sent_cb after n units were written.                               *)
mg_if_sent_cb(c, n) == [c EXCEPT !.send = mbuf_remove(@, n)]

(* mg_mgr_handle_conn for the connection of client k: it is read from,     *)
(* then written to unless the reading ended it, then gets MG_EV_POLL.      *)
mg_mgr_handle_conn(k) ==
  LET n == Received(k)
      c == mg_handle_tcp_read(k, n)
      writes == k \in ready.w /\ "close_immediately" \notin c.flags
      wire == mbuf_remove(peer[k].wire, n)
      idle == c.proto = "ws" /\ n = NotReady /\ pings[k] < MaxPings
  IN  /\ cursor' = NextOf(k)
      /\ \/ /\ c.err # "none"
            /\ up' = c.err /\ conn' = [conn EXCEPT ![k] = c]
            /\ UNCHANGED <<peer, pings>>
         \/ /\ c.err = "none" /\ writes /\ peer[k].st = "reset"
            /\ conn' = [conn EXCEPT ![k] = Flagged(c, "close_immediately")]
            /\ UNCHANGED <<up, peer, pings>>
         \/ /\ c.err = "none" /\ ~ (writes /\ peer[k].st = "reset")
            /\ \E m \in IF writes THEN 1..Len(c.send) ELSE {0}, ping \in {FALSE, idle} :
                 LET d == mg_if_sent_cb(c, m)
                 IN  /\ conn' = [conn EXCEPT ![k] = IF ping THEN WsPing(d) ELSE d]
                     /\ peer' = [peer EXCEPT ![k].wire = wire,
                                             ![k].got = @ \o SubSeq(c.send, 1, m)]
                     /\ pings' = [pings EXCEPT ![k] = @ + (IF ping THEN 1 ELSE 0)]
            /\ UNCHANGED up
      /\ UNCHANGED <<list, phase, ready, handled>>

Handle ==
  /\ up = "polling" /\ phase = "handle" /\ cursor \in Clients
  /\ mg_mgr_handle_conn(cursor)

HandledAll ==
  /\ up = "polling" /\ phase = "handle" /\ cursor = End
  /\ phase' = "sweep" /\ cursor' = FirstOf(list)
  /\ UNCHANGED <<up, list, conn, ready, peer, pings, handled>>

(* The connection does not survive this poll.                              *)
ToClose(c) ==
  "close_immediately" \in c.flags \/ (c.send = <<>> /\ "send_and_close" \in c.flags)

(* mg_close_conn: out of the list, socket closed, MG_EV_CLOSE, freed.      *)
mg_close_conn(k) ==
  LET c == IF conn[k].proto = "ws" THEN conn[k] ELSE HttpClose(conn[k])
  IN  /\ list' = Without(k)
      /\ conn' = [x \in DOMAIN conn \ {k} |-> conn[x]]
      /\ handled' = [handled EXCEPT ![k] = c.log]
      /\ up' = IF c.err = "none" THEN up ELSE c.err
      /\ peer' = [peer EXCEPT ![k].st = "closed", ![k].todo = <<>>, ![k].wire = <<>>]

(* Mutant: the next connection is read from the one just freed.            *)
StepAfter(x) == IF x # Listener /\ ToClose(conn[x]) THEN x ELSE NextOf(x)

(* tmp = nc->next, read before nc is closed.                               *)
StepBefore(x) == NextOf(x)

Sweep ==
  /\ up = "polling" /\ phase = "sweep" /\ cursor # End
  /\ cursor' = StepBefore(cursor)
  /\ IF cursor # Listener /\ ToClose(conn[cursor])
     THEN mg_close_conn(cursor)
     ELSE UNCHANGED <<up, list, conn, peer, handled>>
  /\ UNCHANGED <<phase, ready, pings>>

PollEnds ==
  /\ up = "polling" /\ phase = "sweep" /\ cursor = End
  /\ phase' = "select" /\ ready' = Nobody
  /\ UNCHANGED <<up, list, conn, cursor, peer, pings, handled>>

Poll == Select \/ Accept \/ NothingToAccept \/ Handle \/ HandledAll \/ Sweep \/ PollEnds

Next ==
  \/ bl_serve
  \/ Poll
  \/ \E k \in Clients : Connect(k) \/ Send(k) \/ Shutdown(k) \/ Vanish(k)

(* serve polls for ever: the loop, which alone changes loop, goes on.  And *)
(* what a client has begun to send arrives.                                *)
loop == <<phase, cursor>>
GoesOn ==
  /\ up = "polling"
  /\ phase' \in {"select", "handle", "sweep"} /\ cursor' \in Clients \cup {Listener, End}
Fairness == WF_loop(GoesOn) /\ \A k \in Clients : WF_vars(Send(k))

Spec == Init /\ [][Next]_vars /\ Fairness

-----------------------------------------------------------------------------
Log(k) == IF Connected(k) THEN conn[k].log ELSE handled[k]

TypeOK ==
  /\ up \in {"starting", "polling", "no listener", "assert", "reply"}
  /\ ToSet(list) \subseteq Clients \cup {Listener} /\ DOMAIN conn = ToSet(list) \ {Listener}
  /\ phase \in {"select", "handle", "sweep"}
  /\ ready.r \subseteq Clients \cup {Listener} /\ ready.w \subseteq Clients

(* The loops of mg_socket_if_poll read nc->next before they handle nc      *)
(* (mongoose.c:3858, 3863): whatever the handlers do, the connection they  *)
(* go on with is still in the list, which holds each connection once and   *)
(* the listener always.                                                    *)
LoopStaysInList ==
  /\ TypeOK
  /\ cursor # End => cursor \in ToSet(list)
  /\ up = "polling" => Listener \in ToSet(list)
  /\ Cardinality(ToSet(list)) = Len(list)

(* What keeps the loop in the list: the sockets that are connected are     *)
(* those in the list (an accepted one was not in it before), nothing is    *)
(* listed until the listener is, and a handler that fails says why.  What  *)
(* was reassembled of a message is still in the buffer it is cut from      *)
(* (reass_len in mg_deliver_websocket_data), and nothing is, before the    *)
(* switch to websockets.                                                   *)
ConnectedListed ==
  \A k \in Clients :
    /\ {"st", "todo", "wire"} \subseteq DOMAIN peer[k]
    /\ peer[k].todo \in Seq(Units) /\ peer[k].wire \in Seq(Units)
    /\ k \in ToSet(list) <=> peer[k].st \in {"open", "shut", "reset"}

NotListedBefore == up \in {"starting", "no listener"} => list = <<>> /\ phase = "select"

(* What select found readable stays so until the loop comes to it, and the *)
(* loop comes to it once.                                                  *)
ReadyAhead ==
  up = "polling" /\ phase = "handle" =>
    /\ ready.r \subseteq ToSet(list)
    /\ \A i, j \in 1..Len(list) :
         list[i] = cursor /\ i <= j /\ list[j] \in ready.r \ {Listener} => Readable(list[j])

Buffered(c) ==
  /\ DOMAIN c = DOMAIN NewConnection
  /\ c.recv \in Seq(Units) /\ c.chunk \in Nat
  /\ c.reass \in 0..Len(c.recv) /\ (c.proto # "ws" => c.reass = 0)
  /\ c.err \in {"none", "assert", "reply"}

WebInv ==
  /\ list \in Seq(Clients \cup {Listener}) /\ DOMAIN peer = Clients
  /\ LoopStaysInList /\ ConnectedListed /\ NotListedBefore /\ ReadyAhead
  /\ \A k \in DOMAIN conn : Buffered(conn[k])

(* The requests of a script, in order, and the body of a single one.       *)
Heads(s) == SelectSeq(s, LAMBDA u : u[1] = "e")
Requests(s) == [i \in 1..Len(Heads(s)) |-> Heads(s)[i][2]]
Body(s) == SelectSeq(s, LAMBDA u : u[1] = "b")
Upgrades(s) == \E i \in 1..Len(s) : s[i][1] = "e" /\ Request[s[i][2]].upgrade

Calls(k) == SelectSeq(Log(k), LAMBDA e : e[1] = "request")

(* The function is called for each request of a connection at most once    *)
(* and in the order they were sent, also where MG_EV_CLOSE hands over what *)
(* is left in the buffer (mongoose.c:6117-6131).  The body it gets is the  *)
(* one that was sent, with its chunks joined, if nothing follows it and    *)
(* all of it arrived.                                                      *)
RequestsInOrder ==
  \A k \in Clients :
    LET s == peer[k].script
    IN  /\ IsPrefix([i \in 1..Len(Calls(k)) |-> Calls(k)[i][2]], Requests(s))
        /\ \A i \in 1..Len(Calls(k)) :
             Len(Requests(s)) = 1 /\ Calls(k)[i][4] = "recv" => Calls(k)[i][3] = Body(s)

(* What the frames read from a websocket client so far mean, whatever the  *)
(* pieces they arrived in and wherever control frames came between         *)
(* fragments, is what the handler has been given: nothing is handed over   *)
(* twice, early or late (mg_deliver_websocket_data, mongoose.c:9489-9641). *)
FramesAsSent ==
  \A k \in DOMAIN conn :
    conn[k].proto = "ws" /\ peer[k].st # "reset" =>
      LET s == peer[k].script
          read == Len(s) - Len(peer[k].todo) - Len(peer[k].wire)
      IN  conn[k].log = Meaning(SubSeq(s, 3, read))

(* A connection whose client has shut down or vanished is closed, once     *)
(* what is left to send has been sent (mongoose.c:3556-3562, 3875-3881).   *)
GoneIsClosed ==
  \A k \in Clients :
    peer[k].st \in {"shut", "reset"} ~> peer[k].st = "closed" \/ up # "polling"

(* A client that sends one request, whole and in any pieces, is sent the   *)
(* whole answer, also if it shuts its side down without waiting for it.    *)
Answered(k) ==
  LET asked == Requests(peer[k].script)
  IN  asked # <<>> /\ <<"page", asked[1]>> \in ToSet(peer[k].got)

OneRequestAnswered ==
  \A k \in Clients :
    peer[k].st = "open" /\ Len(Requests(peer[k].script)) = 1 /\ ~ Upgrades(peer[k].script)
      ~> Answered(k) \/ peer[k].st = "reset" \/ up # "polling"

(* Nobody who behaves is left waiting: GoneIsClosed, OneRequestAnswered.   *)
NobodyWaits == GoneIsClosed /\ OneRequestAnswered
=============================================================================
