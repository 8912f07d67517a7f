------------------------------- MODULE Tunnel --------------------------------
(***************************************************************************)
(* The SOCKS5 client interface and the SOCKS5 server of mongoose           *)
(* (mg_net_if_socks.c and mg_socks.c in mongoose.c) with a target between  *)
(* which they carry bytes.  The connections are s, the client's to the     *)
(* server, p, the same one at the server, and t, the server's to the       *)
(* target; the application's own connection has no socket.  Bytes arrive   *)
(* in pieces of any size.  A foreign client is one that greets or asks     *)
(* otherwise.                                                              *)
(***************************************************************************)
EXTENDS Integers, Sequences, SequencesExt

CONSTANTS
  Bytes,                 (* what a byte may be                             *)
  Greetings, Requests,   (* what clients say first, and what they ask for  *)
  DomainLen,             (* length of the name in a request for a domain   *)
  AppText, TargetText    (* what the application and the target may write  *)

(* MG_SOCKS_HANDSHAKE_NOAUTH, MG_SOCKS_HANDSHAKE_FAILURE,                  *)
(* MG_SOCKS_SUCCESS and the other replies.                                 *)
NoAuth == "noauth"
Failure == "failure"
Success == "success"
NotSupported == "notsupported"

(* Bytes of the address of a request.                                      *)
AddrLen(atyp) == CASE atyp = "ipv6" -> 16 [] atyp = "domain" -> DomainLen + 1 [] OTHER -> 4
AddressOf(r) == IF r[1] = "v5" /\ r[2] = "connect" THEN AddrLen(r[4]) ELSE 4

ASSUME TunnelAssumption ==
  /\ {"v5", "rsv", "stale", NoAuth, Failure, Success, NotSupported} \subseteq Bytes
  /\ AppText \in Seq(Bytes) /\ TargetText \in Seq(Bytes) /\ DomainLen \in Nat \ {0}
  /\ Greetings \subseteq Seq(Bytes) /\ Requests \subseteq Seq(Bytes)
  /\ \A r \in Requests : Len(r) = AddressOf(r) + 6

VARIABLES
  greeting, request,     (* what this client says                          *)
  con,                   (* the three connections                          *)
  wire,                  (* bytes under way from s, p, t and the target    *)
  app,                   (* the application's connection                   *)
  data,                  (* struct socksdata of its interface              *)
  target,
  wild                   (* a freed socksdata was used                     *)

vars == <<greeting, request, con, wire, app, data, target, wild>>

Conns == {"s", "p", "t"}
Peer(k) == CASE k = "s" -> "p" [] k = "p" -> "s" [] k = "t" -> "target"

(* The greeting and the request of mg_net_if_socks.c.                      *)
OwnGreeting == <<"v5", "one", NoAuth>>
OwnRequest == <<"v5", "connect", "rsv", "ipv4", "a", "a", "a", "a", "o", "o">>

(* user: the partner of p and t is linked.                                 *)
NewConn(state) ==
  [state |-> state, sac |-> FALSE, recv |-> <<>>, out |-> <<>>,
   handshake |-> FALSE, connect |-> FALSE, user |-> FALSE]

(* mg_socks_if_connect_tcp has been called.                                *)
Init ==
  /\ greeting \in Greetings /\ request \in Requests
  /\ con = [s |-> NewConn("connecting"), p |-> NewConn("none"), t |-> NewConn("none")]
  /\ wire = [k \in Conns \cup {"target"} |-> <<>>]
  /\ app = [open |-> TRUE, sac |-> FALSE, wrote |-> 0, recv |-> <<>>]
  /\ data = [tmp |-> <<>>, c |-> TRUE, s |-> TRUE, freed |-> FALSE]
  /\ target = [open |-> TRUE, wrote |-> 0, recv |-> <<>>]
  /\ wild = FALSE

Live(k) == con[k].state = "open"
mbuf_remove(recv, n) == IF n <= Len(recv) THEN SubSeq(recv, n + 1, Len(recv)) ELSE recv

-----------------------------------------------------------------------------
(* The client.  Its handlers work on the connections, the application's    *)
(* connection and the socksdata together.                                  *)
Client(cn, a, d) == [con |-> cn, app |-> a, data |-> d]
Become(w) == con' = w.con /\ app' = w.app /\ data' = w.data

socks_if_disband(w) ==
  Client(IF w.data.s THEN [w.con EXCEPT !["s"].sac = TRUE] ELSE w.con,
         IF w.data.c THEN [w.app EXCEPT !.sac = TRUE] ELSE w.app,
         [w.data EXCEPT !.c = FALSE, !.s = FALSE])

(* The answer to the greeting; then the request is sent.                   *)
HandshakeReply(w) ==
  LET s == w.con["s"]
  IN  IF s.handshake \/ Len(s.recv) < 2 THEN w
      ELSE IF s.recv[2] = Failure THEN socks_if_disband(w)
      ELSE [w EXCEPT !.con["s"] = [s EXCEPT !.recv = mbuf_remove(@, 2), !.handshake = TRUE,
                                            !.out = @ \o request]]

(* The data written before the connection stood.                           *)
Moved(w) ==
  IF w.data.s /\ w.data.c
  THEN [w EXCEPT !.con["s"].out = @ \o w.data.tmp, !.data.tmp = <<>>] ELSE w

(* The answer to the request, of the request's own length (10 for the one  *)
(* this client sends).                                                     *)
ConnectReply(w) ==
  LET s == w.con["s"]
  IN  IF ~ s.handshake \/ s.connect \/ Len(s.recv) < Len(request) THEN w
      ELSE IF s.recv[2] # Success THEN socks_if_disband(w)
      ELSE Moved([w EXCEPT !.con["s"] = [s EXCEPT !.recv = mbuf_remove(@, Len(request)), !.connect = TRUE]])

RelayToApp(w) ==
  IF w.con["s"].connect /\ w.data.c /\ w.data.s
  THEN [w EXCEPT !.app.recv = @ \o w.con["s"].recv, !.con["s"].recv = <<>>] ELSE w

(* socks_if_handler on MG_EV_RECV.  A failed answer ends the handler.      *)
socks_if_handler(w) ==
  LET one == HandshakeReply(w)
      two == ConnectReply(one)
  IN  IF one.data # w.data THEN one ELSE IF ~ two.data.s THEN two ELSE RelayToApp(two)

(* MG_EV_CONNECT of s.  The connection that failed closes next.            *)
ClientConnects ==
  /\ con["s"].state = "connecting" /\ ~ wild
  /\ con' = [con EXCEPT !["s"].state = "open", !["s"].out = greeting, !["p"] = NewConn("open")]
  /\ wild' = data.freed
  /\ UNCHANGED <<greeting, request, wire, app, data, target>>
ClientConnectFails ==
  /\ con["s"].state = "connecting" /\ ~ wild
  /\ con' = [con EXCEPT !["s"].state = "failed"]
  /\ app' = [app EXCEPT !.sac = TRUE]
  /\ wild' = (data.freed \/ ~ data.c)
  /\ UNCHANGED <<greeting, request, wire, data, target>>

(* mg_socks_if_tcp_send.                                                   *)
AppSends ==
  /\ app.open /\ app.wrote < Len(AppText) /\ ~ wild
  /\ LET b == <<AppText[app.wrote + 1]>>
     IN  IF data.s /\ con["s"].connect
         THEN /\ con' = [con EXCEPT !["s"].out = @ \o data.tmp \o b]
              /\ data' = [data EXCEPT !.tmp = <<>>]
         ELSE data' = [data EXCEPT !.tmp = @ \o b] /\ UNCHANGED con
  /\ app' = [app EXCEPT !.wrote = @ + 1]
  /\ UNCHANGED <<greeting, request, wire, target, wild>>

(* mg_close_conn of the application's connection, which frees the          *)
(* interface (mg_socks_if_destroy_conn, mg_socks_if_free): on its own      *)
(* account, or after a disband.  s keeps the freed socksdata.              *)
AppCloses ==
  /\ app.open /\ ~ wild
  /\ LET w == socks_if_disband(Client(con, app, data))
     IN  Become([w EXCEPT !.app.open = FALSE, !.data.freed = TRUE, !.data.tmp = <<>>])
  /\ UNCHANGED <<greeting, request, wire, target, wild>>

-----------------------------------------------------------------------------
(* The server.                                                             *)
mg_socks5_handshake(p) ==
  LET reply == IF NoAuth \in {p.recv[i] : i \in 3..Len(greeting)} THEN NoAuth ELSE Failure
  IN  IF p.recv[1] # "v5" THEN [p EXCEPT !.sac = TRUE, !.out = <<>>]
      ELSE IF Len(p.recv) < Len(greeting) THEN p
      ELSE [p EXCEPT !.recv = mbuf_remove(@, Len(greeting)), !.handshake = TRUE,
                     !.out = @ \o <<"v5", reply>>]

(* mg_socks5_handle_request and mg_socks5_connect, on p and t.  Success is *)
(* told before the target is reached.  The answer to a request that is     *)
(* refused before it is all there repeats bytes behind the buffer's end,   *)
(* and takes nothing from it.  The address is one that mg_connect can use. *)
mg_socks5_handle_request(cn) ==
  LET p == cn["p"]
      r == p.recv
      refused == r[1] # "v5" \/ r[2] # "connect" \/ r[4] \notin {"ipv4", "ipv6", "domain"}
      n == AddressOf(r)
      address == [i \in 1..n + 3 |-> IF i + 3 <= Len(r) THEN r[i + 3] ELSE "stale"]
      answer == <<"v5", IF refused THEN NotSupported ELSE Success, "rsv">> \o address
      answered == [p EXCEPT !.out = @ \o answer, !.recv = mbuf_remove(@, n + 6),
                            !.connect = TRUE, !.user = ~ refused]
  IN  IF Len(r) < 8 \/ (~ refused /\ Len(r) < n + 6) THEN cn
      ELSE [cn EXCEPT !["p"] = answered,
                      !["t"] = IF refused THEN @ ELSE [NewConn("connecting") EXCEPT !.user = TRUE]]

(* relay_data of connection k, whose partner is o.                         *)
relay_data(cn, k, o) ==
  IF cn[k].user
  THEN [cn EXCEPT ![o].out = @ \o cn[k].recv, ![k].recv = <<>>]
  ELSE [cn EXCEPT ![k].sac = TRUE]

(* Mutant: the partner is left open when t closes.                         *)
DisbandAlone(cn, k, o) ==
  [cn EXCEPT ![k].sac = TRUE, ![k].user = FALSE,
             ![o].sac = @ \/ (k = "p" /\ cn[k].user), ![o].user = @ /\ ~ cn[k].user]

(* Mutant: the partner keeps its link.                                     *)
DisbandHere(cn, k, o) ==
  [cn EXCEPT ![k].sac = TRUE, ![k].user = FALSE, ![o].sac = @ \/ cn[k].user]

disband(cn, k, o) ==
  [cn EXCEPT ![k].sac = TRUE, ![k].user = FALSE,
             ![o].sac = @ \/ cn[k].user, ![o].user = @ /\ ~ cn[k].user]

(* socks_handler on MG_EV_RECV.                                            *)
socks_handler(cn) ==
  LET one == IF cn["p"].handshake THEN cn ELSE [cn EXCEPT !["p"] = mg_socks5_handshake(@)]
      two == IF one["p"].handshake /\ ~ one["p"].connect THEN mg_socks5_handle_request(one) ELSE one
  IN  IF two["p"].connect THEN relay_data(two, "p", "t") ELSE two

(* MG_EV_CONNECT in serv_ev_handler; a failure closes the connection.      *)
TargetConnects ==
  /\ con["t"].state = "connecting" /\ target.open
  /\ con' = [con EXCEPT !["t"].state = "open"]
  /\ UNCHANGED <<greeting, request, wire, app, data, target, wild>>
TargetConnectFails ==
  /\ con["t"].state = "connecting"
  /\ con' = [con EXCEPT !["t"].state = "failed"]
  /\ UNCHANGED <<greeting, request, wire, app, data, target, wild>>

-----------------------------------------------------------------------------
(* Both: bytes go out, arrive, and a connection closes, when it is asked   *)
(* to and has nothing left to send, when its other end did, or when it     *)
(* never stood.                                                            *)
Flush(k) ==
  /\ Live(k) /\ con[k].out # <<>>
  /\ wire' = [wire EXCEPT ![k] = @ \o con[k].out]
  /\ con' = [con EXCEPT ![k].out = <<>>]
  /\ UNCHANGED <<greeting, request, app, data, target, wild>>

Receive(k, n) ==
  /\ Live(k) /\ n \in 1..Len(wire[Peer(k)]) /\ ~ wild
  /\ LET cn == [con EXCEPT ![k].recv = @ \o SubSeq(wire[Peer(k)], 1, n)]
     IN  IF k # "s" THEN /\ con' = IF k = "p" THEN socks_handler(cn) ELSE relay_data(cn, "t", "p")
                         /\ UNCHANGED <<app, data, wild>>
         ELSE IF data.freed THEN wild' = TRUE /\ UNCHANGED <<con, app, data>>
         ELSE Become(socks_if_handler(Client(cn, app, data))) /\ UNCHANGED wild
  /\ wire' = [wire EXCEPT ![Peer(k)] = SubSeq(@, n + 1, Len(@))]
  /\ UNCHANGED <<greeting, request, target>>

OtherEndClosed(k) ==
  IF k = "t" THEN ~ target.open ELSE con[Peer(k)].state \in {"closed", "failed"}
MayClose(k) ==
  \/ con[k].state = "failed"
  \/ Live(k) /\ con[k].sac /\ con[k].out = <<>>
  \/ Live(k) /\ OtherEndClosed(k) /\ wire[Peer(k)] = <<>>

mg_close_conn(k) ==
  /\ MayClose(k) /\ ~ wild
  /\ LET cn == [con EXCEPT ![k].state = "closed", ![k].out = <<>>]
     IN  IF k = "s" /\ data.freed THEN wild' = TRUE /\ UNCHANGED <<con, app, data>>
         ELSE IF k = "s" THEN Become(socks_if_disband(Client(cn, app, data))) /\ UNCHANGED wild
         ELSE /\ con' = disband(cn, k, IF k = "p" THEN "t" ELSE "p")
              /\ UNCHANGED <<app, data, wild>>
  /\ UNCHANGED <<greeting, request, wire, target>>

(* The target, which is any server.                                        *)
TargetSends ==
  /\ target.open /\ con["t"].state = "open" /\ target.wrote < Len(TargetText)
  /\ wire' = [wire EXCEPT !["target"] = Append(@, TargetText[target.wrote + 1])]
  /\ target' = [target EXCEPT !.wrote = @ + 1]
  /\ UNCHANGED <<greeting, request, con, app, data, wild>>
TargetReceives ==
  /\ target.open /\ wire["t"] # <<>>
  /\ target' = [target EXCEPT !.recv = @ \o wire["t"]]
  /\ wire' = [wire EXCEPT !["t"] = <<>>]
  /\ UNCHANGED <<greeting, request, con, app, data, wild>>
TargetCloses ==
  /\ target.open /\ con["t"].state = "open"
  /\ target' = [target EXCEPT !.open = FALSE]
  /\ UNCHANGED <<greeting, request, con, wire, app, data, wild>>

Arrive == \E k \in Conns : \E n \in 1..Len(wire[Peer(k)]) : Receive(k, n)
Next ==
  \/ ClientConnects \/ ClientConnectFails \/ AppSends \/ AppCloses
  \/ TargetConnects \/ TargetConnectFails
  \/ \E k \in Conns : Flush(k) \/ mg_close_conn(k)
  \/ Arrive
  \/ TargetSends \/ TargetReceives \/ TargetCloses

(* The poll loop connects, sends and reads whenever it can, and closes     *)
(* what is told to close; nothing makes the application or the target      *)
(* write, or close on their own account.                                   *)
Fairness ==
  /\ WF_vars(app.sac /\ AppCloses) /\ WF_vars(ClientConnects) /\ WF_vars(TargetConnects) /\ WF_vars(TargetReceives)
  /\ \A k \in Conns : WF_vars(Flush(k)) /\ WF_vars(mg_close_conn(k))
  /\ \A k \in Conns : WF_vars(\E n \in 1..Len(wire[Peer(k)]) : Receive(k, n))

Spec == Init /\ [][Next]_vars /\ Fairness

-----------------------------------------------------------------------------
(* Types, and what has not begun yet.                                      *)
Stream == Seq(Bytes)
Connection ==
  [state : {"none", "connecting", "open", "failed", "closed"}, sac : BOOLEAN, recv : Stream, out : Stream,
   handshake : BOOLEAN, connect : BOOLEAN, user : BOOLEAN]

TypeOK ==
  /\ greeting \in Greetings /\ request \in Requests
  /\ con \in [Conns -> Connection] /\ wire \in [Conns \cup {"target"} -> Stream]
  /\ app \in [open : BOOLEAN, sac : BOOLEAN, wrote : 0..Len(AppText), recv : Stream]
  /\ data \in [tmp : Stream, c : BOOLEAN, s : BOOLEAN, freed : BOOLEAN]
  /\ target \in [open : BOOLEAN, wrote : 0..Len(TargetText), recv : Stream]
  /\ wild \in BOOLEAN

NotBegun ==
  /\ con["s"].state \notin {"open", "closed"} =>
       /\ con["s"].recv = <<>> /\ con["s"].out = <<>> /\ ~ con["s"].handshake /\ ~ con["s"].connect
       /\ wire["s"] = <<>> /\ wire["p"] = <<>> /\ con["p"] = NewConn("none")
  /\ ~ con["p"].connect =>
       /\ con["t"] = NewConn("none")
       /\ wire["t"] = <<>> /\ wire["target"] = <<>> /\ target.recv = <<>> /\ target.wrote = 0
  /\ \A k \in {"s", "p"} : con[k].connect => con[k].handshake
  /\ con["s"].state = "closed" => ~ data.s
  /\ ~ con["s"].connect => app.recv = <<>>
  /\ data.s = data.c /\ (data.freed => ~ data.s)

(* All that the client's side ever writes to the server, and the server to *)
(* it.  The answer to a refused request may end in stale bytes.            *)
Asked == greeting \o request \o AppText
Refused == request[1] # "v5" \/ request[2] # "connect" \/ request[4] \notin {"ipv4", "ipv6", "domain"}
Reply == IF NoAuth \in {greeting[i] : i \in 3..Len(greeting)} THEN NoAuth ELSE Failure
Answer(m) ==
  <<"v5", IF Refused THEN NotSupported ELSE Success, "rsv">>
    \o [i \in 1..Len(request) - 3 |-> IF i + 3 <= m THEN request[i + 3] ELSE "stale"]
Told(m) == <<"v5", Reply>> \o Answer(m) \o TargetText

(* What is read, under way and not yet sent of a stream stands in it in    *)
(* this order, behind its first i bytes.                                   *)
Piece(b, stream, i) == i + Len(b) <= Len(stream) /\ \A j \in 1..Len(b) : b[j] = stream[i + j]
InRow(recv, under, out, stream, i) ==
  /\ Piece(recv, stream, i) /\ Piece(under, stream, i + Len(recv))
  /\ Piece(out, stream, i + Len(recv) + Len(under))
RowEnd(recv, under, out, i) == i + Len(recv) + Len(under) + Len(out)

(* Where the payload begins, and what has left the server for the target.  *)
Payload == Len(greeting) + Len(request)
Passed == RowEnd(target.recv, wire["t"], con["t"].out, Payload)

(* What the server has taken of the client's stream, and where that stream *)
(* ends: as far as the client's state says, unless its connection closed.  *)
Taken ==
  IF ~ con["p"].handshake THEN 0 ELSE IF ~ con["p"].connect THEN Len(greeting) ELSE Passed
Written ==
  IF con["s"].state \notin {"open", "closed"} THEN 0
  ELSE IF ~ con["s"].handshake THEN Len(greeting)
  ELSE IF ~ con["s"].connect THEN Payload ELSE Payload + app.wrote
AskedEnd == RowEnd(con["p"].recv, wire["s"], con["s"].out, Taken)

ToTarget ==
  /\ InRow(target.recv, wire["t"], con["t"].out, Asked, Payload) /\ Passed <= Payload + app.wrote
  /\ ~ con["p"].connect \/ con["p"].user =>
       /\ InRow(con["p"].recv, wire["s"], con["s"].out, Asked, Taken)
       /\ AskedEnd <= Written
       /\ con["s"].state = "open" /\ (con["s"].connect => data.s) => AskedEnd = Written
  /\ data.s => data.tmp = IF con["s"].connect THEN <<>> ELSE SubSeq(AppText, 1, app.wrote)

(* The same for the server's stream, which the target goes on with as long *)
(* as the server's two connections are linked.  The client may lose a part *)
(* of it once it has used the freed socksdata.                             *)
ToldHead == 2 + Len(request)
Read ==
  IF ~ con["s"].handshake THEN 0 ELSE IF ~ con["s"].connect THEN 2 ELSE ToldHead + Len(app.recv)
ToldEnd == RowEnd(con["s"].recv, wire["p"], con["p"].out, Read)

ToApp(m) ==
  /\ Piece(app.recv, Told(m), ToldHead) /\ Len(app.recv) <= target.wrote
  /\ ~ wild =>
       /\ InRow(con["s"].recv, wire["p"], con["p"].out, Told(m), Read)
       /\ ~ con["p"].handshake => ToldEnd = 0
       /\ ~ con["p"].connect => ToldEnd <= 2
       /\ ~ con["p"].connect /\ con["p"].handshake /\ con["p"].state = "open" => ToldEnd = 2
       /\ ToldEnd <= ToldHead + target.wrote
       /\ con["p"].user =>
            /\ InRow(con["t"].recv, wire["target"], <<>>, Told(m), ToldEnd)
            /\ RowEnd(con["t"].recv, wire["target"], <<>>, ToldEnd) = ToldHead + target.wrote

(* The tunnel is transparent: the target reads what the application wrote, *)
(* from its first byte on and in order, and no byte of the handshake; and  *)
(* so does the application, however the answers and the data of the server *)
(* are cut.  (mg_socks_if_tcp_send, socks_if_handler, relay_data.)         *)
TunnelInOrder ==
  IsPrefix(target.recv, SubSeq(AppText, 1, app.wrote)) /\ IsPrefix(app.recv, SubSeq(TargetText, 1, target.wrote))

(* The server's connections are linked both ways or not at all, and never  *)
(* to one that is closed (disband).                                        *)
LinksAlive ==
  /\ con["p"].user = con["t"].user
  /\ con["p"].user => con["p"].state = "open" /\ con["t"].state # "closed"

(* The tunnel holds: TunnelInOrder and LinksAlive.                         *)
TunnelHolds == TunnelInOrder /\ LinksAlive

TunnelInv ==
  /\ TypeOK /\ NotBegun /\ LinksAlive /\ (con["p"].user => con["p"].connect)
  /\ ToTarget /\ \E m \in 0..Len(request) : ToApp(m)

(* All that the application and the target write arrives at the other, or  *)
(* the tunnel is ending; and whichever connection, the application's, the  *)
(* target's or one of the tunnel's, is the first to close, to fail or to   *)
(* be told to close, all of the tunnel's are closed in the end and the     *)
(* application's too (disband, socks_if_disband).  The exception is that   *)
(* the freed socksdata was used: then anything may come.                   *)
Ended ==
  ~ app.open \/ app.sac \/ ~ target.open \/ \E k \in Conns : con[k].sac \/ con[k].state \in {"failed", "closed"}
AllClosed == ~ app.open /\ con["s"].state = "closed" /\ \A k \in {"p", "t"} : con[k].state \in {"none", "closed"}
TunnelSettles ==
  /\ \A n \in 1..Len(AppText) : app.wrote = n ~> Len(target.recv) >= n \/ Ended \/ wild
  /\ \A n \in 1..Len(TargetText) : target.wrote = n ~> Len(app.recv) >= n \/ Ended \/ wild
  /\ Ended ~> AllClosed \/ wild
=============================================================================
