-------------------------------- MODULE Files --------------------------------
(***************************************************************************)
(* A client of a mongoose server that answers with mg_serve_http: files    *)
(* are sent in pieces while the client reads, CGI processes and other      *)
(* servers answer through connections of their own ("partners"), which     *)
(* know the client's connection and are known by it, and any of the three  *)
(* can go away at any moment.  Files can be cut short while they are sent. *)
(*                                                                         *)
(* The connections are handled one at a time, in any order (the order of   *)
(* one pass over their list is module Web's); requests arrive whole (their *)
(* pieces are module Http's).                                              *)
(***************************************************************************)
EXTENDS Site

CONSTANTS
  Request,     (* Request[q]: method, target, slash (the URI ends in one), *)
               (* info (there is a PATH_INFO), range, etag, since, keep,   *)
               (* cred (user, pass, age of the nonce), body, dest, depth   *)
  Scripts,     (* the requests a client sends, in order                    *)
  InitFs,      (* the files at the start                                   *)
  MaxSend,     (* MG_MAX_HTTP_SEND_MBUF, in units                          *)
  MaxPartners, (* bound: partners                                          *)
  MaxCuts,     (* bound: files cut while the server runs                   *)
  Cuttable     (* the inodes that may be cut                               *)

Partners == 1..MaxPartners
UntilClose == 0 - 1   (* an answer without a length                        *)
NoLength == 0 - 1     (* a body without a length: (size_t) ~0              *)

(* The files as they can be.                                               *)
FileSystems == [names : [Paths -> Inodes \cup {None, Dir}], size : [Inodes -> Nat], mtime : [Inodes -> Int]]

ASSUME FilesAssumption ==
  /\ MaxSend \in Nat \ {0} /\ MaxPartners \in Nat /\ MaxCuts \in Nat
  /\ Cuttable \subseteq Inodes /\ {None, Dir, "endpoint"} \cap Inodes = {}
  /\ InitFs \in FileSystems
  /\ \A q \in DOMAIN Request :
       /\ {"name", "method", "target", "range", "body", "keep", "dest"} \subseteq DOMAIN Request[q]
       /\ Request[q].name = q
       /\ Request[q].range \in Seq(Int) /\ Request[q].body \in Nat \cup {NoLength}
  /\ \A p \in Paths : DOMAIN Entry[p].index \subseteq Nat
  /\ Scripts \subseteq Seq(DOMAIN Request)

VARIABLES
  srv,     (* the server: nc (the client's connection), part (the          *)
           (* partners), fs, err (a use of a connection that is gone)      *)
  client,  (* todo, wire (requests on their way), got, asked, gone, eager  *)
           (* (it does not wait for an answer before the next request)     *)
  cuts     (* how many files were cut                                      *)

vars == <<srv, client, cuts>>

NoFile == [fp |-> None, pos |-> 0, cl |-> 0, sent |-> 0, type |-> "none", keep |-> FALSE]
NewConn == [open |-> TRUE, flags |-> {}, send |-> <<>>, recv |-> <<>>, rcvd |-> 0,
            file |-> NoFile, cgi |-> 0, linked |-> 0, endpoint |-> 0]
NoPartner == [kind |-> "none", open |-> FALSE, link |-> FALSE, flags |-> {}, recv |-> <<>>, said |-> 0]

Init ==
  /\ srv = [nc |-> NewConn, part |-> [i \in Partners |-> NoPartner], fs |-> InitFs, err |-> "none"]
  /\ \E s \in Scripts, e \in BOOLEAN :
       client = [todo |-> s, wire |-> <<>>, got |-> <<>>, asked |-> 0, gone |-> FALSE, eager |-> e]
  /\ cuts = 0

-----------------------------------------------------------------------------
(* What is done to the client's connection.  An answer starts with its     *)
(* head (status, length, the request, and for a file its inode and the     *)
(* first position); a unit of a file is its inode and position.            *)
mg_send(w, units) == [w EXCEPT !.nc.send = @ \o units]
Flag(w, f) == [w EXCEPT !.nc.flags = @ \cup {f}]
Reply(w, r, status, cl) == mg_send(w, <<<<"head", status, cl, r.name, None, 0>>>>)

(* The answer says "Connection: close".                                    *)
mg_http_send_error(w, r, status) == Flag(Reply(w, r, status, UntilClose), "send_and_close")

mbuf_remove(s, n) == IF n <= Len(s) THEN SubSeq(s, n + 1, Len(s)) ELSE s

mg_http_free_proto_data_file(w) == [w EXCEPT !.nc.file = NoFile]

(* The transfer is over.                                                   *)
FileDone(w) ==
  mg_http_free_proto_data_file(IF w.nc.file.keep THEN w ELSE Flag(w, "send_and_close"))

Room(w) == IF Len(w.nc.send) >= MaxSend THEN 0 ELSE MaxSend - Len(w.nc.send)

(* Mutant: as much is read as the buffer holds, whatever is left.          *)
ToReadPast(w) == Room(w)

(* How much of a file is read next: no more than there is room for in the  *)
(* send buffer, or left to send (an unsigned number: when more was sent    *)
(* than there is to send, no bound at all).                                *)
ToRead(w) ==
  LET left == w.nc.file.cl - w.nc.file.sent
  IN  IF left < 0 THEN Room(w) ELSE Min({Room(w), left})

(* Mutant: one unit more is waited for.                                    *)
AllSentLate(f) == f.sent > f.cl

AllSent(f) == f.sent >= f.cl

SendPiece(w) ==
  LET f == w.nc.file
      there == Max({0, w.fs.size[f.fp] - f.pos})
      n == Min({ToRead(w), there})
      next == [mg_send(w, [k \in 1..n |-> <<"unit", f.fp, f.pos + k - 1>>])
                 EXCEPT !.nc.file.sent = @ + n, !.nc.file.pos = @ + n]
  IN  IF AllSent(next.nc.file) THEN FileDone(next) ELSE next

StorePiece(w) ==
  LET f == w.nc.file
      n == Min({Max({0, f.cl - f.sent}), Len(w.nc.recv)})
      next == [w EXCEPT !.nc.recv = mbuf_remove(@, n), !.nc.file.sent = @ + n, !.nc.file.pos = @ + n,
                        !.fs.size[f.fp] = IF n = 0 THEN @ ELSE Max({@, f.pos + n})]
  IN  IF n = 0 \/ AllSent(next.nc.file) THEN FileDone(next) ELSE next

(* The branch that forwards to a CGI process is never reached: this is     *)
(* called with an open file only.                                          *)
mg_http_transfer_file_data(w) ==
  IF w.nc.file.type = "file" THEN SendPiece(w) ELSE StorePiece(w)

(* mg_http_serve_file.  A file opened before is forgotten.                 *)
mg_http_serve_file(w, r, path) ==
  LET i == w.fs.names[path]
      range == mg_http_parse_range_header(r, w.fs.size[i])
      f == [fp |-> i, pos |-> range.r1, cl |-> range.cl, sent |-> w.nc.file.sent,
            type |-> "file", keep |-> r.keep]
  IN  mg_http_transfer_file_data(
        mg_send([w EXCEPT !.nc.file = f],
                <<<<"head", range.status, range.cl, r.name, i, range.r1>>>>))

mg_handle_ssi_request(w, r, path) ==
  Flag(mg_send(Reply(w, r, 200, UntilClose), <<<<"text", mg_send_ssi_file(w.fs)[path], 0>>>>),
       "send_and_close")

mg_send_directory_listing(w, r, path) ==
  Flag(mg_send(Reply(w, r, 200, UntilClose), <<<<"text", mg_scan_directory(w.fs, path), 0>>>>),
       "send_and_close")

-----------------------------------------------------------------------------
(* WebDAV.                                                                 *)
SetName(w, p, x) == [w EXCEPT !.fs.names[p] = x]
ParentsAreDirs(w, p) == \A d \in Entry[p].over : IsDir(w.fs, d)

mg_handle_mkcol(w, r) ==
  LET p == r.target
  IN  IF r.body # NoLength /\ r.body > 0 THEN mg_http_send_error(w, r, 415)
      ELSE IF Exists(w.fs, p) THEN mg_http_send_error(w, r, 405)
      ELSE IF ~ParentsAreDirs(w, p) THEN mg_http_send_error(w, r, 409)
      ELSE mg_http_send_error(SetName(w, p, Dir), r, 201)

(* mg_remove_directory: hidden files stay, and so do the directories they  *)
(* are in.                                                                 *)
mg_remove_directory(w, d) ==
  LET below == {p \in Paths : d \in Entry[p].over /\ Exists(w.fs, p)}
      kept == {p \in below : mg_is_file_hidden(p) \/ \E e \in Entry[p].over \cap below : mg_is_file_hidden(e)}
      stays(p) == p \in kept \/ \E q \in kept : p \in Entry[q].over
  IN  [w EXCEPT !.fs.names = [p \in Paths |-> IF p \in below \cup {d} /\ ~stays(p) THEN None ELSE @[p]]]

mg_handle_delete(w, r) ==
  IF ~Exists(w.fs, r.target) THEN mg_http_send_error(w, r, 404)
  ELSE mg_http_send_error(IF IsDir(w.fs, r.target) THEN mg_remove_directory(w, r.target)
                          ELSE SetName(w, r.target, None), r, 204)

(* Files are renamed; directories are not, in this model.                  *)
mg_handle_move(w, r) ==
  IF r.dest = None THEN mg_http_send_error(w, r, 411)
  ELSE IF r.dest \notin Paths THEN mg_http_send_error(w, r, 500)
  ELSE IF w.fs.names[r.target] \in Inodes /\ ParentsAreDirs(w, r.dest) /\ ~IsDir(w.fs, r.dest)
  THEN mg_http_send_error(SetName(SetName(w, r.target, None), r.dest, w.fs.names[r.target]), r, 200)
  ELSE mg_http_send_error(w, r, 418)

(* A directory with an index file is described as that file.               *)
mg_handle_propfind(w, r, file) ==
  IF IsDir(w.fs, file) /\ ~Opts.listing THEN Reply(w, r, 403, UntilClose)
  ELSE Flag(mg_send(Reply(w, r, 207, UntilClose),
                    <<<<"text", {file} \cup IF IsDir(w.fs, file) /\ r.depth # 0
                                            THEN mg_scan_directory(w.fs, file) ELSE {}, 0>>>>),
            "send_and_close")

mg_create_itermediate_directories(w, p) ==
  [w EXCEPT !.fs.names = [d \in Paths |-> IF d \in Entry[p].over /\ @[d] = None THEN Dir ELSE @[d]]]

(* The inode a file that is created gets: one that no name refers to.      *)
FreeInodes(w) == {i \in Inodes : i # w.nc.file.fp /\ \A p \in Paths : w.fs.names[p] # i}

(* mg_fopen(path, "w+b").                                                  *)
Emptied(size, i) == [size EXCEPT ![i] = 0]

(* mg_handle_put: the answer is sent before the file is written.           *)
mg_handle_put(w, r, head) ==
  LET p == r.target
      old == w.fs.names[p]
      made == mg_create_itermediate_directories(mg_http_free_proto_data_file(w), p)
      fp == IF old \in Inodes THEN old ELSE CHOOSE i \in FreeInodes(made) : TRUE
      ranged == Len(r.range) = 2
      cl == IF ~ranged THEN r.body
            ELSE IF r.range[2] > r.range[1] THEN r.range[2] - r.range[1] + 1
            ELSE r.body - r.range[1]
      f == [fp |-> fp, pos |-> IF ranged THEN r.range[1] ELSE 0, cl |-> cl, sent |-> 0,
            type |-> "put", keep |-> FALSE]
      status == IF ranged THEN 206 ELSE IF old = None THEN 201 ELSE 200
      opened == [made EXCEPT !.nc.file = f, !.fs.names[p] = fp, !.fs.size = Emptied(@, fp),
                             !.fs.mtime[fp] = @ + 1]
      answered == Reply(opened, r, status, 0)
  IN  IF \E d \in Entry[p].over : w.fs.names[d] \in Inodes THEN mg_http_send_error(w, r, 500)
      ELSE IF r.body = NoLength THEN mg_http_send_error(made, r, 411)
      ELSE IF old = Dir \/ (old = None /\ FreeInodes(made) = {}) THEN mg_http_send_error(made, r, 500)
      ELSE mg_http_transfer_file_data([answered EXCEPT !.nc.recv = mbuf_remove(@, head)])

-----------------------------------------------------------------------------
(* Partners.                                                               *)
FreePartners(w) == {i \in Partners : w.part[i].kind = "none"}
NewPartner(kind) == [NoPartner EXCEPT !.kind = kind, !.open = TRUE, !.link = TRUE]

(* mg_handle_cgi with mg_start_process: the process gets whatever is in    *)
(* the buffer behind the head.  The connection of an earlier process that  *)
(* still runs is forgotten.                                                *)
mg_handle_cgi(w, i) ==
  [w EXCEPT !.part[i] = NewPartner("cgi"), !.nc.cgi = i, !.nc.recv = <<>>,
            !.nc.flags = @ \cup {"parse_headers"}]

(* mg_http_reverse_proxy with mg_connect_http_base.                        *)
mg_http_reverse_proxy(w, i) == [w EXCEPT !.part[i] = NewPartner("backend"), !.nc.linked = i]

mg_http_free_proto_data_cgi(w) ==
  IF w.nc.cgi = 0 THEN w
  ELSE [w EXCEPT !.part[w.nc.cgi].flags = @ \cup {"close_immediately"},
                 !.part[w.nc.cgi].link = FALSE, !.nc.cgi = 0]

(* Mutant: the backend keeps its link.                                     *)
FreeProxyKept(w) == [w EXCEPT !.nc.linked = 0]

(* mg_http_free_reverse_proxy_data of the client's connection: the backend *)
(* is unlinked.  What is flagged is what the backend was linked to, the    *)
(* connection that is going anyway.                                        *)
mg_http_free_reverse_proxy_data(w) ==
  IF w.nc.linked = 0 THEN w
  ELSE [w EXCEPT !.part[w.nc.linked].link = FALSE, !.nc.linked = 0,
                 !.err = IF w.part[w.nc.linked].open THEN @ ELSE "freed backend"]

(* mg_http_conn_destructor.                                                *)
mg_http_conn_destructor(w) ==
  LET clean == mg_http_free_reverse_proxy_data(
                 mg_http_free_proto_data_cgi(mg_http_free_proto_data_file(w)))
  IN  [clean EXCEPT !.nc = [NewConn EXCEPT !.open = FALSE]]

-----------------------------------------------------------------------------
(* The answer to request r, whose head ends at position head of the        *)
(* buffer.  A partner is needed for some.                                  *)
Answer(w, r, head, i) ==
  LET to == mg_serve_http(w.fs, r)
      status == [x \in {"400", "403", "404", "501", "304"} |->
                   CASE x = "400" -> 400 [] x = "403" -> 403 [] x = "404" -> 404
                     [] x = "501" -> 501 [] x = "304" -> 304]
  IN  CASE to.way = "moved" -> Reply(w, r, 301, 0)
        [] to.way = "401" -> Reply(w, r, 401, 0)
        [] to.way \in DOMAIN status -> mg_http_send_error(w, r, status[to.way])
        [] to.way = "proxy" -> mg_http_reverse_proxy(w, i)
        [] to.way = "cgi" -> mg_handle_cgi(w, i)
        [] to.way = "PROPFIND" -> mg_handle_propfind(w, r, to.file)
        [] to.way = "MKCOL" -> mg_handle_mkcol(w, r)
        [] to.way = "DELETE" -> mg_handle_delete(w, r)
        [] to.way = "MOVE" -> mg_handle_move(w, r)
        [] to.way = "PUT" -> mg_handle_put(w, r, head)
        [] to.way = "OPTIONS" -> Flag(Reply(w, r, 200, UntilClose), "send_and_close")
        [] to.way = "list" -> mg_send_directory_listing(w, r, r.target)
        [] to.way = "ssi" -> mg_handle_ssi_request(w, r, to.file)
        [] to.way = "file" -> mg_http_serve_file(w, r, to.file)

NeedsPartner(w, r) == mg_serve_http(w.fs, r).way \in {"proxy", "cgi"}

(* mg_http_call_endpoint_handler: the request goes to its endpoint, or to  *)
(* the endpoint of an earlier request of this connection, or else to the   *)
(* server's handler.  What an endpoint answers is up to the application.   *)
mg_http_call_endpoint_handler(w, r, head, i) ==
  LET e == mg_http_get_endpoint_handler(r)
      now == IF e = 0 THEN w.nc.endpoint ELSE e
  IN  IF e # 0 /\ ~mg_http_is_authorized(r, Endpoints[e].auth, FALSE) THEN Reply(w, r, 401, 0)
      ELSE IF now = 0 THEN Answer(w, r, head, i)
      ELSE mg_send([w EXCEPT !.nc.endpoint = now], <<<<"head", 200, 0, r.name, "endpoint", now>>>>)

(* mg_parse_http: where the first head in the buffer ends.  What stands    *)
(* before it becomes a part of its method.                                 *)
HeadEnd(recv) ==
  LET heads == {i \in 1..Len(recv) : recv[i][1] = "request"}
  IN  IF heads = {} THEN 0 ELSE Min(heads)
Parsed(recv) ==
  LET r == Request[recv[HeadEnd(recv)][2]]
  IN  IF HeadEnd(recv) = 1 THEN r ELSE [r EXCEPT !.method = "?"]
MessageLength(recv) ==
  LET r == Parsed(recv)
  IN  IF r.body # NoLength THEN HeadEnd(recv) + r.body
      ELSE IF r.method \in {"PUT", "POST"} THEN NoLength ELSE HeadEnd(recv)

Transferred(w) == IF w.nc.file.fp # None THEN mg_http_transfer_file_data(w) ELSE w

(* MG_EV_RECV in mg_http_handler, for units that have just arrived; i is   *)
(* the partner a request that needs one gets.                              *)
HttpRecv(w, units, i) ==
  LET d == Transferred([w EXCEPT !.nc.recv = @ \o units])
      c == [d EXCEPT !.nc.rcvd = @ + Len(units)]
      message == MessageLength(c.nc.recv)
      served == mg_http_call_endpoint_handler(c, Parsed(c.nc.recv), HeadEnd(c.nc.recv), i)
  IN  IF HeadEnd(c.nc.recv) = 0 \/ message = NoLength \/ message > c.nc.rcvd THEN c
      ELSE [served EXCEPT !.nc.recv = mbuf_remove(@, message), !.nc.rcvd = 0]

(* MG_EV_CLOSE in mg_http_handler, and the end of the connection: the      *)
(* process is told, a request still in the buffer is answered, a piece of  *)
(* the file is sent, and everything is freed.                              *)
HttpClose(w, i) ==
  LET told == IF w.nc.cgi = 0 THEN w
              ELSE [w EXCEPT !.part[w.nc.cgi].link = FALSE,
                             !.part[w.nc.cgi].flags = @ \cup {"close_immediately"}]
      rest == IF HeadEnd(w.nc.recv) = 0 THEN told
              ELSE mg_http_call_endpoint_handler(told, Parsed(w.nc.recv), HeadEnd(w.nc.recv), i)
  IN  mg_http_conn_destructor(Transferred(rest))

-----------------------------------------------------------------------------
(* The client.  An answer is complete when all of its length has come; one *)
(* without a length is when the connection closes.  After an answer that   *)
(* says "Connection: close" no request follows, unless the client does not *)
(* wait.                                                                   *)
Heads == {i \in 1..Len(client.got) : client.got[i][1] = "head"}
LastHead == Max({0} \cup Heads)
Answered ==
  /\ Cardinality(Heads) = client.asked
  /\ LastHead # 0 =>
       /\ client.got[LastHead][3] # UntilClose
       /\ Len(client.got) - LastHead >= client.got[LastHead][3]
       /\ Request[client.got[LastHead][4]].keep

Units(q) ==
  LET n == IF Request[q].body = NoLength THEN 1 ELSE Request[q].body
  IN  <<<<"request", q>>>> \o [k \in 1..n |-> <<"body", q>>]

ClientSends ==
  /\ ~client.gone /\ client.todo # <<>> /\ srv.nc.open
  /\ client.eager \/ Answered
  /\ client' = [client EXCEPT !.todo = Tail(@), !.wire = @ \o Units(client.todo[1]), !.asked = @ + 1]
  /\ UNCHANGED <<srv, cuts>>

ClientLeaves ==
  /\ ~client.gone
  /\ client' = [client EXCEPT !.gone = TRUE]
  /\ UNCHANGED <<srv, cuts>>

(* A file is cut short under the server's hands.                           *)
Cut ==
  /\ cuts < MaxCuts
  /\ \E i \in Cuttable :
       /\ srv.fs.size[i] > 0
       /\ srv' = [srv EXCEPT !.fs.size[i] = @ - 1, !.fs.mtime[i] = @ + 1]
  /\ cuts' = cuts + 1
  /\ UNCHANGED client

-----------------------------------------------------------------------------
(* The server's steps for the client's connection.                         *)
Alive == srv.nc.open /\ srv.err = "none"
Going == "close_immediately" \in srv.nc.flags
NextPartner == Min(FreePartners(srv) \cup {MaxPartners + 1})

(* Partners run out only in the model.                                     *)
WithinBound(recv) ==
  (FreePartners(srv) = {} /\ HeadEnd(recv) # 0) => ~NeedsPartner(srv, Parsed(recv))

Recv ==
  /\ Alive /\ ~Going /\ client.wire # <<>>
  /\ WithinBound(srv.nc.recv \o client.wire)
  /\ srv' = HttpRecv(srv, client.wire, NextPartner)
  /\ client' = [client EXCEPT !.wire = <<>>]
  /\ UNCHANGED cuts

(* The socket takes some of the buffer, and MG_EV_SEND follows.            *)
SendOut ==
  /\ Alive /\ ~Going /\ ~client.gone
  /\ \E n \in {1, Len(srv.nc.send)} :
       /\ n <= Len(srv.nc.send) /\ n > 0
       /\ client' = [client EXCEPT !.got = @ \o SubSeq(srv.nc.send, 1, n)]
       /\ srv' = Transferred([srv EXCEPT !.nc.send = mbuf_remove(@, n)])
  /\ UNCHANGED cuts

(* MG_EV_POLL.                                                             *)
Poll ==
  /\ Alive /\ ~Going /\ srv.nc.file.fp # None
  /\ srv' = Transferred(srv)
  /\ UNCHANGED <<client, cuts>>

(* The end of what the client sends, or a broken connection.               *)
Eof ==
  /\ Alive /\ ~Going /\ client.gone
  /\ srv' = Flag(srv, "close_immediately")
  /\ UNCHANGED <<client, cuts>>

CloseClient ==
  /\ Alive
  /\ Going \/ ("send_and_close" \in srv.nc.flags /\ srv.nc.send = <<>>)
  /\ WithinBound(srv.nc.recv)
  /\ srv' = HttpClose(srv, NextPartner)
  /\ UNCHANGED <<client, cuts>>

-----------------------------------------------------------------------------
(* The partners.                                                           *)
Running(i, kind) ==
  /\ srv.err = "none"
  /\ srv.part[i].open /\ srv.part[i].kind = kind
  /\ "close_immediately" \notin srv.part[i].flags

PartFlag(w, i, f) == [w EXCEPT !.part[i].flags = @ \cup {f}]
Lost(w) == [w EXCEPT !.err = "freed client"]

(* mg_cgi_ev_handler, MG_EV_RECV: the head of the answer is written when   *)
(* the script's headers are complete, then everything is passed on; after  *)
(* bad headers that is so too.                                             *)
CgiRecv(w, i) ==
  LET said == w.part[i].recv
      bad == "bad" \in {said[k] : k \in 1..Len(said)}
      blank == "blank" \in {said[k] : k \in 1..Len(said)}
      forward(x) == [mg_send(x, [k \in 1..Len(said) |-> <<"text", said[k], i>>]) EXCEPT !.part[i].recv = <<>>]
      started == [mg_send(w, <<<<"head", 200, UntilClose, None, None, 0>>>>)
                    EXCEPT !.nc.flags = @ \ {"parse_headers"}]
      failed == [PartFlag(mg_http_send_error(w, [name |-> None], 500), i, "close_immediately")
                   EXCEPT !.nc.flags = @ \ {"parse_headers"}]
  IN  IF ~w.part[i].link THEN PartFlag(w, i, "close_immediately")
      ELSE IF ~w.nc.open THEN Lost(w)
      ELSE IF "parse_headers" \notin w.nc.flags THEN forward(w)
      ELSE IF bad THEN forward(failed)
      ELSE IF blank THEN forward(started) ELSE w

CgiSays(i) ==
  /\ Running(i, "cgi") /\ srv.part[i].said < 2
  /\ \E x \in {"piece", "blank", "bad"} :
       srv' = CgiRecv([srv EXCEPT !.part[i].recv = Append(@, x), !.part[i].said = @ + 1], i)
  /\ UNCHANGED <<client, cuts>>

(* The process ends; its socket is at its end.                             *)
CgiEnds(i) ==
  /\ Running(i, "cgi")
  /\ srv' = PartFlag(srv, i, "close_immediately")
  /\ UNCHANGED <<client, cuts>>

(* mg_reverse_proxy_handler, MG_EV_CONNECT with an error.                  *)
BackendFails(i) ==
  /\ Running(i, "backend") /\ srv.part[i].said = 0
  /\ LET w == PartFlag(srv, i, "close_immediately")
     IN  srv' = IF ~srv.part[i].link THEN w
                ELSE IF ~srv.nc.open THEN Lost(w)
                ELSE mg_http_send_error(w, [name |-> None], 502)
  /\ UNCHANGED <<client, cuts>>

BackendConnects(i) ==
  /\ Running(i, "backend") /\ srv.part[i].said = 0
  /\ srv' = [srv EXCEPT !.part[i].said = 1]
  /\ UNCHANGED <<client, cuts>>

(* mg_reverse_proxy_handler, MG_EV_HTTP_REPLY.                             *)
BackendReplies(i) ==
  /\ Running(i, "backend") /\ srv.part[i].said = 1
  /\ LET w == [srv EXCEPT !.part[i].said = 2]
     IN  srv' = IF ~srv.part[i].link THEN w
                ELSE IF ~srv.nc.open THEN Lost(w)
                ELSE PartFlag(Flag(mg_send(w, <<<<"head", 200, UntilClose, None, None, 0>>, <<"text", "reply", i>>>>),
                                   "send_and_close"), i, "close_immediately")
  /\ UNCHANGED <<client, cuts>>

(* The other server closes the connection.                                 *)
BackendEnds(i) ==
  /\ Running(i, "backend") /\ srv.part[i].said > 0
  /\ srv' = PartFlag(srv, i, "close_immediately")
  /\ UNCHANGED <<client, cuts>>

Gone(w, i) == [w EXCEPT !.part[i] = [NoPartner EXCEPT !.kind = w.part[i].kind]]

(* MG_EV_CLOSE in mg_cgi_ev_handler.                                       *)
CgiCloses(w, i) ==
  IF ~w.part[i].link THEN Gone(w, i)
  ELSE IF ~w.nc.open THEN Lost(w)
  ELSE Gone(Flag(mg_http_free_proto_data_cgi(w), "send_and_close"), i)

(* MG_EV_CLOSE in mg_reverse_proxy_handler, then the destructor: what the  *)
(* client's connection is linked to is flagged, and unlinked.              *)
BackendCloses(w, i) ==
  LET flagged == Flag(w, "send_and_close")
      unlinked == IF w.nc.linked = 0 THEN flagged
                  ELSE [PartFlag(flagged, w.nc.linked, "send_and_close") EXCEPT !.nc.linked = 0]
  IN  IF ~w.part[i].link THEN Gone(w, i)
      ELSE IF ~w.nc.open THEN Lost(w)
      ELSE Gone(unlinked, i)

ClosePartner(i) ==
  /\ srv.err = "none" /\ srv.part[i].open /\ srv.part[i].flags # {}
  /\ srv' = IF srv.part[i].kind = "cgi" THEN CgiCloses(srv, i) ELSE BackendCloses(srv, i)
  /\ UNCHANGED <<client, cuts>>

PartnerStep(i) ==
  CgiSays(i) \/ CgiEnds(i) \/ BackendFails(i) \/ BackendConnects(i) \/ BackendReplies(i)
    \/ BackendEnds(i) \/ ClosePartner(i)

Next ==
  \/ ClientSends \/ ClientLeaves \/ Cut
  \/ Recv \/ SendOut \/ Poll \/ Eof \/ CloseClient
  \/ \E i \in Partners : PartnerStep(i)

(* The server's loop comes to every connection again and again; a client   *)
(* that is there reads what it is sent.                                    *)
Spec == Init /\ [][Next]_vars /\ WF_vars(SendOut) /\ WF_vars(Poll)

-----------------------------------------------------------------------------
(* What holds between the steps when the client waits for each answer.     *)
(* Stream is all that the client was sent and that still is to be sent.    *)
HeadsOf(s) == {h \in 1..Len(s) : s[h][1] = "head"}
IsFileReply(x) == x[1] = "head" /\ x[5] \in Inodes
LastHeadIs(s, h) == h \in HeadsOf(s) /\ \A j \in h + 1..Len(s) : s[j][1] # "head"

(* What follows the last head can be told to be all of its answer.         *)
Done(s) ==
  \A h \in HeadsOf(s) : LastHeadIs(s, h) /\ IsFileReply(s[h]) => Len(s) - h = s[h][3]

(* The last answer lasts until the connection is closed.                   *)
EndsOpen(s) == \E h \in HeadsOf(s) : LastHeadIs(s, h) /\ s[h][3] = UntilClose

(* Every file is what its head says, as far as it is there.                *)
RangesOK(s) ==
  \A h \in HeadsOf(s) : IsFileReply(s[h]) =>
    /\ s[h][3] \in Nat
    /\ \A j \in h + 1..Len(s) : (\A k \in h + 1..j - 1 : s[k][1] # "head") =>
         IF s[j][1] = "head" THEN j - h - 1 = s[h][3]
         ELSE j - h <= s[h][3] /\ s[j] = <<"unit", s[h][5], s[h][6] + (j - h) - 1>>

Stream(w, got) == got \o w.nc.send

IsSeq(s) == s \in Seq({s[k] : k \in DOMAIN s})
Requests(recv) == {k \in 1..Len(recv) : recv[k][1] = "request"}

Shape(w) ==
  /\ DOMAIN w = {"nc", "part", "fs", "err"}
  /\ DOMAIN w.nc = DOMAIN NewConn /\ DOMAIN w.nc.file = DOMAIN NoFile
  /\ w.nc.open \in BOOLEAN /\ w.nc.rcvd \in Nat
  /\ IsSeq(w.nc.send) /\ w.nc.recv \in Seq({"request", "body"} \X DOMAIN Request)
  /\ w.nc.cgi \in Partners \cup {0} /\ w.nc.linked \in Partners \cup {0}
  /\ DOMAIN w.part = Partners
  /\ \A i \in Partners :
       /\ DOMAIN w.part[i] = DOMAIN NoPartner
       /\ IsSeq(w.part[i].recv) /\ w.part[i].said \in Nat
       /\ w.part[i].link \in BOOLEAN /\ w.part[i].open \in BOOLEAN
  /\ w.fs \in FileSystems

ClientShape(c) ==
  /\ DOMAIN c = {"todo", "wire", "got", "asked", "gone", "eager"}
  /\ c.todo \in Seq(DOMAIN Request) /\ c.asked \in Nat /\ c.eager \in BOOLEAN
  /\ ~c.eager => IsSeq(c.got) /\ (c.wire = <<>> \/ \E q \in DOMAIN Request : c.wire = Units(q))

(* The buffer holds at most one request, and all of its body.              *)
OneRequest(recv) ==
  \A k \in Requests(recv) :
    /\ Requests(recv) = {k}
    /\ Request[recv[k][2]].body # NoLength => k + Request[recv[k][2]].body <= Len(recv)

(* A file that is open has not been sent or stored to its end; nothing of  *)
(* what came is left while one is stored.                                  *)
FileOK(w) ==
  LET f == w.nc.file
  IN  IF f.fp = None THEN f = NoFile
      ELSE /\ f.fp \in Inodes /\ f.sent \in Nat /\ f.cl \in Int /\ f.pos \in Int /\ f.sent < f.cl
           /\ f.type \in {"file", "put"}
           /\ f.type = "put" => w.nc.recv = <<>>

(* The client's connection and its partner, of which there is one at most, *)
(* know each other.                                                        *)
Linked(w) ==
  /\ w.err = "none" /\ (w.nc.cgi = 0 \/ w.nc.linked = 0)
  /\ \A i \in Partners :
       LET p == w.part[i]
       IN  /\ p.link => w.nc.open /\ p.open /\ IF p.kind = "cgi" THEN w.nc.cgi = i
                                               ELSE p.kind = "backend" /\ w.nc.linked = i
           /\ w.nc.cgi = i => p.link /\ p.kind = "cgi"
           /\ w.nc.linked = i => p.link /\ p.kind = "backend"

Busy(w) == w.nc.cgi # 0 \/ w.nc.linked # 0

(* A partner is still to start the answer.                                 *)
Owed(w) ==
  \/ w.nc.cgi # 0 /\ "parse_headers" \in w.nc.flags
  \/ /\ w.nc.linked # 0 /\ w.part[w.nc.linked].said < 2
     /\ "close_immediately" \notin w.part[w.nc.linked].flags

(* No more answers than requests, one less while a partner is to answer.   *)
Counted(w, s, asked) ==
  /\ Cardinality(HeadsOf(s)) <= asked
  /\ Owed(w) => Cardinality(HeadsOf(s)) < asked
  /\ Busy(w) => Done(s) /\ (Cardinality(HeadsOf(s)) < asked \/ EndsOpen(s))
  /\ w.nc.cgi # 0 => "parse_headers" \in w.nc.flags \/ EndsOpen(s)

(* The file that is open is the one the last answer announced, and as much *)
(* of it was sent as stands behind the head.                               *)
FileSent(w, s) ==
  LET f == w.nc.file
  IN  f.fp # None /\ f.type = "file" =>
        \E h \in HeadsOf(s) :
          /\ LastHeadIs(s, h) /\ s[h][5] = f.fp /\ s[h][3] = f.cl
          /\ Len(s) - h = f.sent /\ s[h][6] \in Int /\ f.pos = s[h][6] + f.sent

(* A request that is on its way or in the buffer is the only one that is   *)
(* not answered, and all before it is done with.                           *)
Waiting(w, wire, s, asked) ==
  w.nc.open /\ (wire # <<>> \/ Requests(w.nc.recv) # {}) =>
    /\ Cardinality(HeadsOf(s)) < asked /\ Done(s) /\ ~Busy(w)
    /\ wire # <<>> => Requests(w.nc.recv) = {}

(* After the end nothing is left.                                          *)
Closed(w) == ~w.nc.open => w.nc = [NewConn EXCEPT !.open = FALSE]

ServerInv(w, got, asked) ==
  /\ Shape(w) /\ FileOK(w) /\ OneRequest(w.nc.recv) /\ Linked(w) /\ Closed(w)
  /\ RangesOK(Stream(w, got)) /\ FileSent(w, Stream(w, got)) /\ Counted(w, Stream(w, got), asked)

(* The answer to a request that is stored whole; whatever else is answered *)
(* with 200 or 201 has a body, a file or an endpoint.                      *)
IsPutReply(x) == x[1] = "head" /\ x[2] \in {200, 201} /\ x[3] = 0 /\ x[5] \notin Inodes \cup {"endpoint"}

(* Request q was a PUT, and its body is what is stored for its target.     *)
Stored(fs, q) ==
  /\ q \in DOMAIN Request /\ Request[q].method = "PUT"
  /\ fs.names[Request[q].target] \in Inodes
  /\ fs.size[fs.names[Request[q].target]] = Request[q].body

(* What the last answer says was stored still is, and nothing is written   *)
(* before the next request.                                                *)
StoredInv ==
  LET s == Stream(srv, client.got)
  IN  ~client.eager /\ cuts = 0 /\ Cardinality(HeadsOf(s)) = client.asked =>
        \A h \in HeadsOf(s) :
          LastHeadIs(s, h) /\ IsPutReply(s[h]) => Stored(srv.fs, s[h][4]) /\ srv.nc.file = NoFile

FilesInv ==
  /\ ClientShape(client)
  /\ ~client.eager =>
       /\ ServerInv(srv, client.got, client.asked)
       /\ Waiting(srv, client.wire, Stream(srv, client.got), client.asked)

-----------------------------------------------------------------------------
(* The units of the answer whose head is got[h].                           *)
BodyOf(h) ==
  LET later == {j \in h + 1..Len(client.got) : client.got[j][1] = "head"}
      last == IF later = {} THEN Len(client.got) ELSE Min(later) - 1
  IN  SubSeq(client.got, h + 1, last)

(* For a client that waits for each answer, an answer that is a file is    *)
(* what its head says, the bytes of the range in their order and no more,  *)
(* complete before the next answer starts, however the pieces were read,   *)
(* sent and polled for.                                                    *)
RangeAsAsked ==
  ~client.eager =>
    \A h \in 1..Len(client.got) :
      IsFileReply(client.got[h]) =>
        LET head == client.got[h]
            body == BodyOf(h)
        IN  /\ Len(body) <= head[3]
            /\ \A k \in 1..Len(body) : body[k] = <<"unit", head[5], head[6] + k - 1>>
            /\ h + Len(body) < Len(client.got) => Len(body) = head[3]

(* A client that waits for each answer never makes the server use a        *)
(* connection that is gone: the client's connection and its process or     *)
(* backend know each other as long as both are there, and neither knows    *)
(* the other once it is gone.                                              *)
NothingDangles ==
  ~client.eager =>
    /\ srv.err = "none"
    /\ \A i \in Partners : srv.part[i].link => srv.nc.open /\ i \in {srv.nc.cgi, srv.nc.linked}
    /\ srv.nc.cgi # 0 => srv.part[srv.nc.cgi].open /\ srv.part[srv.nc.cgi].link
    /\ srv.nc.linked # 0 => srv.part[srv.nc.linked].open /\ srv.part[srv.nc.linked].link

(* When a client that waits for each answer is told that its file was      *)
(* stored, it did send one, and the file is that one and nothing of an     *)
(* older one.                                                              *)
PutStored ==
  (~client.eager /\ cuts = 0 /\ Cardinality(Heads) = client.asked) =>
    (LastHead # 0 /\ IsPutReply(client.got[LastHead]) => Stored(srv.fs, client.got[LastHead][4]))

(* What is sent in either direction arrives as it is: RangeAsAsked and     *)
(* PutStored.                                                              *)
FilesAsSent == RangeAsAsked /\ PutStored

(* A transfer ends as long as the client reads, unless the file was cut    *)
(* below the length that was announced.                                    *)
TransferEnds == (srv.nc.file.fp # None) ~> (srv.nc.file.fp = None \/ client.gone \/ cuts > 0)

=============================================================================
