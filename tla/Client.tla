------------------------------- MODULE Client -------------------------------
(***************************************************************************)
(* Outgoing connections of mongoose: mg_connect_opt, the asynchronous      *)
(* resolver (mg_resolve_async_opt, mg_resolve_async_eh, resolve_cb),       *)
(* mg_set_timer, and mg_mgr_free.                                          *)
(*                                                                         *)
(* A connection to a host known by name is not in the list of active       *)
(* connections while the name is being resolved: a second connection, the  *)
(* resolver's, stands in for it.  The resolver's request points to the     *)
(* connection, the connection's priv_2 points to the resolver's connection.*)
(* Queries and answers are datagrams: lost, late or doubled.  Times are    *)
(* kept as the time since (age) and the time until (timer).                *)
(***************************************************************************)
EXTENDS Naturals, Sequences

CONSTANTS
  Names,       (* the connections a program makes                          *)
  Literal,     (* those whose address needs no resolver                    *)
  MaxRetries,  (* req->max_retries                                         *)
  Timeout,     (* req->timeout                                             *)
  MaxTimer,    (* bound: how far ahead a timer is set                      *)
  MaxSets,     (* bound: how often a timer is set                          *)
  MaxWire      (* bound: answers waiting at a socket                       *)

ASSUME ClientAssumption ==
  /\ Literal \subseteq Names /\ MaxRetries \in Nat /\ Timeout \in Nat \ {0}
  /\ MaxTimer \in Nat \ {0} /\ MaxSets \in Nat /\ MaxWire \in Nat \ {0}

NoTimer == MaxTimer + 1
End == <<"end">>
Conn(k) == <<"connection", k>>
Dns(k) == <<"resolver", k>>

(* What mg_parse_dns makes of a datagram: an answer section with an A      *)
(* record, one without, or no answers.                                     *)
Answers == {"A", "other", "none"}

VARIABLES
  cl,      (* the connections                                              *)
  dns,     (* their resolvers, each with its request                       *)
  sets,    (* history: timers set                                          *)
  list,    (* mgr.active_connections                                       *)
  phase,   (* "idle", "handle", "sweep", or "free" for mg_mgr_free's loop  *)
  cursor,  (* the connection the loop of this phase comes to next          *)
  ready,   (* what select and the clock said: read, write, timer due       *)
  mgr      (* "up", "freeing", "freed"                                     *)

pollVars == <<list, phase, cursor, ready, mgr>>
vars == <<cl, dns, sets, pollVars>>

NewConn == [st |-> "new", timer |-> NoTimer, close |-> FALSE, asked |-> FALSE, log |-> <<>>]

(* req is TRUE from MG_CALLOC to MG_FREE of the request.                   *)
NoDns ==
  [st |-> "none", req |-> FALSE, retries |-> 0, age |-> 0, err |-> "ok",
   timer |-> NoTimer, close |-> FALSE, unsent |-> FALSE, sent |-> FALSE, wire |-> <<>>]

Nothing == [r |-> {}, w |-> {}, due |-> {}]

Init ==
  /\ cl = [k \in Names |-> NewConn] /\ dns = [k \in Names |-> NoDns]
  /\ sets = 0
  /\ list = <<>> /\ phase = "idle" /\ cursor = End /\ ready = Nothing /\ mgr = "up"

-----------------------------------------------------------------------------
(* The program, between two polls.                                         *)

(* mg_connect_opt.  An address needs no resolver; a name makes mg_connect  *)
(* open the resolver's connection, whose request is allocated with it; an  *)
(* address that cannot be parsed gives no connection.                      *)
mg_connect_opt(k) ==
  /\ mgr = "up" /\ phase = "idle" /\ cl[k].st = "new"
  /\ \/ /\ k \in Literal
        /\ cl' = [cl EXCEPT ![k].st = "connecting"]
        /\ list' = <<Conn(k)>> \o list
        /\ UNCHANGED dns
     \/ /\ k \notin Literal
        /\ cl' = [cl EXCEPT ![k].st = "resolving"]
        /\ dns' = [dns EXCEPT ![k].st = "connecting", ![k].req = TRUE]
        /\ list' = <<Dns(k)>> \o list
     \/ cl' = [cl EXCEPT ![k].st = "refused"] /\ UNCHANGED <<dns, list>>
  /\ UNCHANGED <<sets, phase, cursor, ready, mgr>>

Alive(k) == cl[k].st \in {"resolving", "connecting", "up"}

mg_set_timer(k, t) ==
  /\ mgr = "up" /\ phase = "idle" /\ Alive(k) /\ sets < MaxSets
  /\ cl' = [cl EXCEPT ![k].timer = t]
  /\ dns' = IF cl[k].st = "resolving" THEN [dns EXCEPT ![k].timer = t] ELSE dns
  /\ sets' = sets + 1
  /\ UNCHANGED pollVars

(* The program sets MG_F_CLOSE_IMMEDIATELY.                                *)
AskClose(k) ==
  /\ mgr = "up" /\ phase = "idle" /\ Alive(k) /\ ~cl[k].close
  /\ cl' = [cl EXCEPT ![k].close = TRUE, ![k].asked = TRUE]
  /\ UNCHANGED <<dns, sets, pollVars>>

-----------------------------------------------------------------------------
(* The clock, and the name server: an answer to a query may come at any    *)
(* time after it, never, or more than once.                                *)
Sooner(t) == IF t \in 1..MaxTimer THEN t - 1 ELSE t

Tick ==
  /\ cl' = [k \in Names |-> [cl[k] EXCEPT !.timer = Sooner(@)]]
  /\ dns' = [k \in Names |-> [dns[k] EXCEPT !.timer = Sooner(@),
                                            !.age = IF @ < Timeout THEN @ + 1 ELSE @]]
  /\ UNCHANGED <<sets, pollVars>>

Answer(k, a) ==
  /\ dns[k].st = "up" /\ dns[k].sent /\ Len(dns[k].wire) < MaxWire
  /\ dns' = [dns EXCEPT ![k].wire = Append(@, a)]
  /\ UNCHANGED <<cl, sets, pollVars>>

-----------------------------------------------------------------------------
(* What a handler does to a connection (c), its resolver (d), and the list.*)
Put(c, d, add) == [c |-> c, d |-> d, add |-> add]

(* resolve_cb: the first A record, or MG_EV_CONNECT with a failure,        *)
(* MG_EV_CLOSE and mg_destroy_conn.                                        *)
resolve_cb(c, a, e) ==
  IF a = "A" THEN [c EXCEPT !.st = "connecting"]
  ELSE [c EXCEPT !.st = "gone", !.timer = NoTimer, !.close = FALSE,
          !.log = @ \o (IF e = "timeout" THEN <<"TIMER">> ELSE <<>>) \o <<"FAILED", "CLOSE">>]

(* A mutant of Query: the query is not counted as a try.                   *)
QueryUncounted(d) == [d EXCEPT !.unsent = TRUE, !.age = 0]

(* mg_send_dns_query into send_mbuf.                                       *)
Query(d) == [d EXCEPT !.unsent = TRUE, !.age = 0, !.retries = @ + 1]

(* mg_resolve_async_eh, one operator per event.  Each does nothing when    *)
(* the request is gone.                                                    *)
EhConnect(d) ==
  IF ~d.req THEN d
  ELSE IF d.retries > MaxRetries THEN [d EXCEPT !.err = "retries", !.close = TRUE]
  ELSE Query(d)

EhPoll(d) ==
  IF ~d.req THEN d
  ELSE IF d.retries > MaxRetries THEN [d EXCEPT !.err = "retries", !.close = TRUE]
  ELSE IF d.age >= Timeout THEN Query(d) ELSE d

(* A mutant of EhRecv: the request is kept once it has been answered.      *)
EhRecvKept(c, d) ==
  LET a == d.wire[1]
      read == [d EXCEPT !.wire = Tail(@), !.close = TRUE]
  IN  IF a \in {"A", "other"} THEN Put(resolve_cb(c, a, "ok"), read, a = "A")
      ELSE Put(c, [read EXCEPT !.err = "answers"], FALSE)

EhRecv(c, d) ==
  LET a == d.wire[1]
      read == [d EXCEPT !.wire = Tail(@)]
  IN  IF ~d.req THEN Put(c, read, FALSE)
      ELSE IF a \in {"A", "other"}
      THEN Put(resolve_cb(c, a, "ok"), [read EXCEPT !.req = FALSE, !.close = TRUE], a = "A")
      ELSE Put(c, [read EXCEPT !.err = "answers", !.close = TRUE], FALSE)

(* After sendto, whether or not it failed.                                 *)
EhSend(d, ok) ==
  [d EXCEPT !.sent = @ \/ ok, !.unsent = IF d.req \/ ok THEN FALSE ELSE @,
            !.close = (@ \/ ~ok) /\ ~d.req]

EhTimer(d) == IF d.req THEN [d EXCEPT !.err = "timeout", !.close = TRUE] ELSE d

(* A mutant of EhClose: the callback is called for an answered request too.*)
EhCloseAlways(c, d) == Put(resolve_cb(c, "none", d.err), [NoDns EXCEPT !.st = "closed"], FALSE)

EhClose(c, d) ==
  LET closed == [NoDns EXCEPT !.st = "closed"]
  IN  Put(IF d.req THEN resolve_cb(c, "none", d.err) ELSE c, closed, FALSE)

-----------------------------------------------------------------------------
(* mg_mgr_handle_conn for the resolver's connection: connected, then read, *)
(* then, if it is not to be closed, written, polled and its timer looked   *)
(* at.  A socket that could not be made has an error and no descriptor.    *)
Connecting(d, r) ==
  IF d.st # "connecting" THEN d
  ELSE EhConnect([d EXCEPT !.st = "up", !.close = ~r])

Reading(c, d, can) == IF can /\ d.wire # <<>> THEN EhRecv(c, d) ELSE Put(c, d, FALSE)

Writing(d, can, ok) == IF can /\ d.unsent THEN EhSend(d, ok) ELSE d

Timed(d, due) == IF due THEN EhTimer([d EXCEPT !.timer = NoTimer]) ELSE d

Rest(d, can, ok, due) == IF d.close THEN d ELSE Timed(EhPoll(Writing(d, can, ok)), due)

HandleDns(k, made, ok) ==
  LET x == Dns(k)
      p == Reading(cl[k], Connecting(dns[k], made), x \in ready.r)
  IN  Put(p.c, Rest(p.d, x \in ready.w, ok, x \in ready.due), p.add)

(* The same for a connection of the program: mg_if_connect_cb with or      *)
(* without an error, the end of the stream, then its timer.  A timer that  *)
(* is due is not told to a connection that is to be closed at once; one    *)
(* whose stream came to an orderly end is only to be closed when all is    *)
(* sent.                                                                   *)
Connected(c, is, ok) ==
  IF c.st = "connecting" /\ is
  THEN [c EXCEPT !.st = "up", !.close = @ \/ ~ok, !.log = Append(@, IF ok THEN "CONNECT" ELSE "FAILED")]
  ELSE c

StreamEnds(c, is) == IF c.st = "up" /\ is THEN [c EXCEPT !.close = TRUE] ELSE c

Rang(c, due) ==
  IF due THEN [c EXCEPT !.timer = NoTimer, !.log = Append(@, "TIMER")] ELSE c

HandleConn(k, ok, orderly) ==
  LET x == Conn(k)
      connected == Connected(cl[k], x \in ready.w, ok)
      ended == StreamEnds(connected, x \in ready.r)
      atOnce == IF orderly THEN connected.close ELSE ended.close
  IN  Rang(ended, x \in ready.due /\ ~atOnce)

-----------------------------------------------------------------------------
(* mg_socket_if_poll.                                                      *)
PlaceOf(x) == CHOOSE j \in 1..Len(list) : list[j] = x
NextOf(x) == IF PlaceOf(x) < Len(list) THEN list[PlaceOf(x) + 1] ELSE End

FirstOf(l) == IF l = <<>> THEN End ELSE l[1]

(* mg_remove_conn.                                                         *)
Without(x) == SubSeq(list, 1, PlaceOf(x) - 1) \o SubSeq(list, PlaceOf(x) + 1, Len(list))

Listed == {list[i] : i \in 1..Len(list)}

(* select: a resolver can be written to when it has something to send or   *)
(* is connecting; a connection is ready when the other side says so.       *)
Select ==
  /\ mgr # "freed" /\ phase = "idle"
  /\ \E done \in SUBSET {Conn(k) : k \in {n \in Names : cl[n].st = "connecting"}},
        ended \in SUBSET {Conn(k) : k \in {n \in Names : cl[n].st = "up"}} :
       ready' =
         [r |-> ended \cup {Dns(k) : k \in {n \in Names : dns[n].wire # <<>>}},
          w |-> done \cup {Dns(k) : k \in {n \in Names : dns[n].unsent \/ dns[n].st = "connecting"}},
          due |-> {Conn(k) : k \in {n \in Names : Conn(n) \in Listed /\ cl[n].timer = 0}}
                    \cup {Dns(k) : k \in {n \in Names : dns[n].timer = 0}}]
  /\ phase' = "handle" /\ cursor' = FirstOf(list)
  /\ UNCHANGED <<cl, dns, sets, list, mgr>>

HandlesDns(k) ==
  /\ phase = "handle" /\ cursor = Dns(k)
  /\ \E made, ok \in BOOLEAN :
       LET p == HandleDns(k, made, ok)
       IN  /\ cl' = [cl EXCEPT ![k] = p.c] /\ dns' = [dns EXCEPT ![k] = p.d]
           /\ list' = IF p.add THEN <<Conn(k)>> \o list ELSE list
  /\ cursor' = NextOf(Dns(k))
  /\ UNCHANGED <<sets, phase, ready, mgr>>

HandlesConn(k) ==
  /\ phase = "handle" /\ cursor = Conn(k)
  /\ \E ok, orderly \in BOOLEAN : cl' = [cl EXCEPT ![k] = HandleConn(k, ok, orderly)]
  /\ cursor' = NextOf(Conn(k))
  /\ UNCHANGED <<dns, sets, list, phase, ready, mgr>>

Handled ==
  /\ phase = "handle" /\ cursor = End
  /\ phase' = "sweep" /\ cursor' = FirstOf(list) /\ ready' = Nothing
  /\ UNCHANGED <<cl, dns, sets, list, mgr>>

(* The second loop closes what is to be closed; mg_mgr_free's loop closes  *)
(* everything.  mg_close_conn takes the connection out of the list, then   *)
(* calls the handler with MG_EV_CLOSE.                                     *)
Closes(flag) == (phase = "sweep" /\ flag) \/ phase = "free"

SweepsDns(k) ==
  /\ phase \in {"sweep", "free"} /\ cursor = Dns(k)
  /\ cursor' = NextOf(Dns(k))
  /\ IF Closes(dns[k].close)
     THEN LET p == EhClose(cl[k], dns[k])
          IN  /\ cl' = [cl EXCEPT ![k] = p.c] /\ dns' = [dns EXCEPT ![k] = p.d]
              /\ list' = Without(Dns(k))
     ELSE UNCHANGED <<cl, dns, list>>
  /\ UNCHANGED <<sets, phase, ready, mgr>>

SweepsConn(k) ==
  /\ phase \in {"sweep", "free"} /\ cursor = Conn(k)
  /\ cursor' = NextOf(Conn(k))
  /\ IF Closes(cl[k].close)
     THEN /\ cl' = [cl EXCEPT ![k].st = "gone", ![k].timer = NoTimer, ![k].close = FALSE,
                              ![k].log = Append(@, "CLOSE")]
          /\ list' = Without(Conn(k))
     ELSE UNCHANGED <<cl, list>>
  /\ UNCHANGED <<dns, sets, phase, ready, mgr>>

(* The poll returns; the last one of mg_mgr_free is followed by its loop.  *)
Swept ==
  /\ phase \in {"sweep", "free"} /\ cursor = End
  /\ IF phase = "sweep" /\ mgr = "freeing"
     THEN phase' = "free" /\ cursor' = FirstOf(list) /\ UNCHANGED mgr
     ELSE phase' = "idle" /\ cursor' = End /\ mgr' = (IF phase = "free" THEN "freed" ELSE mgr)
  /\ UNCHANGED <<cl, dns, sets, list, ready>>

mg_mgr_free ==
  /\ mgr = "up" /\ phase = "idle"
  /\ mgr' = "freeing"
  /\ UNCHANGED <<cl, dns, sets, list, phase, cursor, ready>>

(* One step of the thread that polls.                                      *)
mg_mgr_poll ==
  \/ Select \/ Handled \/ Swept
  \/ \E k \in Names : HandlesDns(k) \/ HandlesConn(k) \/ SweepsDns(k) \/ SweepsConn(k)

Program ==
  \/ \E k \in Names : mg_connect_opt(k) \/ AskClose(k) \/ \E t \in 1..MaxTimer : mg_set_timer(k, t)
  \/ mg_mgr_free

Next ==
  \/ Program \/ mg_mgr_poll \/ Tick
  \/ \E k \in Names, a \in Answers : Answer(k, a)

(* The program keeps polling (bl_serve's loop) and time goes on; nothing   *)
(* is assumed of the network.                                              *)
Spec == Init /\ [][Next]_vars /\ WF_vars(mg_mgr_poll) /\ WF_vars(Tick)

-----------------------------------------------------------------------------
(* The pointers between a connection and its resolver never dangle: the    *)
(* connection whose priv_2 mg_set_timer writes through is resolving, and   *)
(* then its resolver is in the list with its request; and a request is     *)
(* never left pointing at a connection that resolve_cb has already taken   *)
(* further or destroyed.                                                   *)
ResolverKnowsItsOwn ==
  \A k \in Names :
    /\ (cl[k].st = "resolving") <=> dns[k].req
    /\ cl[k].st = "resolving" => Dns(k) \in Listed /\ Conn(k) \notin Listed
    /\ cl[k].st \in {"connecting", "up"} <=> Conn(k) \in Listed

(* The handler of a connection is told of the outcome of connecting at     *)
(* most once, hears of the end exactly once and nothing afterwards, and    *)
(* of an end without an outcome only when it asked for the end itself or   *)
(* the manager was freed meanwhile; and no connection outlives the manager.*)
EventsInOrder ==
  \A k \in Names :
    LET log == cl[k].log
        At(e) == {i \in 1..Len(log) : log[i] = e}
        outcome == At("CONNECT") \cup At("FAILED")
    IN  /\ \A i, j \in outcome : i = j
        /\ At("CLOSE") = IF cl[k].st = "gone" THEN {Len(log)} ELSE {}
        /\ cl[k].st = "gone" /\ outcome = {} => cl[k].asked \/ mgr # "up"
        /\ mgr = "freed" => ~Alive(k)

(* Resolving a name ends, whatever the network does: with an answer, at    *)
(* the timer, or after the last retry.                                     *)
ResolvingEnds == \A k \in Names : cl[k].st = "resolving" ~> cl[k].st # "resolving"

-----------------------------------------------------------------------------
(* What the two invariants need to be inductive.                           *)
Events == {"CONNECT", "FAILED", "TIMER", "CLOSE"}
Things == {Conn(k) : k \in Names} \cup {Dns(k) : k \in Names}

Connection ==
  [st : {"new", "resolving", "connecting", "up", "gone", "refused"},
   timer : 0..NoTimer, close : BOOLEAN, asked : BOOLEAN, log : Seq(Events)]
Resolver ==
  [st : {"none", "connecting", "up", "closed"}, req : BOOLEAN, retries : Nat, age : Nat,
   err : {"ok", "retries", "answers", "timeout"}, timer : 0..NoTimer, close : BOOLEAN,
   unsent : BOOLEAN, sent : BOOLEAN, wire : Seq(Answers)]

TypeOK ==
  /\ cl \in [Names -> Connection] /\ dns \in [Names -> Resolver]
  /\ list \in Seq(Things)
  /\ phase \in {"idle", "handle", "sweep", "free"} /\ mgr \in {"up", "freeing", "freed"}

(* The list holds each connection once, and the loops stay in it.          *)
ListOK ==
  /\ \A i, j \in 1..Len(list) : list[i] = list[j] => i = j
  /\ cursor \in Listed \cup {End}

(* A resolver is in the list from mg_connect to its MG_EV_CLOSE, one that  *)
(* has lost its request as well; there is none yet for a new connection.   *)
ResolversListed ==
  \A k \in Names :
    /\ dns[k].st \in {"connecting", "up"} <=> Dns(k) \in Listed
    /\ dns[k].req => dns[k].st \in {"connecting", "up"}
    /\ cl[k].st = "new" => dns[k].st = "none"

(* What has been told so far, by how far a connection has got; before the  *)
(* outcome only the program itself asks for the end.                       *)
Outcomes(log) == {i \in 1..Len(log) : log[i] \in {"CONNECT", "FAILED"}}
Told ==
  \A k \in Names :
    /\ cl[k].st # "gone" => \A i \in 1..Len(cl[k].log) : cl[k].log[i] # "CLOSE"
    /\ cl[k].st \in {"new", "resolving", "connecting"} => Outcomes(cl[k].log) = {}
    /\ cl[k].st \in {"new", "resolving", "connecting"} /\ cl[k].close => cl[k].asked
    /\ cl[k].st = "up" => Outcomes(cl[k].log) # {}

(* mg_mgr_free's loop closes the connections from the first one on, so     *)
(* what it has not come to is all that is left.                            *)
Freeing ==
  /\ phase = "free" => mgr = "freeing" /\ cursor = FirstOf(list)
  /\ mgr = "freed" => list = <<>> /\ phase = "idle"

ClientInv ==
  TypeOK /\ ListOK /\ ResolversListed /\ ResolverKnowsItsOwn /\ Told /\ EventsInOrder /\ Freeing
=============================================================================
