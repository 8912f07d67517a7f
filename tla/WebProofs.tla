------------------------------ MODULE WebProofs ------------------------------
(***************************************************************************)
(* For any set of clients and whatever they send: the poll loop of the     *)
(* server goes on with a connection that is still in the list, the list    *)
(* holds no connection twice, and the listener stays in it.                *)
(*                                                                         *)
(* The loop reads the next connection before it handles or closes one, so  *)
(* the cursor is never the connection that is taken out.  That no accepted *)
(* socket is in the list before is the client's side of the invariant      *)
(* (ConnectedListed); that a failing handler says why (ErrorsNamed) needs  *)
(* the handlers, of which WsRecv runs over any number of frames.           *)
(***************************************************************************)
EXTENDS Web, SequenceTheorems, FiniteSetTheorems, WellFoundedInduction, TLAPS

All == Clients \cup {Listener}
NoTwice(l) == \A i, j \in 1..Len(l) : l[i] = l[j] => i = j

LEMMA InToSet ==
  ASSUME NEW S, NEW l \in Seq(S)
  PROVE  ToSet(l) = {l[i] : i \in 1..Len(l)}
  BY DEF ToSet

LEMMA OneSet ==
  ASSUME NEW x
  PROVE  ToSet(<<x>>) = {x}
<1> DEFINE l == <<x>>
<1>1. l \in Seq({x}) /\ Len(l) = 1 /\ l[1] = x
  OBVIOUS
<1> HIDE DEF l
<1>2. ToSet(l) = {l[i] : i \in 1..1}
  BY <1>1, InToSet
<1> QED BY <1>1, <1>2 DEF l

(* The list holds as many connections as it is long.                       *)
LEMMA NoTwiceCounts ==
  ASSUME NEW S, NEW l \in Seq(S)
  PROVE  NoTwice(l) <=> Cardinality(ToSet(l)) = Len(l)
<1> DEFINE n == Len(l)
<1>1. n \in Nat /\ DOMAIN l = 1..n
  OBVIOUS
<1>2. IsFiniteSet(1..n) /\ Cardinality(1..n) = n
  BY <1>1, FS_Interval
<1>3. l \in Surjection(1..n, ToSet(l))
  <2>1. l \in [1..n -> ToSet(l)]
    BY <1>1, InToSet
  <2>2. \A y \in ToSet(l) : \E i \in 1..n : l[i] = y
    BY InToSet
  <2> QED BY <2>1, <2>2 DEF Surjection
<1>4. /\ IsFiniteSet(ToSet(l)) /\ Cardinality(ToSet(l)) <= n
      /\ Cardinality(ToSet(l)) = n <=> l \in Injection(1..n, ToSet(l))
  BY <1>2, <1>3, FS_Surjection
<1>5. l \in Injection(1..n, ToSet(l)) <=> NoTwice(l)
  <2>1. l \in [1..n -> ToSet(l)]
    BY <1>3 DEF Surjection
  <2> QED BY <2>1 DEF Injection, IsInjective, NoTwice
<1> QED BY <1>4, <1>5

-----------------------------------------------------------------------------
(* The list.                                                               *)
Listed == ToSet(list)

LEMMA ListLemma ==
  ASSUME WebInv
  PROVE  /\ list \in Seq(All) /\ Len(list) \in Nat /\ NoTwice(list)
         /\ Listed = {list[i] : i \in 1..Len(list)} /\ Listed \subseteq All
         /\ End \notin All /\ Listener \notin Clients
<1>1. list \in Seq(All) /\ Cardinality(ToSet(list)) = Len(list)
  BY DEF WebInv, LoopStaysInList, All
<1>2. NoTwice(list)
  BY <1>1, NoTwiceCounts
<1>3. Listed = {list[i] : i \in 1..Len(list)}
  BY <1>1, InToSet DEF Listed
<1>4. End \notin All /\ Listener \notin Clients
  BY WebAssumption DEF All, End, Listener
<1> QED BY <1>1, <1>2, <1>3, <1>4

LEMMA PlaceLemma ==
  ASSUME WebInv, NEW x \in Listed
  PROVE  /\ PlaceOf(x) \in 1..Len(list) /\ list[PlaceOf(x)] = x
         /\ \A i \in 1..Len(list) : list[i] = x => i = PlaceOf(x)
<1>1. \E j \in 1..Len(list) : list[j] = x
  BY ListLemma
<1>2. PlaceOf(x) \in 1..Len(list) /\ list[PlaceOf(x)] = x
  BY <1>1, Zenon DEF PlaceOf
<1> QED BY <1>2, ListLemma DEF NoTwice

(* The cursor goes on to another connection of the list, or ends.          *)
LEMMA NextLemma ==
  ASSUME WebInv, NEW x \in Listed
  PROVE  NextOf(x) \in (Listed \ {x}) \cup {End}
<1>1. CASE PlaceOf(x) < Len(list)
  <2>1. PlaceOf(x) + 1 \in 1..Len(list)
    BY <1>1, PlaceLemma, ListLemma
  <2>2. list[PlaceOf(x) + 1] \in Listed
    BY <2>1, ListLemma
  <2>3. list[PlaceOf(x) + 1] # x
    BY <2>1, PlaceLemma, ListLemma
  <2> QED BY <1>1, <2>2, <2>3 DEF NextOf
<1>2. CASE ~(PlaceOf(x) < Len(list))
  BY <1>2 DEF NextOf
<1> QED BY <1>1, <1>2

LEMMA FirstLemma ==
  ASSUME WebInv
  PROVE  FirstOf(list) \in Listed \cup {End}
<1>1. CASE list = <<>>
  BY <1>1 DEF FirstOf
<1>2. CASE list # <<>>
  <2>1. 1 \in 1..Len(list)
    BY <1>2, ListLemma, EmptySeq
  <2>2. list[1] \in Listed
    BY <2>1, ListLemma
  <2> QED BY <1>2, <2>2 DEF FirstOf
<1> QED BY <1>1, <1>2

(* mg_remove_conn takes out one connection and leaves the others.          *)
LEMMA WithoutLemma ==
  ASSUME WebInv, NEW x \in Listed
  PROVE  Without(x) \in Seq(All) /\ NoTwice(Without(x)) /\ ToSet(Without(x)) = Listed \ {x}
<1> DEFINE p == PlaceOf(x)
           n == Len(list)
           a == SubSeq(list, 1, p - 1)
           b == SubSeq(list, p + 1, n)
           w == Without(x)
<1>1. /\ p \in 1..n /\ list[p] = x /\ \A i \in 1..n : list[i] = x => i = p
      /\ n \in Nat /\ list \in Seq(All)
  BY PlaceLemma, ListLemma
<1>2. a \in Seq(All) /\ Len(a) = p - 1 /\ \A i \in 1..(p - 1) : a[i] = list[i]
  BY <1>1
<1>3. b \in Seq(All) /\ Len(b) = n - p /\ \A i \in 1..(n - p) : b[i] = list[p + i]
  <2>1. CASE p = n
    BY <1>1, <2>1
  <2>2. CASE p < n
    BY <1>1, <2>2
  <2> QED BY <1>1, <2>1, <2>2
<1>4. w = a \o b
  BY DEF Without
<1> HIDE DEF p, a, b, w
<1>5. w \in Seq(All) /\ Len(w) = n - 1
  BY <1>1, <1>2, <1>3, <1>4, SMTT(30)
<1>6. \A i \in 1..(n - 1) : w[i] = IF i < p THEN list[i] ELSE list[i + 1]
  BY <1>1, <1>2, <1>3, <1>4
<1>7. NoTwice(w)
  BY <1>1, <1>5, <1>6, ListLemma DEF NoTwice
<1>8. ToSet(w) = {w[i] : i \in 1..(n - 1)}
  BY <1>5, InToSet
<1>9. ToSet(w) \subseteq Listed \ {x}
  BY <1>1, <1>6, <1>8, ListLemma
<1>10. ASSUME NEW y \in Listed, y # x PROVE y \in ToSet(w)
  <2>1. PICK i \in 1..n : list[i] = y
    BY ListLemma
  <2>2. CASE i < p
    BY <1>1, <1>6, <1>8, <2>1, <2>2
  <2>3. CASE i > p
    <3>1. i - 1 \in 1..(n - 1) /\ w[i - 1] = list[i]
      BY <1>1, <1>6, <2>3
    <3> QED BY <1>8, <2>1, <3>1
  <2> QED BY <1>1, <1>10, <2>1, <2>2, <2>3
<1> QED BY <1>5, <1>7, <1>9, <1>10 DEF w

(* mg_add_conn.                                                            *)
LEMMA InFrontLemma ==
  ASSUME WebInv, NEW x \in All \ Listed, NEW l, l = <<x>> \o list
  PROVE  l \in Seq(All) /\ NoTwice(l) /\ ToSet(l) = Listed \cup {x}
<1>1. list \in Seq(All) /\ Len(list) \in Nat
  BY ListLemma
<1>2. l \in Seq(All) /\ Len(l) = Len(list) + 1
  BY <1>1
<1>3. \A i \in 1..(Len(list) + 1) : l[i] = IF i = 1 THEN x ELSE list[i - 1]
  BY <1>1
<1>4. \A i \in 1..Len(list) : list[i] # x
  BY ListLemma
<1>5. NoTwice(l)
  BY <1>1, <1>2, <1>3, <1>4, ListLemma DEF NoTwice
<1>6. ToSet(l) = {l[i] : i \in 1..(Len(list) + 1)}
  <2>1. \A s \in Seq(All) : ToSet(s) = {s[i] : i \in 1..Len(s)}
    BY InToSet
  <2> HIDE DEF All
  <2>2. ToSet(l) = {l[i] : i \in 1..Len(l)}
    BY <1>2, <2>1
  <2> QED BY <1>2, <2>2
<1>7. ToSet(l) \subseteq Listed \cup {x}
  BY <1>1, <1>3, <1>6, ListLemma
<1>8. x \in ToSet(l)
  BY <1>1, <1>3, <1>6
<1>9. ASSUME NEW y \in Listed PROVE y \in ToSet(l)
  <2>1. PICK i \in 1..Len(list) : list[i] = y
    BY ListLemma
  <2>2. i + 1 \in 1..(Len(list) + 1) /\ l[i + 1] = y
    BY <1>1, <1>3, <2>1
  <2> QED BY <1>6, <2>2
<1> QED BY <1>2, <1>5, <1>7, <1>8, <1>9

-----------------------------------------------------------------------------
(* The buffers of one connection.                                          *)
Fields == {"recv", "send", "flags", "proto", "rcvd", "chunk", "reass", "log", "err"}

LEMMA FieldsOf == DOMAIN NewConnection = Fields
  BY DEF NewConnection, Fields

LEMMA NewBuffered == Buffered(NewConnection)
<1>1. /\ NewConnection.recv = <<>> /\ NewConnection.chunk = 0 /\ NewConnection.reass = 0
      /\ NewConnection.err = "none"
  BY DEF NewConnection
<1>2. <<>> \in Seq(Units) /\ Len(<<>>) = 0
  OBVIOUS
<1> QED BY <1>1, <1>2 DEF Buffered

LEMMA CutType ==
  ASSUME NEW S, NEW b \in Seq(S), NEW m \in Nat \ {0}, NEW n \in Int, n <= Len(b)
  PROVE  /\ SubSeq(b, m, n) \in Seq(S)
         /\ Len(SubSeq(b, m, n)) = IF m <= n THEN n - m + 1 ELSE 0
         /\ \A i \in 1..(n - m + 1) : SubSeq(b, m, n)[i] = b[m + i - 1]
<1>1. CASE m <= n
  BY <1>1
<1>2. CASE n < m
  BY <1>2
<1> QED BY <1>1, <1>2

LEMMA RestType ==
  ASSUME NEW S, NEW b \in Seq(S), NEW m \in Nat \ {0}, m <= Len(b) + 1
  PROVE  SubSeq(b, m, Len(b)) \in Seq(S) /\ Len(SubSeq(b, m, Len(b))) = Len(b) + 1 - m
<1>1. Len(b) \in Nat
  OBVIOUS
<1>2. CASE m <= Len(b)
  BY <1>1, <1>2
<1>3. CASE m = Len(b) + 1
  BY <1>1, <1>3
<1> QED BY <1>1, <1>2, <1>3

LEMMA RemoveType ==
  ASSUME NEW S, NEW b \in Seq(S), NEW n \in Int
  PROVE  mbuf_remove(b, n) \in Seq(S)
<1>1. CASE n > 0 /\ n <= Len(b)
  <2>1. SubSeq(b, n + 1, Len(b)) \in Seq(S)
    BY <1>1, CutType, Len(b) \in Nat
  <2> QED BY <1>1, <2>1 DEF mbuf_remove
<1>2. CASE ~(n > 0 /\ n <= Len(b))
  BY <1>2 DEF mbuf_remove
<1> QED BY <1>1, <1>2

(* What is sent, flagged or told leaves what was received alone.           *)
SameBuffers(c, d) ==
  /\ DOMAIN d = DOMAIN c
  /\ d.recv = c.recv /\ d.chunk = c.chunk /\ d.reass = c.reass /\ d.proto = c.proto /\ d.err = c.err

LEMMA SameBuffered ==
  ASSUME NEW c, Buffered(c), NEW d, SameBuffers(c, d)
  PROVE  Buffered(d)
  BY DEF Buffered, SameBuffers

LEMMA SameTwice ==
  ASSUME NEW c, NEW d, NEW e, SameBuffers(c, d), SameBuffers(d, e)
  PROVE  SameBuffers(c, e)
  BY DEF SameBuffers

LEMMA SendSame ==
  ASSUME NEW c, Buffered(c), NEW x
  PROVE  SameBuffers(c, mg_send(c, x)) /\ SameBuffers(c, Flagged(c, x)) /\ SameBuffers(c, mg_call(c, x))
<1>1. DOMAIN c = Fields
  BY FieldsOf DEF Buffered
<1> QED BY <1>1 DEF SameBuffers, mg_send, Flagged, mg_call, Fields

LEMMA SendFrameSame ==
  ASSUME NEW c, Buffered(c), NEW op, NEW data
  PROVE  SameBuffers(c, mg_send_websocket_frame(c, op, data))
<1> DEFINE s == mg_send(c, <<<<"f", op, TRUE>>, <<"l", Len(data)>>>> \o data)
<1>1. SameBuffers(c, s) /\ Buffered(s)
  BY SendSame, SameBuffered
<1>2. mg_send_websocket_frame(c, op, data) = IF op = "close" THEN Flagged(s, "send_and_close") ELSE s
  BY DEF mg_send_websocket_frame
<1> HIDE DEF s
<1>3. SameBuffers(s, Flagged(s, "send_and_close"))
  BY <1>1, SendSame
<1> QED BY <1>1, <1>2, <1>3, SameTwice

LEMMA CloseSame ==
  ASSUME NEW c, Buffered(c), NEW data
  PROVE  SameBuffers(c, mg_ws_close(c, data))
<1> DEFINE s == mg_send_websocket_frame(c, "close", data)
<1>1. SameBuffers(c, s) /\ Buffered(s)
  BY SendFrameSame, SameBuffered
<1>2. mg_ws_close(c, data) = Flagged(s, "send_and_close")
  BY DEF mg_ws_close
<1> HIDE DEF s
<1> QED BY <1>1, <1>2, SendSame, SameTwice

LEMMA SetBuffers ==
  ASSUME NEW c, Buffered(c), NEW r \in Seq(Units), NEW n \in 0..Len(r), c.proto = "ws" \/ n = 0,
         NEW d, d = [c EXCEPT !.recv = r, !.reass = n]
  PROVE  Buffered(d) /\ d.proto = c.proto /\ d.recv = r /\ d.reass = n
<1>1. DOMAIN c = Fields
  BY FieldsOf DEF Buffered
<1> QED BY <1>1, FieldsOf DEF Buffered, Fields

(* The data behind what was reassembled.                                   *)
LEMMA NewDataType ==
  ASSUME NEW c, Buffered(c)
  PROVE  NewData(c) \in Seq(Units) /\ Len(NewData(c)) = Len(c.recv) - c.reass
  BY CutType, SMTT(30) DEF Buffered, NewData

(* A fragment whose payload is all there stays within the buffer, and the  *)
(* last one is taken out of it.                                            *)
LEMMA FragmentBuffered ==
  ASSUME NEW c, Buffered(c), c.proto = "ws",
         NEW size \in Nat, NEW new, new = NewData(c), Len(new) >= 2, 2 + size <= Len(new)
  PROVE  Buffered(Fragment(c, new, size)) /\ Fragment(c, new, size).proto = "ws"
<1> DEFINE first == new[1][2] # "cont"
           head == IF first THEN <<new[1]>> ELSE <<>>
           before == SubSeq(c.recv, 1, c.reass)
           kept == before \o head
           len == (IF first THEN 1 ELSE c.reass) + size
           rest == SubSeq(new, 3, Len(new))
           recv == kept \o rest
           d == [c EXCEPT !.recv = recv, !.reass = len]
           e == [c EXCEPT !.recv = recv, !.reass = 0]
<1>1. new \in Seq(Units) /\ Len(new) \in Nat /\ c.recv \in Seq(Units) /\ c.reass \in 0..Len(c.recv)
  BY NewDataType DEF Buffered
<1>2. rest \in Seq(Units) /\ Len(rest) = Len(new) - 2
  <2>1. CASE Len(new) = 2
    BY <1>1, <2>1
  <2>2. CASE Len(new) > 2
    BY <1>1, <2>2
  <2>3. Len(new) = 2 \/ Len(new) > 2
    <3> DEFINE n == Len(new)
    <3>1. n \in Nat /\ n >= 2
      BY <1>1
    <3> HIDE DEF n
    <3>2. n = 2 \/ n > 2
      BY <3>1
    <3> QED BY <3>2 DEF n
  <2> QED BY <2>1, <2>2, <2>3
<1>3. head \in Seq(Units) /\ Len(head) \in Nat
  BY <1>1
<1>4. before \in Seq(Units) /\ Len(before) = c.reass
  BY <1>1, CutType
<1>5. kept \in Seq(Units) /\ Len(kept) = c.reass + Len(head)
  <2> HIDE DEF head, before
  <2>1. before \o head \in Seq(Units) /\ Len(before \o head) = Len(before) + Len(head)
    BY <1>3, <1>4, ConcatProperties
  <2> QED BY <1>4, <2>1
<1>6. recv \in Seq(Units) /\ Len(recv) = c.reass + Len(head) + Len(rest)
  <2> HIDE DEF kept, rest, head
  <2>1. rest \in Seq(Units) /\ kept \in Seq(Units)
    BY <1>2, <1>5
  <2>2. recv \in Seq(Units) /\ Len(recv) = Len(kept) + Len(rest)
    BY <2>1
  <2> QED BY <1>1, <1>3, <1>5, <2>2
<1>7. len \in 0..Len(recv)
  <2> HIDE DEF recv
  <2>1. CASE first
    <3>1. head = <<new[1]>> /\ Len(head) = 1
      BY <2>1
    <3> HIDE DEF head, rest
    <3> QED BY <1>1, <1>2, <1>6, <2>1, <3>1
  <2>2. CASE ~first
    <3> HIDE DEF head, rest
    <3> QED BY <1>1, <1>2, <1>3, <1>6, <2>2, SMTT(30)
  <2> QED BY <2>1, <2>2
<1> HIDE DEF recv, len
<1>8. Buffered(d) /\ d.proto = "ws"
  <2>1. d = [c EXCEPT !.recv = recv, !.reass = len]
    OBVIOUS
  <2> HIDE DEF d
  <2> QED BY <1>6, <1>7, <2>1, FieldsOf DEF Buffered, Fields
<1>9. [d EXCEPT !.reass = 0] = e
  <2>1. DOMAIN c = Fields
    BY FieldsOf DEF Buffered
  <2> QED BY <2>1 DEF Fields
<1>10. Buffered(e) /\ e.proto = "ws" /\ e.recv = recv /\ e.reass = 0
  <2>1. 0 \in 0..Len(recv)
    BY <1>6
  <2>2. e = [c EXCEPT !.recv = recv, !.reass = 0]
    OBVIOUS
  <2> HIDE DEF e
  <2> QED BY <1>6, <2>1, <2>2, FieldsOf DEF Buffered, Fields
<1> DEFINE m == mg_call(e, Reassembled(d, len))
<1>11. Buffered(m) /\ m.proto = "ws" /\ m.recv = recv /\ m.reass = 0
  <2> HIDE DEF e
  <2>1. SameBuffers(e, m)
    BY <1>10, SendSame
  <2> QED BY <1>10, <2>1, SameBuffered DEF SameBuffers
<1>12. mbuf_remove(recv, len) \in Seq(Units)
  BY <1>6, <1>7, RemoveType
<1> DEFINE last == [m EXCEPT !.recv = mbuf_remove(@, len)]
<1>13. Buffered(last) /\ last.proto = "ws"
  <2> HIDE DEF m
  <2>1. DOMAIN m = Fields
    BY <1>11, FieldsOf DEF Buffered
  <2>2. last = [m EXCEPT !.recv = mbuf_remove(recv, len)]
    BY <1>11
  <2> QED BY <1>11, <1>12, <2>1, <2>2 DEF Buffered, Fields
<1>14. Fragment(c, new, size) = IF new[1][3] THEN last ELSE d
  BY <1>9 DEF Fragment, recv, len
<1> HIDE DEF last, d
<1> QED BY <1>8, <1>13, <1>14

LEMMA WholeBuffered ==
  ASSUME NEW c, Buffered(c), c.proto = "ws",
         NEW size \in Nat, NEW new, new = NewData(c), Len(new) >= 2, 2 + size <= Len(new)
  PROVE  Buffered(Whole(c, new, size)) /\ Whole(c, new, size).proto = "ws"
<1> DEFINE op == new[1][2]
           data == SubSeq(new, 3, 2 + size)
           reply == CASE op = "ping" -> mg_send_websocket_frame(c, "pong", data)
                      [] op = "close" -> mg_ws_close(c, data)
                      [] OTHER -> c
           event == <<IF op \in ControlOps THEN "control" ELSE "frame", op, data>>
           recv == SubSeq(c.recv, 1, c.reass) \o SubSeq(new, 3 + size, Len(new))
           m == mg_call(reply, event)
<1>1. new \in Seq(Units) /\ Len(new) \in Nat /\ c.recv \in Seq(Units) /\ c.reass \in 0..Len(c.recv)
  BY NewDataType DEF Buffered
<1>2. SubSeq(new, 3 + size, Len(new)) \in Seq(Units) /\ SubSeq(c.recv, 1, c.reass) \in Seq(Units)
      /\ Len(SubSeq(c.recv, 1, c.reass)) = c.reass
  BY <1>1, CutType
<1>3. recv \in Seq(Units) /\ Len(recv) >= c.reass
  BY <1>1, <1>2
<1>4. Buffered(reply) /\ reply.proto = "ws" /\ reply.reass = c.reass
  <2>1. reply \in {mg_send_websocket_frame(c, "pong", data), mg_ws_close(c, data), c}
    OBVIOUS
  <2> HIDE DEF reply
  <2>2. SameBuffers(c, mg_send_websocket_frame(c, "pong", data)) /\ SameBuffers(c, mg_ws_close(c, data))
        /\ SameBuffers(c, c)
    BY SendFrameSame, CloseSame DEF SameBuffers
  <2>3. SameBuffers(c, reply)
    BY <2>1, <2>2
  <2> QED BY <2>3, SameBuffered DEF SameBuffers
<1> HIDE DEF reply, event, recv
<1>5. Buffered(m) /\ m.proto = "ws" /\ m.reass = c.reass
  BY <1>4, SendSame, SameBuffered DEF SameBuffers
<1>6. Whole(c, new, size) = [m EXCEPT !.recv = recv]
  BY DEF Whole, reply, event, recv
<1> HIDE DEF m
<1>7. DOMAIN m = Fields
  BY <1>5, FieldsOf DEF Buffered
<1>8. Buffered([m EXCEPT !.recv = recv]) /\ [m EXCEPT !.recv = recv].proto = "ws"
  BY <1>1, <1>3, <1>5, <1>7 DEF Buffered, Fields
<1> QED BY <1>6, <1>8

LEMMA DeliverBuffered ==
  ASSUME NEW c, Buffered(c), c.proto = "ws"
  PROVE  LET d == mg_deliver_websocket_data(c).c
         IN  Buffered(d) /\ d.proto = "ws"
<1> DEFINE new == NewData(c)
           n == Len(new)
           fragment == n > 0 /\ (~ new[1][3] \/ new[1][2] = "cont")
           size == IF n >= 2 /\ new[2][1] = "l" THEN new[2][2] ELSE 0
           d == mg_deliver_websocket_data(c).c
<1> SUFFICES Buffered(d) /\ d.proto = "ws"
  OBVIOUS
<1>1. new \in Seq(Units) /\ n \in Nat
  BY NewDataType
<1>2. size \in Nat
  <2>1. n >= 2 => new[2] \in Units
    BY <1>1
  <2> QED BY <2>1, ScriptsAssumption
<1>3. \/ d = mg_ws_close(c, <<>>)
      \/ d = c
      \/ n >= 2 /\ 2 + size <= n /\ d \in {Fragment(c, new, size), Whole(c, new, size)}
  <2> HIDE DEF size, fragment, n, new
  <2> QED BY <1>1, <1>2 DEF mg_deliver_websocket_data, new, n, fragment, size
<1> HIDE DEF d, size
<1>4. CASE d = mg_ws_close(c, <<>>)
  BY <1>4, CloseSame, SameBuffered DEF SameBuffers
<1>5. CASE d = c
  BY <1>5
<1>6. CASE n >= 2 /\ 2 + size <= n /\ d \in {Fragment(c, new, size), Whole(c, new, size)}
  BY <1>1, <1>2, <1>6, FragmentBuffered, WholeBuffered
<1> QED BY <1>3, <1>4, <1>5, <1>6

-----------------------------------------------------------------------------
(* Induction, from the least element of a set of numbers.                  *)
LEMMA LeastElement ==
  ASSUME NEW T, T \subseteq Nat, T # {}
  PROVE  \E n \in T : \A m \in T : n <= m
<1> DEFINE R == {ss \in Nat \X Nat : ss[1] < ss[2]}
<1>1. IsWellFoundedOn(R, Nat)
  BY NatLessThanWellFounded DEF OpToRel
<1> HIDE DEF R
<1>2. PICK n \in T : \A m \in T : ~ (<<m, n>> \in R)
  BY <1>1, WFMin
<1>3. ASSUME NEW m \in T PROVE n <= m
  <2>1. m \in Nat /\ n \in Nat
    OBVIOUS
  <2>2. m < n => <<m, n>> \in R
    BY <2>1 DEF R
  <2> QED BY <1>2, <2>1, <2>2
<1> QED BY <1>3

LEMMA SetInduction ==
  ASSUME NEW S, 0 \in S, \A n \in Nat : n \in S => n + 1 \in S
  PROVE  Nat \subseteq S
<1>1. SUFFICES ASSUME Nat \ S # {} PROVE FALSE
  OBVIOUS
<1>2. PICK n \in Nat \ S : \A m \in Nat \ S : n <= m
  BY <1>1, LeastElement
<1>3. n # 0
  OBVIOUS
<1>4. n - 1 \in Nat /\ n - 1 \in S
  BY <1>2, <1>3
<1> QED BY <1>4, (n - 1) + 1 = n

(* The frames are delivered one by one: the recursion of WsRecv has its    *)
(* values, and each of them is a connection with its buffers in order.     *)
LEMMA WsRecvBuffered ==
  ASSUME NEW c, Buffered(c), c.proto = "ws"
  PROVE  Buffered(WsRecv(c)) /\ WsRecv(c).proto = "ws"
<1> DEFINE frames == Len(c.recv) \div 2 + 1
           Start == [ok |-> TRUE, c |-> c]
           After(b) == IF b.ok THEN mg_deliver_websocket_data(b.c) ELSE b
           Runs(n, g) == g = [i \in 0..n |-> IF i = 0 THEN Start ELSE After(g[i - 1])]
           run == CHOOSE g : Runs(frames, g)
<1>1. frames \in Nat
  <2>1. Len(c.recv) \in Nat
    BY DEF Buffered
  <2>2. \A m \in Nat : m \div 2 + 1 \in Nat
    OBVIOUS
  <2> QED BY <2>1, <2>2
<1> HIDE DEF After, Start
<1>2. \A n \in Nat : \E g : Runs(n, g)
  <2> DEFINE S == {n \in Nat : \E g : Runs(n, g)}
  <2>1. 0 \in S
    <3> DEFINE g == [i \in 0..0 |-> Start]
    <3>1. g = [i \in 0..0 |-> IF i = 0 THEN Start ELSE After(g[i - 1])]
      OBVIOUS
    <3>2. Runs(0, g)
      BY <3>1
    <3> HIDE DEF g, Runs
    <3> QED BY <3>2
  <2>2. ASSUME NEW n \in Nat, n \in S PROVE n + 1 \in S
    <3>1. PICK g : Runs(n, g)
      BY <2>2
    <3> DEFINE h == [i \in 0..(n + 1) |-> IF i = n + 1 THEN After(g[n]) ELSE g[i]]
               k == [i \in 0..(n + 1) |-> IF i = 0 THEN Start ELSE After(h[i - 1])]
    <3>2. ASSUME NEW i \in 0..(n + 1) PROVE h[i] = k[i]
      <4>1. CASE i = 0
        <5>1. 0 \in 0..n /\ g[0] = Start
          BY <3>1
        <5> QED BY <4>1, <5>1
      <4>2. CASE i \in 1..n
        <5>1. g[i] = After(g[i - 1]) /\ i \in 0..n /\ i - 1 \in 0..n
          BY <3>1, <4>2
        <5>2. h[i] = g[i] /\ h[i - 1] = g[i - 1]
          BY <4>2
        <5> QED BY <4>2, <5>1, <5>2
      <4>3. CASE i = n + 1
        <5>1. h[n] = g[n] /\ i # 0 /\ i - 1 = n
          BY <4>3
        <5> QED BY <4>3, <5>1
      <4> QED BY <4>1, <4>2, <4>3
    <3>3. h = k
      <4> HIDE DEF After
      <4> QED BY <3>2
    <3>4. Runs(n + 1, h)
      BY <3>3
    <3> HIDE DEF h, Runs
    <3> QED BY <3>4
  <2> HIDE DEF S
  <2>3. Nat \subseteq S
    BY <2>1, <2>2, SetInduction
  <2> QED BY <2>3 DEF S
<1>3. Runs(frames, run)
  <2> HIDE DEF Runs, frames
  <2> QED BY <1>1, <1>2
<1> HIDE DEF run
<1>4. run[0] = Start /\ \A n \in Nat : n + 1 <= frames => run[n + 1] = After(run[n])
  <2> HIDE DEF frames
  <2>1. 0 \in 0..frames /\ \A n \in Nat : n + 1 <= frames => n + 1 \in 0..frames /\ n + 1 # 0 /\ (n + 1) - 1 = n
    BY <1>1
  <2> QED BY <1>3, <2>1
<1> HIDE DEF Runs
<1> DEFINE P(b) == Buffered(b.c) /\ b.c.proto = "ws"
           T == {n \in Nat : n <= frames => P(run[n])}
<1>5. 0 \in T
  <2>1. P(Start)
    BY DEF Start
  <2> HIDE DEF P, frames
  <2> QED BY <1>4, <2>1
<1>6. ASSUME NEW n \in Nat, n \in T PROVE n + 1 \in T
  <2> SUFFICES ASSUME n + 1 <= frames PROVE P(run[n + 1])
    <3> HIDE DEF P, frames
    <3> QED OBVIOUS
  <2>1. P(run[n]) /\ run[n + 1] = After(run[n])
    <3> HIDE DEF P, frames
    <3> QED BY <1>1, <1>4, <1>6
  <2>2. P(After(run[n]))
    BY <2>1, DeliverBuffered DEF After
  <2> QED BY <2>1, <2>2
<1>7. P(run[frames])
  <2> HIDE DEF T
  <2>1. frames \in T
    BY <1>1, <1>5, <1>6, SetInduction
  <2> HIDE DEF P, frames
  <2> QED BY <1>1, <2>1 DEF T
<1>8. WsRecv(c) = run[frames].c
  BY DEF WsRecv, run, Runs, Start, After
<1> QED BY <1>7, <1>8

-----------------------------------------------------------------------------
(* The chunks of a body.                                                   *)
LEMMA ParseChunkLength ==
  ASSUME NEW s \in Seq(Units)
  PROVE  mg_http_parse_chunk(s) \in 0..Len(s)
<1>1. Len(s) \in Nat
  OBVIOUS
<1>2. CASE Len(s) > 0 /\ s[1][1] = "s" /\ s[1][2] + 2 <= Len(s) /\ s[s[1][2] + 2][1] = "z"
  <2>1. s[1] \in Units
    BY <1>1, <1>2
  <2>2. s[1][2] \in Nat
    BY <1>2, <2>1, ScriptsAssumption
  <2> QED BY <1>1, <1>2, <2>2 DEF mg_http_parse_chunk
<1>3. CASE ~(Len(s) > 0 /\ s[1][1] = "s" /\ s[1][2] + 2 <= Len(s) /\ s[s[1][2] + 2][1] = "z")
  BY <1>1, <1>3 DEF mg_http_parse_chunk
<1> QED BY <1>2, <1>3

(* The recursion of Chunks runs to the end of the buffer, and its values   *)
(* stay within it.                                                         *)
LEMMA ChunksType ==
  ASSUME NEW buf \in Seq(Units), NEW p \in 0..Len(buf)
  PROVE  Chunks(buf)[p].end \in p..Len(buf) /\ Chunks(buf)[p].data \in Seq(Units)
<1> DEFINE L == Len(buf)
           n(q) == mg_http_parse_chunk(SubSeq(buf, q + 1, L))
           Stop(q) == [end |-> q + n(q), zero |-> n(q) = 2, data |-> <<>>]
           Join(q, e) == [e EXCEPT !.data = SubSeq(buf, q + 2, q + n(q) - 1) \o @]
           Value(q, g) == IF n(q) \in {0, 2} THEN Stop(q) ELSE Join(q, g[q + n(q)])
           Walks(m, g) == g = [q \in m..L |-> Value(q, g)]
           from == CHOOSE g : Walks(0, g)
<1>1. L \in Nat
  OBVIOUS
<1>2. ASSUME NEW q \in 0..L PROVE n(q) \in 0..(L - q)
  <2>1. SubSeq(buf, q + 1, L) \in Seq(Units) /\ Len(SubSeq(buf, q + 1, L)) = L - q
    BY <1>1, RestType
  <2> QED BY <2>1, ParseChunkLength
<1> HIDE DEF L, n, Stop, Join
<1>3. ASSUME NEW q \in 0..L, NEW g, NEW h,
             \A r \in 0..L : r > q => g[r] = h[r]
      PROVE  Value(q, g) = Value(q, h)
  <2>1. CASE n(q) \in {0, 2}
    BY <2>1
  <2>2. CASE n(q) \notin {0, 2}
    <3>1. q + n(q) \in 0..L /\ q + n(q) > q
      <4> DEFINE d == n(q)
      <4>1. d \in 0..(L - q) /\ d # 0
        BY <1>2, <2>2
      <4> HIDE DEF d
      <4>2. q + d \in 0..L /\ q + d > q
        BY <1>1, <4>1
      <4> QED BY <4>2 DEF d
    <3> QED BY <1>3, <2>2, <3>1
  <2> QED BY <2>1, <2>2
<1> HIDE DEF Value
<1>4. \A m \in Nat : m <= L => \E g : Walks(L - m, g)
  <2> DEFINE S == {m \in Nat : m <= L => \E g : Walks(L - m, g)}
  <2>1. 0 \in S
    <3> DEFINE g == [q \in L..L |-> Value(q, <<>>)]
               k == [q \in L..L |-> Value(q, g)]
    <3>1. ASSUME NEW q \in L..L PROVE g[q] = k[q]
      <4>1. q \in 0..L /\ \A r \in 0..L : r > q => g[r] = <<>>[r]
        BY <1>1
      <4> HIDE DEF g
      <4>2. Value(q, <<>>) = Value(q, g)
        BY <1>3, <4>1
      <4> QED BY <4>2 DEF g
    <3>2. g = k
      BY <3>1
    <3>3. Walks(L - 0, g)
      BY <1>1, <3>2
    <3> HIDE DEF g, Walks
    <3> QED BY <3>3
  <2>2. ASSUME NEW m \in Nat, m \in S PROVE m + 1 \in S
    <3> SUFFICES ASSUME m + 1 <= L PROVE \E g : Walks(L - (m + 1), g)
      OBVIOUS
    <3>1. PICK g : Walks(L - m, g)
      <4> HIDE DEF Walks
      <4> QED BY <1>1, <2>2
    <3> DEFINE o == L - (m + 1)
               h == [q \in o..L |-> IF q = o THEN Value(o, g) ELSE g[q]]
               k == [q \in o..L |-> Value(q, h)]
    <3>2. o \in 0..L /\ L - m = o + 1
      BY <1>1
    <3> HIDE DEF o
    <3>3. ASSUME NEW q \in o..L PROVE h[q] = k[q]
      <4>1. q \in 0..L /\ \A r \in 0..L : r > q => g[r] = h[r]
        BY <1>1, <3>2
      <4>2. Value(q, g) = Value(q, h)
        <5> HIDE DEF h
        <5> QED BY <1>3, <4>1
      <4>3. CASE q = o
        BY <3>2, <4>2, <4>3
      <4>4. CASE q # o
        <5>1. q \in (o + 1)..L
          BY <1>1, <3>2, <4>4
        <5>2. g[q] = Value(q, g)
          BY <3>1, <3>2, <5>1
        <5> QED BY <4>2, <4>4, <5>2
      <4> QED BY <4>3, <4>4
    <3>4. h = k
      BY <3>3
    <3>5. Walks(o, h)
      BY <3>4
    <3> HIDE DEF h, Walks
    <3> QED BY <3>5 DEF o
  <2> HIDE DEF S
  <2>3. Nat \subseteq S
    BY <2>1, <2>2, SetInduction
  <2> QED BY <2>3 DEF S
<1>5. Walks(0, from)
  <2>1. L - L = 0 /\ L <= L
    BY <1>1
  <2> HIDE DEF Walks
  <2>2. \E g : Walks(0, g)
    BY <1>1, <1>4, <2>1
  <2> QED BY <2>2
<1> HIDE DEF from
<1>6. \A q \in 0..L : from[q] = Value(q, from)
  BY <1>5
<1> HIDE DEF Walks
<1> DEFINE Typed(q, e) ==
             DOMAIN e = {"end", "zero", "data"} /\ e.end \in q..L /\ e.data \in Seq(Units)
           Bad == {m \in Nat : m <= L /\ ~Typed(L - m, from[L - m])}
<1>7. ASSUME NEW m \in Bad, \A j \in Bad : m <= j PROVE FALSE
  <2> DEFINE q == L - m
  <2>1. m \in Nat /\ m <= L /\ q \in 0..L /\ ~Typed(q, from[q])
    <3> HIDE DEF Typed
    <3> QED BY <1>1
  <2>2. from[q] = Value(q, from) /\ n(q) \in 0..(L - q)
    <3> HIDE DEF q
    <3> QED BY <1>2, <1>6, <2>1
  <2>3. CASE n(q) \in {0, 2}
    <3>1. from[q] = Stop(q)
      BY <2>2, <2>3 DEF Value
    <3> HIDE DEF q
    <3>2. Typed(q, Stop(q))
      BY <1>1, <2>1, <2>2 DEF Stop
    <3> QED BY <2>1, <3>1, <3>2
  <2>4. CASE n(q) \notin {0, 2}
    <3> DEFINE r == q + n(q)
               new == SubSeq(buf, q + 2, q + n(q) - 1)
    <3>1. from[q] = Join(q, from[r])
      BY <2>2, <2>4 DEF Value
    <3>2. n(q) \in Nat /\ n(q) > 0 /\ r \in 0..L /\ r > q /\ L - r \in Nat /\ L - r < m /\ L - (L - r) = r
      BY <1>1, <2>1, <2>2, <2>4
    <3>3. Typed(r, from[r])
      <4> HIDE DEF Typed, r, q
      <4>1. L - r \notin Bad
        BY <1>7, <2>1, <3>2
      <4> QED BY <1>1, <3>2, <4>1
    <3>4. new \in Seq(Units)
      <4>1. q + 2 \in Nat \ {0} /\ q + n(q) - 1 \in Int /\ q + n(q) - 1 <= Len(buf)
        BY <1>1, <2>1, <2>2 DEF L
      <4> HIDE DEF q
      <4> QED BY <4>1, CutType
    <3> HIDE DEF q, r, new
    <3>5. Join(q, from[r]) = [from[r] EXCEPT !.data = new \o @]
      BY DEF Join, new
    <3>6. Typed(q, Join(q, from[r]))
      BY <1>1, <2>1, <3>2, <3>3, <3>4, <3>5, SMTT(30)
    <3> QED BY <2>1, <3>1, <3>6
  <2> QED BY <2>3, <2>4
<1>8. Bad = {}
  <2>1. Bad \subseteq Nat
    OBVIOUS
  <2> HIDE DEF Bad
  <2> QED BY <1>7, <2>1, LeastElement
<1>9. Typed(p, from[p])
  <2>1. p \in 0..L
    BY DEF L
  <2>2. L - p \in Nat /\ L - p <= L /\ L - (L - p) = p
    BY <1>1, <2>1
  <2> HIDE DEF Typed
  <2> QED BY <1>8, <2>2
<1>10. Chunks(buf) = from
  BY DEF Chunks, from, Walks, Value, Stop, Join, n, L
<1> QED BY <1>9, <1>10 DEF L

-----------------------------------------------------------------------------
(* The HTTP handlers keep the buffers in order.                            *)
LEMMA RequestLen ==
  ASSUME NEW buf \in Seq(Units)
  PROVE  LET len == mg_http_get_request_len(buf)
         IN  len \in Int /\ (len > 0 => len \in 1..Len(buf) /\ buf[len][1] = "e")
<1> DEFINE len == mg_http_get_request_len(buf)
           stops == {i \in 1..Len(buf) : buf[i][1] \in {"e", "bad"}}
           first == CHOOSE i \in stops : \A j \in stops : i <= j
<1> SUFFICES len \in Int /\ (len > 0 => len \in 1..Len(buf) /\ buf[len][1] = "e")
  OBVIOUS
<1>1. len = IF stops = {} THEN 0 ELSE IF buf[first][1] = "bad" THEN 0 - 1 ELSE first
  BY DEF mg_http_get_request_len
<1>2. CASE stops = {}
  BY <1>1, <1>2
<1>3. CASE stops # {}
  <2>1. stops \subseteq Nat
    OBVIOUS
  <2>2. \E i \in stops : \A j \in stops : i <= j
    <3> HIDE DEF stops
    <3> QED BY <1>3, <2>1, LeastElement
  <2>3. first \in stops
    <3> HIDE DEF stops
    <3> QED BY <2>2
  <2> HIDE DEF first, len
  <2>4. first \in 1..Len(buf) /\ buf[first] \in Units /\ buf[first][1] \in {"e", "bad"}
    BY <2>3
  <2> HIDE DEF stops
  <2>5. CASE buf[first][1] = "bad"
    BY <1>1, <1>3, <2>5
  <2>6. CASE buf[first][1] = "e"
    BY <1>1, <1>3, <2>4, <2>6
  <2> QED BY <2>4, <2>5, <2>6
<1> QED BY <1>2, <1>3

LEMMA ParsedMessage ==
  ASSUME NEW buf \in Seq(Units), NEW len \in 1..Len(buf), buf[len][1] = "e"
  PROVE  mg_parse_http(buf, len).message \in Nat
<1> DEFINE r == buf[len][2]
<1>1. len \in Nat /\ buf[len] \in Units
  OBVIOUS
<1>2. Request[r].length \in Nat
  BY <1>1, ScriptsAssumption
<1> DEFINE message == CASE Request[r].length # NoLength -> len + Request[r].length
                        [] Request[r].post /\ len = 2 -> NoLength
                        [] OTHER -> len
<1>3. message \in {len + Request[r].length, NoLength, len}
  OBVIOUS
<1>4. mg_parse_http(buf, len).message = message
  BY DEF mg_parse_http
<1> HIDE DEF message, r
<1> QED BY <1>1, <1>2, <1>3, <1>4 DEF NoLength

LEMMA ChunkedBuffered ==
  ASSUME NEW c, Buffered(c), c.proto # "ws", NEW head \in 1..Len(c.recv), NEW message \in Nat
  PROVE  LET h == mg_handle_chunked(c, head, message)
         IN  Buffered(h.c) /\ h.c.proto = c.proto /\ h.message \in Nat
<1> DEFINE L == Len(c.recv)
           buf == SubSeq(c.recv, head + 1, L)
           new == Chunks(buf)[c.chunk]
           start == SubSeq(buf, 1, c.chunk)
           body == start \o new.data
           front == SubSeq(c.recv, 1, head)
           rest == SubSeq(buf, new.end + 1, Len(buf))
           recv == front \o body \o rest
           h == mg_handle_chunked(c, head, message)
           failed == [c EXCEPT !.err = "assert"]
           joined == [c EXCEPT !.recv = recv, !.chunk = Len(body)]
<1> SUFFICES Buffered(h.c) /\ h.c.proto = c.proto /\ h.message \in Nat
  OBVIOUS
<1>1. /\ c.recv \in Seq(Units) /\ L \in Nat /\ c.chunk \in Nat /\ c.reass = 0 /\ DOMAIN c = Fields
  BY FieldsOf DEF Buffered
<1>2. buf \in Seq(Units) /\ Len(buf) = L - head
  BY <1>1, RestType
<1>3. front \in Seq(Units)
  BY <1>1, CutType
<1>4. h = IF Len(buf) < c.chunk THEN [c |-> failed, message |-> message]
          ELSE IF new.end = Len(body) THEN [c |-> c, message |-> message]
          ELSE [c |-> joined, message |-> IF new.zero THEN Len(recv) ELSE message]
  BY DEF mg_handle_chunked
<1>5. CASE Len(buf) < c.chunk
  <2>1. Buffered(failed) /\ failed.proto = c.proto
    BY <1>1 DEF Buffered, Fields
  <2>2. h.c = failed /\ h.message = message
    <3> HIDE DEF h, failed, buf
    <3> QED BY <1>4, <1>5
  <2> QED BY <2>1, <2>2
<1>6. CASE ~(Len(buf) < c.chunk)
  <2> HIDE DEF buf
  <2>1. c.chunk \in 0..Len(buf)
    BY <1>1, <1>2, <1>6
  <2>2. new.end \in 0..Len(buf) /\ new.data \in Seq(Units)
    <3>1. new.end \in c.chunk..Len(buf) /\ new.data \in Seq(Units)
      BY <1>2, <2>1, ChunksType
    <3> HIDE DEF new
    <3> QED BY <1>1, <1>2, <3>1
  <2> HIDE DEF new
  <2>3. start \in Seq(Units)
    BY <1>2, <2>1, CutType
  <2>4. rest \in Seq(Units)
    BY <1>2, <2>2, RestType
  <2> HIDE DEF start, rest, front
  <2>5. body \in Seq(Units) /\ Len(body) \in Nat
    BY <2>2, <2>3
  <2> HIDE DEF body
  <2>6. recv \in Seq(Units) /\ Len(recv) \in Nat
    BY <1>3, <2>4, <2>5
  <2> HIDE DEF recv
  <2>7. Buffered(joined) /\ joined.proto = c.proto
    BY <1>1, <2>5, <2>6 DEF Buffered, Fields
  <2> HIDE DEF joined, h
  <2>8. CASE new.end = Len(body)
    BY <1>4, <1>6, <2>8
  <2>9. CASE new.end # Len(body)
    <3>1. h.c = joined /\ h.message = IF new.zero THEN Len(recv) ELSE message
      BY <1>4, <1>6, <2>9
    <3>2. h.message \in {Len(recv), message}
      BY <3>1
    <3> QED BY <2>6, <2>7, <3>1, <3>2
  <2> QED BY <2>8, <2>9
<1> QED BY <1>5, <1>6

LEMMA HandlerBuffered ==
  ASSUME NEW c, Buffered(c), NEW head, NEW r, NEW when
  PROVE  /\ Buffered(CallHandler(c, head, r, when))
         /\ CallHandler(c, head, r, when).proto = c.proto
         /\ CallHandler(c, head, r, when).recv = c.recv
<1> DEFINE body == SubSeq(c.recv, head + 1, Len(c.recv))
           called == mg_call(c, <<"request", r, body, when>>)
           sent == mg_send(called, <<<<"200", r>>, <<"page", r>>>>)
           failed == [called EXCEPT !.err = "reply"]
           d == CallHandler(c, head, r, when)
<1>1. d \in {sent, failed}
  BY DEF CallHandler, ev_handler
<1>2. SameBuffers(c, called) /\ Buffered(called)
  BY SendSame, SameBuffered
<1> HIDE DEF called
<1>3. SameBuffers(c, sent) /\ Buffered(sent)
  BY <1>2, SendSame, SameBuffered, SameTwice
<1>4. Buffered(failed) /\ failed.proto = called.proto /\ failed.recv = called.recv
  <2>1. DOMAIN called = Fields
    BY <1>2, FieldsOf DEF Buffered
  <2> QED BY <1>2, <2>1 DEF Buffered, Fields
<1> HIDE DEF d, sent, failed
<1>5. Buffered(d) /\ d.proto = c.proto /\ d.recv = c.recv
  BY <1>1, <1>2, <1>3, <1>4 DEF SameBuffers
<1> QED BY <1>5 DEF d

LEMMA UpgradeBuffered ==
  ASSUME NEW c, Buffered(c), c.proto # "ws", NEW head \in Int
  PROVE  Buffered(Upgrade(c, head))
<1> DEFINE d == [c EXCEPT !.recv = mbuf_remove(@, head), !.proto = "ws"]
           e == IF d.send = <<>> THEN mg_send(d, <<<<"101">>>>) ELSE d
<1>1. c.recv \in Seq(Units) /\ DOMAIN c = Fields
  BY FieldsOf DEF Buffered
<1>2. mbuf_remove(c.recv, head) \in Seq(Units)
  BY <1>1, RemoveType
<1>3. Buffered(d) /\ d.proto = "ws"
  <2> DEFINE recv == mbuf_remove(c.recv, head)
  <2>1. recv \in Seq(Units) /\ Len(recv) \in Nat
    BY <1>2
  <2>2. d = [c EXCEPT !.recv = recv, !.proto = "ws"]
    OBVIOUS
  <2> HIDE DEF recv, d
  <2> QED BY <1>1, <2>1, <2>2 DEF Buffered, Fields
<1>4. Upgrade(c, head) = IF d.flags # {} THEN d ELSE WsRecv(e)
  BY DEF Upgrade
<1> HIDE DEF d
<1>5. SameBuffers(d, mg_send(d, <<<<"101">>>>))
  BY <1>3, SendSame
<1>6. Buffered(e) /\ e.proto = "ws"
  BY <1>3, <1>5, SameBuffered DEF SameBuffers
<1> HIDE DEF e
<1> QED BY <1>3, <1>4, <1>6, WsRecvBuffered

LEMMA HandledBuffered ==
  ASSUME NEW c, Buffered(c), c.proto # "ws", NEW head, NEW hm, hm.message \in Nat
  PROVE  Buffered(Handled(c, head, hm))
<1> DEFINE d == CallHandler(c, head, hm.r, "recv")
           recv == mbuf_remove(d.recv, hm.message)
<1>1. Buffered(d) /\ d.proto = c.proto
  BY HandlerBuffered
<1>2. Handled(c, head, hm) = [d EXCEPT !.recv = recv, !.rcvd = 0]
  BY DEF Handled
<1> HIDE DEF d
<1>3. d.recv \in Seq(Units) /\ DOMAIN d = Fields /\ d.reass = 0
  BY <1>1, FieldsOf DEF Buffered
<1>4. recv \in Seq(Units) /\ Len(recv) \in Nat
  <2> DEFINE n == hm.message
  <2>1. n \in Int
    OBVIOUS
  <2> HIDE DEF n
  <2>2. mbuf_remove(d.recv, n) \in Seq(Units)
    BY <1>3, <2>1, RemoveType
  <2>3. recv \in Seq(Units)
    BY <2>2 DEF n
  <2> QED BY <2>3
<1> HIDE DEF recv
<1>5. Buffered([d EXCEPT !.recv = recv, !.rcvd = 0])
  BY <1>1, <1>3, <1>4 DEF Buffered, Fields
<1> QED BY <1>2, <1>5

LEMMA HttpRecvBuffered ==
  ASSUME NEW c, Buffered(c), c.proto # "ws", NEW n
  PROVE  Buffered(HttpRecv(c, n))
<1> DEFINE counted == [c EXCEPT !.rcvd = @ + n]
           len == mg_http_get_request_len(c.recv)
           hm == mg_parse_http(c.recv, len)
           ch == mg_handle_chunked(counted, len, hm.message)
           chunked == len > 0 /\ Request[hm.r].chunked
           d == IF chunked THEN ch.c ELSE counted
           m == [r |-> hm.r, message |-> IF chunked THEN ch.message ELSE hm.message]
           e == HttpRecv(c, n)
<1>1. Buffered(counted) /\ counted.proto = c.proto /\ counted.recv = c.recv
  <2>1. DOMAIN c = Fields
    BY FieldsOf DEF Buffered
  <2>2. SameBuffers(c, counted)
    BY <2>1 DEF SameBuffers, Fields
  <2> QED BY <2>2, SameBuffered DEF SameBuffers
<1> HIDE DEF counted
<1>2. c.recv \in Seq(Units) /\ len \in Int /\ (len > 0 => len \in 1..Len(c.recv) /\ c.recv[len][1] = "e")
  <2>1. c.recv \in Seq(Units)
    BY DEF Buffered
  <2> QED BY <2>1, RequestLen
<1> HIDE DEF len
<1>3. len > 0 => hm.message \in Nat
  BY <1>2, ParsedMessage
<1> HIDE DEF hm
<1>4. len > 0 => Buffered(ch.c) /\ ch.c.proto = c.proto /\ ch.message \in Nat
  BY <1>1, <1>2, <1>3, ChunkedBuffered
<1> HIDE DEF ch
<1>5. Buffered(d) /\ d.proto # "ws"
  <2>1. CASE chunked
    BY <1>4, <2>1
  <2>2. CASE ~chunked
    BY <1>1, <2>2
  <2> QED BY <2>1, <2>2
<1>6. len > 0 => m.message \in Nat
  <2>1. CASE chunked
    BY <1>4, <2>1
  <2>2. CASE ~chunked
    BY <1>3, <2>2
  <2> QED BY <2>1, <2>2
<1>7. \/ e = Flagged(counted, "close_immediately")
      \/ e = d
      \/ e = Upgrade(d, len)
      \/ len > 0 /\ e = Handled(d, len, m)
  <2> HIDE DEF chunked, d, m, e
  <2>1. e = IF len < 0 \/ (len = 0 /\ Len(c.recv) >= MaxRequest)
            THEN Flagged(counted, "close_immediately")
            ELSE IF len = 0 \/ d.err # "none" THEN d
            ELSE IF Request[m.r].upgrade THEN Upgrade(d, len)
            ELSE IF m.message > d.rcvd THEN d
            ELSE Handled(d, len, m)
    BY ZenonT(60) DEF e, HttpRecv, counted, len, hm, ch, chunked, d, m
  <2> QED BY <1>2, <2>1
<1> HIDE DEF d, m, e
<1>8. Buffered(Flagged(counted, "close_immediately"))
  BY <1>1, SendSame, SameBuffered
<1>9. Buffered(Upgrade(d, len))
  BY <1>2, <1>5, UpgradeBuffered
<1>10. len > 0 => Buffered(Handled(d, len, m))
  BY <1>5, <1>6, HandledBuffered
<1> QED BY <1>5, <1>7, <1>8, <1>9, <1>10 DEF e

(* What ends the process when a connection is closed is named as well.     *)
LEMMA HttpCloseNamed ==
  ASSUME NEW c, Buffered(c)
  PROVE  HttpClose(c).err \in {"none", "assert", "reply"}
<1> DEFINE len == mg_http_get_request_len(c.recv)
           d == IF len > 0 THEN CallHandler(c, len, c.recv[len][2], "close") ELSE c
<1>1. Buffered(d)
  BY HandlerBuffered
<1>2. HttpClose(c) = [d EXCEPT !.rcvd = 0]
  BY DEF HttpClose
<1> HIDE DEF d
<1>3. DOMAIN d = Fields /\ d.err \in {"none", "assert", "reply"}
  BY <1>1, FieldsOf DEF Buffered
<1> QED BY <1>2, <1>3 DEF Fields

-----------------------------------------------------------------------------
(* The steps.                                                              *)
LEMMA Parts ==
  ASSUME WebInv
  PROVE  /\ TypeOK /\ ConnectedListed /\ NotListedBefore /\ ReadyAhead
         /\ cursor # End => cursor \in Listed
         /\ up = "polling" => Listener \in Listed
         /\ DOMAIN peer = Clients /\ DOMAIN conn = Listed \ {Listener}
         /\ \A k \in DOMAIN conn : k \in Clients /\ Buffered(conn[k])
<1>1. /\ TypeOK /\ ConnectedListed /\ NotListedBefore /\ ReadyAhead
      /\ cursor # End => cursor \in Listed
      /\ up = "polling" => Listener \in Listed
      /\ DOMAIN peer = Clients /\ DOMAIN conn = Listed \ {Listener}
      /\ \A k \in DOMAIN conn : Buffered(conn[k])
  BY DEF WebInv, LoopStaysInList, TypeOK, Listed
<1> QED BY <1>1, ListLemma DEF All

LEMMA Assembled ==
  ASSUME list' \in Seq(All), NoTwice(list'), DOMAIN peer' = Clients,
         TypeOK', ConnectedListed', NotListedBefore', ReadyAhead',
         cursor' # End => cursor' \in ToSet(list'),
         up' = "polling" => Listener \in ToSet(list'),
         \A k \in DOMAIN conn' : Buffered(conn'[k])
  PROVE  WebInv'
<1>1. Cardinality(ToSet(list')) = Len(list')
  BY NoTwiceCounts
<1> QED BY <1>1 DEF WebInv, LoopStaysInList, All

LEMMA StartInv == Init => WebInv
<1> SUFFICES ASSUME Init PROVE WebInv
  OBVIOUS
<1>1. PICK s \in Scripts :
        peer = [k \in Clients |-> [script |-> s[k], todo |-> s[k], wire |-> <<>>, st |-> "out", got |-> <<>>]]
  BY DEF Init
<1>2. list = <<>> /\ conn = <<>> /\ cursor = End /\ up = "starting" /\ phase = "select" /\ ready = Nobody
  BY DEF Init
<1>3. ToSet(list) = {} /\ Len(list) = 0 /\ list \in Seq(All) /\ DOMAIN conn = {}
  BY <1>2, InToSet DEF ToSet
<1>4. Cardinality(ToSet(list)) = 0
  BY <1>3, FS_EmptySet
<1>5. TypeOK
  BY <1>2, <1>3 DEF TypeOK, Nobody
<1>6. ConnectedListed
  <2>1. ASSUME NEW k \in Clients
        PROVE  /\ {"st", "todo", "wire"} \subseteq DOMAIN peer[k]
               /\ peer[k].todo = s[k] /\ peer[k].wire = <<>> /\ peer[k].st = "out"
    BY <1>1
  <2>2. <<>> \in Seq(Units) /\ \A k \in Clients : s[k] \in Seq(Units)
    BY ScriptsAssumption
  <2> QED BY <1>3, <2>1, <2>2 DEF ConnectedListed
<1>7. NotListedBefore /\ ReadyAhead
  BY <1>2 DEF NotListedBefore, ReadyAhead
<1> QED BY <1>1, <1>2, <1>3, <1>4, <1>5, <1>6, <1>7 DEF WebInv, LoopStaysInList, All

LEMMA ServeStep == WebInv /\ bl_serve => WebInv'
<1> SUFFICES ASSUME WebInv, bl_serve PROVE WebInv'
  OBVIOUS
<1>1. list = <<>> /\ Listed = {} /\ up = "starting"
  <2>1. list = <<>> /\ up = "starting"
    BY Parts DEF bl_serve, NotListedBefore
  <2> QED BY <2>1, ListLemma
<1>2. phase = "select"
  BY Parts DEF bl_serve, NotListedBefore
<1>3. cursor = End /\ DOMAIN conn = {}
  BY <1>1, Parts
<1>4. /\ UNCHANGED <<conn, phase, cursor, ready, peer>>
      /\ \/ up' = "polling" /\ list' = <<Listener>>
         \/ up' = "no listener" /\ list' = list
  BY DEF bl_serve
<1>5. /\ list' \in Seq(All) /\ NoTwice(list') /\ ToSet(list') \subseteq {Listener}
      /\ up' = "polling" => Listener \in ToSet(list')
  <2>1. CASE up' = "polling" /\ list' = <<Listener>>
    <3>1. <<Listener>> \in Seq(All) /\ NoTwice(<<Listener>>) /\ Len(<<Listener>>) = 1 /\ <<Listener>>[1] = Listener
      BY DEF All, NoTwice
    <3>2. ToSet(<<Listener>>) = {Listener}
      BY OneSet
    <3> QED BY <2>1, <3>1, <3>2
  <2>2. CASE up' = "no listener" /\ list' = list
    BY <1>1, <2>2, ListLemma DEF Listed
  <2> QED BY <1>4, <2>1, <2>2
<1>6. TypeOK'
  BY <1>3, <1>4, <1>5, Parts DEF TypeOK
<1>7. ConnectedListed'
  <2>1. \A k \in Clients : k \notin ToSet(list') /\ k \notin ToSet(list)
    BY <1>1, <1>5, ListLemma DEF Listed
  <2> QED BY <1>4, <2>1, Parts DEF ConnectedListed
<1>8. NotListedBefore'
  BY <1>1, <1>2, <1>4 DEF NotListedBefore
<1>9. ReadyAhead'
  BY <1>2, <1>4 DEF ReadyAhead
<1> QED BY <1>3, <1>4, <1>5, <1>6, <1>7, <1>8, <1>9, Parts, Assembled

(* A client does something: the loop's state stays, and what was readable  *)
(* remains so.                                                             *)
LEMMA PeerStep ==
  ASSUME WebInv, UNCHANGED netVars, NEW k \in Clients, DOMAIN peer' = Clients,
         \A j \in Clients \ {k} : peer'[j] = peer[j],
         {"st", "todo", "wire"} \subseteq DOMAIN peer'[k],
         peer'[k].todo \in Seq(Units), peer'[k].wire \in Seq(Units),
         peer'[k].st \in {"open", "shut", "reset"} <=> peer[k].st \in {"open", "shut", "reset"},
         Readable(k) => Readable(k)'
  PROVE  WebInv'
<1>1. UNCHANGED <<up, list, conn, phase, cursor, ready>>
  BY DEF netVars
<1>2. TypeOK' /\ NotListedBefore'
  BY <1>1, Parts DEF TypeOK, NotListedBefore
<1>3. ConnectedListed'
  BY <1>1, Parts DEF ConnectedListed
<1>4. \A j \in Clients : Readable(j) => Readable(j)'
  BY DEF Readable
<1>5. ReadyAhead'
  <2>1. ready.r \subseteq Clients \cup {Listener}
    BY Parts DEF TypeOK
  <2> QED BY <1>1, <1>4, <2>1, Parts DEF ReadyAhead
<1> QED BY <1>1, <1>2, <1>3, <1>5, Parts, ListLemma, Assembled DEF Listed

LEMMA PeersStep ==
  ASSUME WebInv, NEW k \in Clients, Connect(k) \/ Send(k) \/ Shutdown(k) \/ Vanish(k)
  PROVE  WebInv'
<1>1. /\ DOMAIN peer = Clients /\ {"st", "todo", "wire"} \subseteq DOMAIN peer[k]
      /\ peer[k].todo \in Seq(Units) /\ peer[k].wire \in Seq(Units)
  BY Parts DEF ConnectedListed
<1>2. CASE Connect(k)
  <2>1. /\ UNCHANGED netVars /\ DOMAIN peer' = Clients /\ \A j \in Clients \ {k} : peer'[j] = peer[j]
        /\ DOMAIN peer'[k] = DOMAIN peer[k] /\ peer'[k].todo = peer[k].todo /\ peer'[k].wire = peer[k].wire
        /\ peer[k].st = "out" /\ peer'[k].st = "waiting"
    BY <1>1, <1>2 DEF Connect
  <2> QED BY <1>1, <2>1, PeerStep DEF Readable
<1>3. CASE Send(k)
  <2>1. /\ UNCHANGED netVars /\ DOMAIN peer' = Clients /\ \A j \in Clients \ {k} : peer'[j] = peer[j]
        /\ DOMAIN peer'[k] = DOMAIN peer[k] /\ peer'[k].st = peer[k].st
        /\ peer'[k].todo = Tail(peer[k].todo) /\ peer'[k].wire = Append(peer[k].wire, peer[k].todo[1])
        /\ peer[k].todo # <<>>
    BY <1>1, <1>3 DEF Send
  <2>2. peer[k].todo[1] \in Units /\ Tail(peer[k].todo) \in Seq(Units)
    BY <1>1, <2>1
  <2>3. peer'[k].wire \in Seq(Units) /\ peer'[k].wire # <<>>
    <3> DEFINE w == peer[k].wire
               x == peer[k].todo[1]
    <3>1. w \in Seq(Units) /\ x \in Units
      BY <1>1, <2>2
    <3> HIDE DEF w, x
    <3>2. Append(w, x) \in Seq(Units) /\ Len(Append(w, x)) = Len(w) + 1 /\ Len(w) \in Nat
      BY <3>1
    <3>3. Append(w, x) # <<>>
      BY <3>2, EmptySeq
    <3> QED BY <2>1, <3>2, <3>3 DEF w, x
  <2> QED BY <1>1, <2>1, <2>2, <2>3, PeerStep DEF Readable
<1>4. CASE Shutdown(k)
  <2>1. /\ UNCHANGED netVars /\ DOMAIN peer' = Clients /\ \A j \in Clients \ {k} : peer'[j] = peer[j]
        /\ DOMAIN peer'[k] = DOMAIN peer[k] /\ peer'[k].todo = peer[k].todo /\ peer'[k].wire = peer[k].wire
        /\ peer[k].st = "open" /\ peer'[k].st = "shut"
    BY <1>1, <1>4 DEF Shutdown
  <2> QED BY <1>1, <2>1, PeerStep DEF Readable
<1>5. CASE Vanish(k)
  <2>1. /\ UNCHANGED netVars /\ DOMAIN peer' = Clients /\ \A j \in Clients \ {k} : peer'[j] = peer[j]
        /\ DOMAIN peer'[k] = DOMAIN peer[k] /\ peer'[k].todo = <<>> /\ peer'[k].wire = <<>>
        /\ peer[k].st = "open" /\ peer'[k].st = "reset"
    BY <1>1, <1>5 DEF Vanish
  <2>2. <<>> \in Seq(Units)
    OBVIOUS
  <2> QED BY <1>1, <2>1, <2>2, PeerStep DEF Readable
<1> QED BY <1>2, <1>3, <1>4, <1>5

LEMMA SelectStep == WebInv /\ Select => WebInv'
<1> SUFFICES ASSUME WebInv, Select PROVE WebInv'
  OBVIOUS
<1>1. /\ UNCHANGED <<up, list, conn, peer>> /\ up = "polling"
      /\ phase' = "handle" /\ cursor' = FirstOf(list)
      /\ ready' = [r |-> {k \in DOMAIN conn : Readable(k)}
                           \cup {x \in {Listener} : \E k \in Clients : peer[k].st = "waiting"},
                   w |-> {k \in DOMAIN conn : conn[k].send # <<>>}]
  BY DEF Select
<1>2. /\ ready'.r \subseteq DOMAIN conn \cup {Listener} /\ ready'.w \subseteq DOMAIN conn
      /\ \A k \in ready'.r \ {Listener} : Readable(k)
  BY <1>1
<1>3. DOMAIN conn \subseteq Clients /\ DOMAIN conn \cup {Listener} \subseteq Listed
  BY <1>1, Parts
<1>4. TypeOK' /\ NotListedBefore' /\ ConnectedListed'
  BY <1>1, <1>2, <1>3, Parts DEF TypeOK, NotListedBefore, ConnectedListed
<1>5. ReadyAhead'
  BY <1>1, <1>2, <1>3 DEF ReadyAhead, Readable, Listed
<1>6. cursor' # End => cursor' \in ToSet(list')
  BY <1>1, FirstLemma DEF Listed
<1> QED BY <1>1, <1>4, <1>5, <1>6, Parts, ListLemma, Assembled DEF Listed

(* The loop goes on: nothing but the cursor and the phase change, ready    *)
(* perhaps, and the new cursor is in the list.                             *)
LEMMA LoopStep ==
  ASSUME WebInv, UNCHANGED <<up, list, conn, peer>>, up = "polling",
         phase' \in {"select", "handle", "sweep"}, cursor' # End => cursor' \in Listed,
         ready'.r \subseteq ready.r, ready'.w \subseteq ready.w,
         phase' = "handle" => phase = "handle" /\ cursor \in Listed /\ cursor' = NextOf(cursor)
  PROVE  WebInv'
<1>1. TypeOK' /\ NotListedBefore' /\ ConnectedListed'
  BY Parts DEF TypeOK, NotListedBefore, ConnectedListed
<1>2. ReadyAhead'
  <2> SUFFICES ASSUME phase' = "handle" PROVE ReadyAhead'
    BY DEF ReadyAhead
  <2>1. ready.r \subseteq ToSet(list)
    BY Parts DEF ReadyAhead
  <2>2. ASSUME NEW i \in 1..Len(list), NEW j \in 1..Len(list),
               list[i] = cursor', i <= j, list[j] \in ready.r \ {Listener}
        PROVE  Readable(list[j])
    <3>1. PlaceOf(cursor) + 1 = i
      <4>1. list[i] # End
        <5>1. list[i] \in Listed
          BY ListLemma
        <5> QED BY <5>1, ListLemma
      <4>2. PlaceOf(cursor) \in 1..Len(list) /\ PlaceOf(cursor) < Len(list)
            /\ cursor' = list[PlaceOf(cursor) + 1]
        BY <2>2, <4>1, PlaceLemma DEF NextOf
      <4>3. PlaceOf(cursor) + 1 \in 1..Len(list)
        BY <4>2, ListLemma
      <4> QED BY <2>2, <4>2, <4>3, ListLemma DEF NoTwice
    <3>2. PlaceOf(cursor) \in 1..Len(list) /\ list[PlaceOf(cursor)] = cursor /\ PlaceOf(cursor) <= j
      BY <2>2, <3>1, PlaceLemma, ListLemma
    <3> QED BY <2>2, <3>2, Parts DEF ReadyAhead
  <2> QED BY <2>1, <2>2 DEF ReadyAhead, Readable
<1> QED BY <1>1, <1>2, Parts, ListLemma, Assembled DEF Listed

LEMMA QuietStep == WebInv /\ (NothingToAccept \/ HandledAll \/ PollEnds) => WebInv'
<1> SUFFICES ASSUME WebInv PROVE NothingToAccept \/ HandledAll \/ PollEnds => WebInv'
  OBVIOUS
<1>1. ASSUME NothingToAccept PROVE WebInv'
  <2>1. /\ UNCHANGED <<up, list, conn, peer, ready, phase>> /\ up = "polling" /\ phase = "handle"
        /\ cursor = Listener /\ cursor' = NextOf(cursor)
    BY <1>1 DEF NothingToAccept
  <2>2. cursor \in Listed /\ NextOf(cursor) \in Listed \cup {End}
    BY <2>1, Parts, NextLemma
  <2> QED BY <2>1, <2>2, LoopStep
<1>2. ASSUME HandledAll PROVE WebInv'
  <2>1. /\ UNCHANGED <<up, list, conn, peer, ready>> /\ up = "polling" /\ phase' = "sweep"
        /\ cursor' = FirstOf(list)
    BY <1>2 DEF HandledAll
  <2> QED BY <2>1, FirstLemma, LoopStep
<1>3. ASSUME PollEnds PROVE WebInv'
  <2>1. /\ UNCHANGED <<up, list, conn, peer, cursor>> /\ up = "polling" /\ phase' = "select"
        /\ cursor = End /\ ready' = Nobody
    BY <1>3 DEF PollEnds
  <2>2. ready'.r = {} /\ ready'.w = {}
    BY <2>1 DEF Nobody
  <2> QED BY <2>1, <2>2, LoopStep
<1> QED BY <1>1, <1>2, <1>3

LEMMA AcceptStep == WebInv /\ Accept => WebInv'
<1> SUFFICES ASSUME WebInv, Accept PROVE WebInv'
  OBVIOUS
<1>1. PICK k \in Clients :
        /\ peer[k].st = "waiting" /\ peer' = [peer EXCEPT ![k].st = "open"]
        /\ conn' = [x \in DOMAIN conn \cup {k} |-> IF x = k THEN NewConnection ELSE conn[x]]
        /\ list' = <<k>> \o list
  BY DEF Accept
<1>2. /\ up = "polling" /\ phase = "handle" /\ cursor = Listener
      /\ cursor' = NextOf(Listener) /\ UNCHANGED <<up, phase, ready>>
  BY DEF Accept
<1>3. DOMAIN peer = Clients /\ {"st", "todo", "wire"} \subseteq DOMAIN peer[k]
  BY Parts DEF ConnectedListed
<1>4. k \notin Listed /\ k \in All
  BY <1>1, Parts DEF ConnectedListed, Listed, All
<1>5. list' \in Seq(All) /\ NoTwice(list') /\ ToSet(list') = Listed \cup {k}
  BY <1>1, <1>4, InFrontLemma
<1>6. /\ DOMAIN peer' = Clients /\ \A j \in Clients \ {k} : peer'[j] = peer[j]
      /\ DOMAIN peer'[k] = DOMAIN peer[k] /\ peer'[k].st = "open"
      /\ peer'[k].todo = peer[k].todo /\ peer'[k].wire = peer[k].wire
  BY <1>1, <1>3
<1>7. ConnectedListed'
  BY <1>1, <1>4, <1>5, <1>6, Parts DEF ConnectedListed, Listed
<1>8. k # Listener
  BY ListLemma
<1>9. TypeOK' /\ NotListedBefore'
  BY <1>1, <1>2, <1>5, <1>8, Parts, ListLemma DEF TypeOK, NotListedBefore, All
<1>10. cursor' # End => cursor' \in Listed
  BY <1>2, NextLemma, Parts
<1>11. ReadyAhead'
  <2>1. Len(list) \in Nat /\ list \in Seq(All) /\ Len(list') = Len(list) + 1
        /\ \A i \in 1..Len(list') : list'[i] = IF i = 1 THEN k ELSE list[i - 1]
    BY <1>1, ListLemma
  <2>2. ready.r \subseteq Listed
    BY <1>2, Parts DEF ReadyAhead, Listed
  <2>3. ASSUME NEW i \in 1..Len(list'), NEW j \in 1..Len(list'),
               list'[i] = cursor', i <= j, list'[j] \in ready'.r \ {Listener}
        PROVE  peer'[list'[j]].wire # <<>> \/ peer'[list'[j]].st \in {"shut", "reset"}
    <3>1. list'[j] # k
      BY <1>2, <1>4, <2>2, <2>3
    <3>2. j \in 2..Len(list') /\ list'[j] = list[j - 1] /\ j - 1 \in 1..Len(list)
      BY <2>1, <3>1
    <3>3. list'[j] \in Clients
      BY <1>2, <2>2, <2>3, Parts DEF TypeOK
    <3>4. Readable(list[j - 1])
      <4>1. cursor' \in Listed
        <5>1. list'[i] \in All
          BY <1>5
        <5> QED BY <1>10, <2>3, <5>1, ListLemma
      <4>2. i # 1
        BY <1>4, <2>1, <2>3, <4>1
      <4>3. i - 1 \in 1..Len(list) /\ list[i - 1] = NextOf(Listener)
        BY <1>2, <2>1, <2>3, <4>2
      <4>4. Listener \in Listed
        BY <1>2, Parts
      <4>5. PlaceOf(Listener) \in 1..Len(list) /\ list[PlaceOf(Listener)] = Listener
        BY <4>4, PlaceLemma
      <4>6. PlaceOf(Listener) < i - 1
        <5>1. NextOf(Listener) # End
          BY <1>2, <4>1, ListLemma
        <5>2. PlaceOf(Listener) < Len(list) /\ NextOf(Listener) = list[PlaceOf(Listener) + 1]
          BY <5>1 DEF NextOf
        <5>3. PlaceOf(Listener) + 1 \in 1..Len(list)
          BY <4>5, <5>2, <2>1
        <5>4. PlaceOf(Listener) + 1 = i - 1
          BY <4>3, <5>2, <5>3, ListLemma DEF NoTwice
        <5> QED BY <4>3, <4>5, <5>4
      <4>7. PlaceOf(Listener) <= j - 1
        BY <2>1, <2>3, <3>2, <4>3, <4>5, <4>6
      <4> QED BY <1>2, <2>3, <3>2, <4>5, <4>7, Parts DEF ReadyAhead
    <3> QED BY <1>6, <3>1, <3>2, <3>3, <3>4 DEF Readable
  <2> QED BY <1>2, <1>5, <2>2, <2>3 DEF ReadyAhead, Readable
<1>12. ASSUME NEW x \in DOMAIN conn' PROVE Buffered(conn'[x])
  BY <1>1, NewBuffered, Parts
<1> QED BY <1>2, <1>5, <1>6, <1>7, <1>9, <1>10, <1>11, <1>12, Parts, Assembled

(* What recv returns, and what the handler makes of it.                    *)
LEMMA ReadBuffered ==
  ASSUME WebInv, up = "polling", phase = "handle", cursor \in Clients
  PROVE  /\ cursor \in DOMAIN conn
         /\ Received(cursor) \in Int
         /\ Buffered(mg_handle_tcp_read(cursor, Received(cursor)))
<1> DEFINE k == cursor
           wire == peer[k].wire
           n == Received(k)
           d == mg_handle_tcp_read(k, n)
<1>1. k \in Listed /\ k # Listener /\ k \in DOMAIN conn /\ Buffered(conn[k])
  BY Parts, ListLemma DEF All
<1>2. wire \in Seq(Units) /\ Len(wire) \in Nat /\ peer[k].st \in {"open", "shut", "reset"}
  BY <1>1, Parts DEF ConnectedListed, Listed
<1>3. k \in ready.r => Readable(k)
  <2>1. PlaceOf(k) \in 1..Len(list) /\ list[PlaceOf(k)] = k /\ PlaceOf(k) <= PlaceOf(k)
    BY <1>1, PlaceLemma
  <2> QED BY <1>1, <2>1, Parts DEF ReadyAhead
<1>4. n = IF k \notin ready.r THEN NotReady ELSE IF Len(wire) < RecvSize THEN Len(wire) ELSE RecvSize
  BY DEF Received
<1>5. RecvSize \in Nat \ {0} /\ NotReady = 0 - 1
  BY WebAssumption DEF NotReady
<1>6. \/ n = NotReady
      \/ n \in Nat /\ n > 0 /\ n <= Len(wire)
      \/ n = 0 /\ wire = <<>> /\ peer[k].st \in {"shut", "reset"}
  <2>1. CASE k \notin ready.r
    BY <1>4, <2>1
  <2>2. CASE k \in ready.r /\ Len(wire) = 0
    <3>1. wire = <<>>
      BY <1>2, <2>2, EmptySeq
    <3> QED BY <1>3, <1>4, <1>5, <2>2, <3>1 DEF Readable
  <2>3. CASE k \in ready.r /\ Len(wire) > 0
    <3> DEFINE l == Len(wire)
    <3> HIDE DEF n, k, l
    <3> QED BY <1>2, <1>4, <1>5, <2>3 DEF l
  <2> QED BY <1>2, <2>1, <2>2, <2>3
<1> HIDE DEF n
<1>7. CASE n = NotReady
  <2>1. d = conn[k]
    BY <1>5, <1>7 DEF mg_handle_tcp_read
  <2> QED BY <1>1, <1>5, <1>7, <2>1 DEF n
<1>8. CASE n = 0 /\ wire = <<>> /\ peer[k].st \in {"shut", "reset"}
  <2>1. d \in {Flagged(conn[k], "send_and_close"), Flagged(conn[k], "close_immediately")}
    BY <1>5, <1>8 DEF mg_handle_tcp_read
  <2>2. Buffered(Flagged(conn[k], "send_and_close")) /\ Buffered(Flagged(conn[k], "close_immediately"))
    BY <1>1, SendSame, SameBuffered
  <2> QED BY <1>1, <1>8, <2>1, <2>2 DEF n
<1>9. CASE n \in Nat /\ n > 0 /\ n <= Len(wire)
  <2> DEFINE units == SubSeq(wire, 1, n)
             c == conn[k]
             e == [c EXCEPT !.recv = @ \o units]
  <2>1. d = mg_recv_common(c, units)
    <3>1. n > 0 /\ n # 0 /\ n # NotReady
      BY <1>5, <1>9
    <3> QED BY <3>1 DEF mg_handle_tcp_read
  <2>2. units \in Seq(Units)
    BY <1>2, <1>9, CutType
  <2> HIDE DEF units
  <2>3. Buffered(c)
    BY <1>1
  <2> HIDE DEF c
  <2>4. Buffered(e) /\ e.proto = c.proto
    <3> DEFINE recv == c.recv \o units
    <3>1. c.recv \in Seq(Units) /\ DOMAIN c = Fields /\ c.reass \in 0..Len(c.recv)
      BY <2>3, FieldsOf DEF Buffered
    <3>2. recv \in Seq(Units) /\ Len(recv) = Len(c.recv) + Len(units) /\ Len(c.recv) \in Nat /\ Len(units) \in Nat
      BY <2>2, <3>1
    <3>3. e = [c EXCEPT !.recv = recv]
      OBVIOUS
    <3> HIDE DEF recv, e
    <3>4. c.reass \in 0..Len(recv)
      BY <3>1, <3>2
    <3> QED BY <2>3, <3>1, <3>2, <3>3, <3>4 DEF Buffered, Fields
  <2>5. mg_recv_common(c, units) =
          IF "close_immediately" \in c.flags THEN c
          ELSE IF c.proto = "ws" THEN WsRecv(e) ELSE HttpRecv(e, Len(units))
    BY DEF mg_recv_common
  <2> HIDE DEF e
  <2>6. Buffered(d)
    BY <2>1, <2>3, <2>4, <2>5, WsRecvBuffered, HttpRecvBuffered
  <2> QED BY <1>1, <1>9, <2>6 DEF n
<1> QED BY <1>6, <1>7, <1>8, <1>9

LEMMA HandleStep == WebInv /\ Handle => WebInv'
<1> SUFFICES ASSUME WebInv, Handle PROVE WebInv'
  OBVIOUS
<1> DEFINE k == cursor
           n == Received(k)
           c == mg_handle_tcp_read(k, n)
           writes == k \in ready.w /\ "close_immediately" \notin c.flags
           idle == c.proto = "ws" /\ n = NotReady /\ pings[k] < MaxPings
           wire == mbuf_remove(peer[k].wire, n)
<1>1. up = "polling" /\ phase = "handle" /\ k \in Clients /\ mg_mgr_handle_conn(k)
  BY DEF Handle
<1>2. /\ cursor' = NextOf(k) /\ UNCHANGED <<list, phase, ready>>
      /\ \/ c.err # "none" /\ up' = c.err /\ conn' = [conn EXCEPT ![k] = c] /\ UNCHANGED peer
         \/ conn' = [conn EXCEPT ![k] = Flagged(c, "close_immediately")] /\ UNCHANGED <<up, peer>>
         \/ /\ \E m, ping :
                 LET d == mg_if_sent_cb(c, m)
                 IN  /\ conn' = [conn EXCEPT ![k] = IF ping THEN WsPing(d) ELSE d]
                     /\ peer' = [peer EXCEPT ![k].wire = wire, ![k].got = @ \o SubSeq(c.send, 1, m)]
            /\ UNCHANGED up
  BY <1>1 DEF mg_mgr_handle_conn
<1>3. k \in DOMAIN conn /\ n \in Int /\ Buffered(c)
  BY <1>1, ReadBuffered
<1>4. k \in Listed /\ k # Listener /\ DOMAIN peer = Clients /\ {"st", "todo", "wire"} \subseteq DOMAIN peer[k]
      /\ peer[k].wire \in Seq(Units) /\ peer[k].todo \in Seq(Units)
  BY <1>1, <1>3, Parts DEF ConnectedListed
<1>5. wire \in Seq(Units)
  BY <1>3, <1>4, RemoveType
<1> HIDE DEF c, n, wire, k
<1>6. c.err \in {"none", "assert", "reply"}
  BY <1>3 DEF Buffered
<1>7. DOMAIN conn' = DOMAIN conn /\ \A x \in DOMAIN conn' : Buffered(conn'[x])
  <2>1. Buffered(Flagged(c, "close_immediately"))
    BY <1>3, SendSame, SameBuffered
  <2>2. ASSUME NEW m, NEW ping PROVE Buffered(IF ping THEN WsPing(mg_if_sent_cb(c, m)) ELSE mg_if_sent_cb(c, m))
    <3> DEFINE d == mg_if_sent_cb(c, m)
    <3>1. DOMAIN c = Fields
      BY <1>3, FieldsOf DEF Buffered
    <3>2. SameBuffers(c, d)
      BY <3>1 DEF SameBuffers, mg_if_sent_cb, Fields
    <3> HIDE DEF d
    <3>3. Buffered(d)
      BY <1>3, <3>2, SameBuffered
    <3>4. Buffered(WsPing(d))
      BY <3>3, SendFrameSame, SameBuffered DEF WsPing
    <3> QED BY <3>3, <3>4 DEF d
  <2>3. \E d : Buffered(d) /\ conn' = [conn EXCEPT ![k] = d]
    <3>1. CASE conn' = [conn EXCEPT ![k] = c]
      BY <1>3, <3>1
    <3>2. CASE conn' = [conn EXCEPT ![k] = Flagged(c, "close_immediately")]
      BY <2>1, <3>2
    <3>3. ASSUME NEW m, NEW ping, conn' = [conn EXCEPT ![k] = IF ping THEN WsPing(mg_if_sent_cb(c, m)) ELSE mg_if_sent_cb(c, m)]
          PROVE  \E d : Buffered(d) /\ conn' = [conn EXCEPT ![k] = d]
      BY <2>2, <3>3
    <3> QED BY <1>2, <3>1, <3>2, <3>3
  <2> QED BY <1>3, <2>3, Parts
<1>8. /\ DOMAIN peer' = Clients /\ \A j \in Clients \ {k} : peer'[j] = peer[j]
      /\ DOMAIN peer'[k] = DOMAIN peer[k] /\ peer'[k].st = peer[k].st
      /\ peer'[k].todo = peer[k].todo /\ peer'[k].wire \in Seq(Units)
  <2>1. CASE UNCHANGED peer
    BY <1>4, <2>1
  <2>2. ASSUME NEW m, peer' = [peer EXCEPT ![k].wire = wire, ![k].got = @ \o SubSeq(c.send, 1, m)]
        PROVE  /\ DOMAIN peer' = Clients /\ \A j \in Clients \ {k} : peer'[j] = peer[j]
               /\ DOMAIN peer'[k] = DOMAIN peer[k] /\ peer'[k].st = peer[k].st
               /\ peer'[k].todo = peer[k].todo /\ peer'[k].wire = wire
    <3> DEFINE got == SubSeq(c.send, 1, m)
    <3> HIDE DEF got
    <3> QED BY <1>1, <1>4, <2>2 DEF k, got
  <2> QED BY <1>2, <1>5, <2>1, <2>2
<1>9. up' \in {"polling", "assert", "reply"}
  BY <1>1, <1>2, <1>6
<1>10. TypeOK' /\ NotListedBefore'
  BY <1>1, <1>2, <1>7, <1>9, Parts DEF TypeOK, NotListedBefore
<1>11. ConnectedListed'
  BY <1>2, <1>4, <1>8, Parts DEF ConnectedListed
<1>12. cursor' \in (Listed \ {k}) \cup {End}
  BY <1>2, <1>4, NextLemma
<1>13. ReadyAhead'
  <2>1. ready.r \subseteq Listed
    BY <1>1, Parts DEF ReadyAhead, Listed
  <2>2. ASSUME NEW i \in 1..Len(list), NEW j \in 1..Len(list),
               list[i] = cursor', i <= j, list[j] \in ready.r \ {Listener}
        PROVE  list[j] # k /\ list[j] \in Clients /\ Readable(list[j])
    <3>1. list[i] # End
      <4>1. list[i] \in Listed
        BY ListLemma
      <4> QED BY <4>1, ListLemma
    <3>2. PlaceOf(k) \in 1..Len(list) /\ list[PlaceOf(k)] = k
          /\ \A o \in 1..Len(list) : list[o] = k => o = PlaceOf(k)
      BY <1>4, PlaceLemma
    <3>3. PlaceOf(k) < Len(list) /\ cursor' = list[PlaceOf(k) + 1]
      BY <1>2, <2>2, <3>1 DEF NextOf
    <3>4. PlaceOf(k) + 1 \in 1..Len(list)
      BY <3>2, <3>3, ListLemma
    <3>5. PlaceOf(k) + 1 = i
      BY <2>2, <3>3, <3>4, ListLemma DEF NoTwice
    <3>6. PlaceOf(k) < j
      BY <2>2, <3>2, <3>5
    <3>7. list[j] # k
      BY <3>2, <3>6
    <3>8. list[j] \in Clients
      BY <2>1, <2>2, Parts DEF TypeOK
    <3>9. Readable(list[j])
      BY <1>1, <2>2, <3>2, <3>6, Parts DEF ReadyAhead, k
    <3> QED BY <3>7, <3>8, <3>9
  <2> QED BY <1>2, <1>8, <2>1, <2>2 DEF ReadyAhead, Readable, Listed
<1> QED BY <1>1, <1>2, <1>7, <1>8, <1>10, <1>11, <1>12, <1>13, Parts, ListLemma, Assembled DEF Listed

LEMMA SweepStep == WebInv /\ Sweep => WebInv'
<1> SUFFICES ASSUME WebInv, Sweep PROVE WebInv'
  OBVIOUS
<1> DEFINE k == cursor
<1>1. up = "polling" /\ phase = "sweep" /\ k \in Listed /\ cursor' = NextOf(k) /\ UNCHANGED <<phase, ready>>
  BY Parts DEF Sweep, StepBefore
<1>2. cursor' \in (Listed \ {k}) \cup {End}
  BY <1>1, NextLemma
<1>3. CASE k # Listener /\ ToClose(conn[k])
  <2> DEFINE c == IF conn[k].proto = "ws" THEN conn[k] ELSE HttpClose(conn[k])
  <2>1. /\ list' = Without(k)
        /\ conn' = [x \in DOMAIN conn \ {k} |-> conn[x]]
        /\ up' = IF c.err = "none" THEN up ELSE c.err
        /\ peer' = [peer EXCEPT ![k].st = "closed", ![k].todo = <<>>, ![k].wire = <<>>]
    BY <1>3 DEF Sweep, mg_close_conn
  <2>2. k \in DOMAIN conn /\ k \in Clients /\ Buffered(conn[k])
    BY <1>1, <1>3, Parts
  <2>3. c.err \in {"none", "assert", "reply"}
    <3>1. conn[k].err \in {"none", "assert", "reply"} /\ HttpClose(conn[k]).err \in {"none", "assert", "reply"}
      BY <2>2, HttpCloseNamed DEF Buffered
    <3> QED BY <3>1
  <2> HIDE DEF c, k
  <2>4. list' \in Seq(All) /\ NoTwice(list') /\ ToSet(list') = Listed \ {k}
    BY <1>1, <2>1, WithoutLemma
  <2>5. up' \in {"polling", "assert", "reply"}
    BY <1>1, <2>1, <2>3
  <2>6. DOMAIN conn' = DOMAIN conn \ {k} /\ \A x \in DOMAIN conn' : Buffered(conn'[x])
    BY <2>1, Parts
  <2>7. TypeOK' /\ NotListedBefore'
    BY <1>1, <2>4, <2>5, <2>6, Parts, ListLemma DEF TypeOK, NotListedBefore, All
  <2>8. DOMAIN peer = Clients /\ {"st", "todo", "wire"} \subseteq DOMAIN peer[k]
    BY <2>2, Parts DEF ConnectedListed
  <2>9. /\ DOMAIN peer' = Clients /\ \A j \in Clients \ {k} : peer'[j] = peer[j]
        /\ DOMAIN peer'[k] = DOMAIN peer[k] /\ peer'[k].st = "closed"
        /\ peer'[k].todo = <<>> /\ peer'[k].wire = <<>>
    BY <2>1, <2>2, <2>8
  <2>10. ConnectedListed'
    <3>1. <<>> \in Seq(Units)
      OBVIOUS
    <3> QED BY <2>2, <2>4, <2>8, <2>9, <3>1, Parts DEF ConnectedListed, Listed
  <2>11. ReadyAhead'
    BY <1>1 DEF ReadyAhead
  <2>12. Listener \in ToSet(list')
    BY <1>1, <1>3, <2>4, Parts DEF k
  <2>13. cursor' # End => cursor' \in ToSet(list')
    BY <1>2, <2>4
  <2> QED BY <2>4, <2>6, <2>7, <2>9, <2>10, <2>11, <2>12, <2>13, Assembled
<1>4. CASE ~(k # Listener /\ ToClose(conn[k]))
  <2>1. UNCHANGED <<up, list, conn, peer>>
    BY <1>4 DEF Sweep
  <2> QED BY <1>1, <1>2, <2>1, LoopStep
<1> QED BY <1>3, <1>4

LEMMA NextInv == WebInv /\ [Next]_vars => WebInv'
<1> SUFFICES ASSUME WebInv, [Next]_vars PROVE WebInv'
  OBVIOUS
<1>1. CASE bl_serve
  BY <1>1, ServeStep
<1>2. CASE Poll
  BY <1>2, SelectStep, AcceptStep, QuietStep, HandleStep, SweepStep DEF Poll
<1>3. ASSUME NEW k \in Clients, Connect(k) \/ Send(k) \/ Shutdown(k) \/ Vanish(k) PROVE WebInv'
  BY <1>3, PeersStep
<1>4. CASE UNCHANGED vars
  BY <1>4 DEF vars, netVars, WebInv, LoopStaysInList, TypeOK, ConnectedListed, NotListedBefore, ReadyAhead, Readable
<1> QED BY <1>1, <1>2, <1>3, <1>4 DEF Next

(* The invariant of the server: the loop, the clients' sockets and the     *)
(* buffers of the connections (mg_socket_if_poll and what it calls).       *)
THEOREM WebInvHolds == Spec => []WebInv
<1>1. Init => WebInv
  BY StartInv
<1>2. WebInv /\ [Next]_vars => WebInv'
  BY NextInv
<1> QED BY <1>1, <1>2, PTL DEF Spec

(* Whatever the handlers do, the connection the poll loop goes on with is  *)
(* in the list, which holds each connection once and the listener always   *)
(* (mg_socket_if_poll, mg_add_conn, mg_remove_conn).                       *)
THEOREM LoopStaysInListHolds == Spec => []LoopStaysInList
<1>1. WebInv => LoopStaysInList
  BY DEF WebInv
<1> QED BY <1>1, WebInvHolds, PTL

(* A socket select found readable still is when the loop comes to it, and  *)
(* the loop comes to it once in a poll: no read waits, and none is done on *)
(* a connection that has gone (mg_socket_if_poll, mg_mgr_handle_conn).     *)
THEOREM ReadyAheadHolds == Spec => []ReadyAhead
<1>1. WebInv => ReadyAhead
  BY DEF WebInv
<1> QED BY <1>1, WebInvHolds, PTL
=============================================================================
