------------------------------- MODULE Packets -------------------------------
(***************************************************************************)
(* The packets of the web server's library (mongoose.c): DNS, MQTT and     *)
(* CoAP messages, written and read byte by byte.  Places in a packet are   *)
(* counted from 1; a place behind its end is Len + 1.                      *)
(***************************************************************************)
EXTENDS Integers, Sequences, SequencesExt

CONSTANT LenBase   (* what a byte of MQTT's length holds, 128 in the code  *)
ASSUME LenBaseAssumption == LenBase \in 2..128

U16(n) == <<n \div 256, n % 256>>
getu16(s, p) == s[p] * 256 + s[p + 1]

Bad == [bad |-> TRUE]

-----------------------------------------------------------------------------
(* A name is a sequence of labels, each a sequence of bytes.  One with a   *)
(* label that is too long is refused: nothing stands for it.               *)
MaxLabel == 127
mg_dns_encode_name(labels) ==
  IF \E i \in 1..Len(labels) : Len(labels[i]) > MaxLabel THEN <<>>
  ELSE FlattenSeq([i \in 1..Len(labels) |-> <<Len(labels[i])>> \o labels[i]]) \o <<0>>

ARecord == 1
CNameRecord == 5

(* mg_dns_encode_record, of a question [name, rtype].                      *)
mg_dns_encode_question(name, rtype) == mg_dns_encode_name(name) \o U16(rtype) \o U16(1)

mg_dns_insert_header(tid, questions, answers) ==
  U16(tid) \o U16(256) \o U16(questions) \o U16(answers) \o U16(0) \o U16(0)

mg_send_dns_query(tid, name) ==
  IF mg_dns_encode_name(name) = <<>> THEN <<>>
  ELSE mg_dns_insert_header(tid, 1, 0) \o mg_dns_encode_question(name, ARecord)

(* mg_dns_encode_record, of an answer whose name has been written; rdata   *)
(* is an address or, for a CNAME, a name.                                  *)
mg_dns_encode_answer(name, a) ==
  LET data == IF a.rtype = CNameRecord THEN mg_dns_encode_name(a.rdata) ELSE a.rdata
  IN  name \o U16(a.rtype) \o U16(1) \o <<0, 0, 0, 60>> \o U16(Len(data)) \o data

(* The end of the name at p: its last byte, a zero or the second byte of a *)
(* pointer.                                                                *)
RECURSIVE NameEnd(_, _)
NameEnd(s, p) ==
  IF p > Len(s) \/ s[p] = 0 THEN p
  ELSE IF s[p] >= 64 THEN p + 1
  ELSE NameEnd(s, p + s[p] + 1)

(* data >= end - n, with end = Len(s) + 1.                                 *)
CutShort(s, p, n) == p >= Len(s) + 1 - n

(* mg_parse_dns_resource_record: the record at p, and where the next is.   *)
mg_parse_dns_resource_record(s, p, reply) ==
  LET q == NameEnd(s, p)
      r == q + 5
      n == getu16(s, r + 4)
  IN  IF CutShort(s, q, 4) THEN Bad
      ELSE IF ~ reply
      THEN [bad |-> FALSE, name |-> p, rtype |-> getu16(s, q + 1), data |-> 0, len |-> 0, next |-> r]
      ELSE IF CutShort(s, r, 6) THEN Bad
      ELSE [bad |-> FALSE, name |-> p, rtype |-> getu16(s, q + 1), data |-> r + 6, len |-> n,
            next |-> r + 6 + n]

RECURSIVE Records(_, _, _, _)
Records(s, p, n, reply) ==
  LET rr == mg_parse_dns_resource_record(s, p, reply)
  IN  IF n = 0 THEN <<>>
      ELSE IF rr.bad THEN <<Bad>>
      ELSE <<rr>> \o Records(s, rr.next, n - 1, reply)

HeaderSize == 12

(* mg_parse_dns: the questions and the answers, as many as the arrays of a *)
(* message hold, or Bad.                                                   *)
MaxRecords == 32
Held(n) == IF n > MaxRecords THEN MaxRecords ELSE n
mg_parse_dns(s) ==
  LET questions == Records(s, HeaderSize + 1, Held(getu16(s, 5)), FALSE)
      from == IF questions = <<>> THEN HeaderSize + 1 ELSE Last(questions).next
      answers == Records(s, from, Held(getu16(s, 7)), TRUE)
  IN  IF Len(s) < HeaderSize THEN Bad
      ELSE IF questions # <<>> /\ Last(questions).bad THEN Bad
      ELSE IF answers # <<>> /\ Last(answers).bad THEN Bad
      ELSE [bad |-> FALSE, tid |-> getu16(s, 1), questions |-> questions, answers |-> answers]

(* mg_dns_parse_record_data of an A record: the address, if the packet     *)
(* holds it.                                                               *)
mg_dns_parse_record_data(s, rr) ==
  IF rr.data + 4 > Len(s) + 1 THEN Bad ELSE [bad |-> FALSE, address |-> SubSeq(s, rr.data, rr.data + 3)]

(* mg_dns_uncompress_name: the labels of the name at p, following at most  *)
(* fifteen pointers; Bad if it leaves the packet or hops too often.        *)
MaxHops == 15
RECURSIVE Uncompress(_, _, _)
Uncompress(s, p, hops) ==
  IF p > Len(s) THEN Bad
  ELSE IF s[p] = 0 THEN [bad |-> FALSE, labels |-> <<>>]
  ELSE IF p + 1 > Len(s) THEN Bad
  ELSE IF s[p] >= 192
  THEN LET off == (s[p] - 192) * 256 + s[p + 1]
       IN  IF off >= Len(s) \/ hops = MaxHops THEN Bad ELSE Uncompress(s, off + 1, hops + 1)
  ELSE IF s[p] > 63 \/ p + 1 + s[p] > Len(s) THEN Bad
  ELSE LET rest == Uncompress(s, p + 1 + s[p], hops)
       IN  IF rest.bad THEN Bad
           ELSE [rest EXCEPT !.labels = <<SubSeq(s, p + 1, p + s[p])>> \o @]
mg_dns_uncompress_name(s, p) == Uncompress(s, p, 0)

-----------------------------------------------------------------------------
(* MQTT.  A message is a command, flags and the bytes behind the length.   *)
RECURSIVE VarLen(_)
VarLen(n) ==
  IF n < LenBase THEN <<n>> ELSE <<LenBase + (n % LenBase)>> \o VarLen(n \div LenBase)

mg_mqtt_prepend_header(cmd, flags, body) == <<cmd * 16 + flags>> \o VarLen(Len(body)) \o body

Counted(s) == U16(Len(s)) \o s

QosFlags(qos) == 2 * qos
GetQos(header) == (header \div 2) % 4

CONNECT == 1
CONNACK == 2
PUBLISH == 3
PUBACK == 4
PUBREC == 5
PUBREL == 6
PUBCOMP == 7
SUBSCRIBE == 8
SUBACK == 9
PINGREQ == 12

mg_mqtt_publish(topic, id, qos, data) ==
  mg_mqtt_prepend_header(PUBLISH, QosFlags(qos),
    Counted(topic) \o (IF qos > 0 THEN U16(id) ELSE <<>>) \o data)
mg_mqtt_subscribe(topics, id) ==
  mg_mqtt_prepend_header(SUBSCRIBE, QosFlags(1),
    U16(id) \o FlattenSeq([i \in 1..Len(topics) |-> Counted(topics[i]) \o <<0>>]))
mg_send_mqtt_short_command(cmd, id) ==
  mg_mqtt_prepend_header(cmd, IF cmd = PUBREL THEN 2 ELSE 0, U16(id))
mg_mqtt_suback(qoss, id) == mg_mqtt_prepend_header(SUBACK, QosFlags(1), U16(id) \o qoss)
mg_mqtt_connack(code) == mg_mqtt_prepend_header(CONNACK, 0, <<0, code>>)
mg_mqtt_ping == mg_mqtt_prepend_header(PINGREQ, 0, <<>>)

(* mg_send_mqtt_handshake_opt: the texts are the will's topic and message, *)
(* a user's name and a password, the empty text for one that is not given. *)
TextFlags == <<4, 4, 128, 64>>
mg_send_mqtt_handshake_opt(id, texts) ==
  LET flags == SumSet({TextFlags[i] : i \in {j \in 1..4 : texts[j] # <<>>}})
      given == SelectSeq(texts, LAMBDA t : t # <<>>)
  IN  mg_mqtt_prepend_header(CONNECT, 0,
        Counted(<<77, 81, 84, 84>>) \o <<4, flags>> \o U16(60) \o Counted(id)
          \o FlattenSeq([i \in 1..Len(given) |-> Counted(given[i])]))

Weight(k) == LenBase ^ k

(* The length of a message from p on: how much it is and where it ends;    *)
(* after five bytes it is refused.                                         *)
RECURSIVE DecodeLen(_, _, _, _)
DecodeLen(s, p, k, n) ==
  IF p > Len(s) THEN [state |-> "incomplete"]
  ELSE LET m == n + (s[p] % LenBase) * Weight(k)
       IN  IF s[p] < LenBase THEN [state |-> "ok", len |-> m, next |-> p + 1]
           ELSE IF k + 1 > 4 THEN [state |-> "malformed"]
           ELSE DecodeLen(s, p + 1, k + 1, m)

Incomplete == [state |-> "incomplete"]
Malformed == [state |-> "malformed"]

(* scanto: the counted text at p.                                          *)
Scan(s, p) == SubSeq(s, p + 2, p + 1 + getu16(s, p))

(* The texts of CONNECT that the flags say are there, from the i-th on.    *)
RECURSIVE GivenTexts(_, _, _, _, _)
GivenTexts(s, p, end, flags, i) ==
  IF i > 4 THEN [state |-> IF p = end THEN "ok" ELSE "malformed", texts |-> <<>>]
  ELSE IF (flags \div TextFlags[i]) % 2 = 0
  THEN LET rest == GivenTexts(s, p, end, flags, i + 1) IN [rest EXCEPT !.texts = <<<<>>>> \o @]
  ELSE IF p >= end THEN [state |-> "malformed", texts |-> <<>>]
  ELSE LET rest == GivenTexts(s, p + 2 + getu16(s, p), end, flags, i + 1)
       IN  [rest EXCEPT !.texts = <<Scan(s, p)>> \o @]

(* parse_mqtt of the buffer s.  Acknowledgements are not checked for their *)
(* length (an id is read from behind a shorter one).                       *)
parse_mqtt(s) ==
  LET l == DecodeLen(s, 2, 0, 0)
      cmd == s[1] \div 16
      qos == GetQos(s[1])
      p == l.next
      end == p + l.len
      topic == Scan(s, p)
      q == p + 2 + Len(topic)
      ok(fields) == [state |-> "ok", cmd |-> cmd, qos |-> qos, len |-> end - 1, fields |-> fields]
  IN  IF Len(s) < 2 THEN Incomplete
      ELSE IF l.state # "ok" THEN l
      ELSE IF l.len > Len(s) - (p - 1) THEN Incomplete
      ELSE CASE cmd = CONNACK -> IF l.len < 2 THEN Malformed ELSE ok(<<s[p + 1]>>)
             [] cmd \in {PUBACK, PUBREC, PUBREL, PUBCOMP, SUBACK} -> ok(<<getu16(s, p)>>)
             [] cmd = PUBLISH ->
                  IF q > end \/ (qos > 0 /\ end - q < 2) THEN Malformed
                  ELSE IF qos > 0 THEN ok(<<topic, getu16(s, q), SubSeq(s, q + 2, end - 1)>>)
                  ELSE ok(<<topic, 0, SubSeq(s, q, end - 1)>>)
             [] cmd = SUBSCRIBE ->
                  IF l.len < 2 THEN Malformed ELSE ok(<<getu16(s, p), SubSeq(s, p + 2, end - 1)>>)
             [] cmd = CONNECT ->
                  LET idAt == p + 2 + Len(topic) + 4      (* topic is the protocol's name   *)
                      id == Scan(s, idAt)
                      got == GivenTexts(s, idAt + 2 + Len(id), end, s[p + 2 + Len(topic) + 1], 1)
                  IN  IF q > end - 4 \/ idAt >= end \/ idAt + 2 + Len(id) > end THEN Malformed
                      ELSE IF got.state # "ok" THEN Malformed ELSE ok(<<id>> \o got.texts)
             [] OTHER -> ok(<<>>)

(* mqtt_handler at MG_EV_RECV: every whole message in the buffer is handed *)
(* over; a malformed one closes the connection, and so does a part of one  *)
(* that fills the buffer up to its limit, if it has one.                   *)
RECURSIVE mqtt_handler(_)
mqtt_handler(c) ==
  LET m == parse_mqtt(c.buf)
  IN  CASE m.state = "ok" ->
             mqtt_handler([c EXCEPT !.buf = SubSeq(@, m.len + 1, Len(@)),
                                    !.got = Append(@, <<m.cmd, m.fields>>)])
        [] m.state = "malformed" -> [c EXCEPT !.close = TRUE]
        [] OTHER -> [c EXCEPT !.close = c.limit > 0 /\ Len(c.buf) >= c.limit]

(* mg_mqtt_next_subscribe_topic, called until it returns -1.               *)
RECURSIVE mg_mqtt_next_subscribe_topic(_, _)
mg_mqtt_next_subscribe_topic(payload, p) ==
  IF p > Len(payload) \/ p + 2 + getu16(payload, p) > Len(payload) THEN <<>>
  ELSE <<Scan(payload, p)>> \o mg_mqtt_next_subscribe_topic(payload, p + 3 + getu16(payload, p))

(* mg_mqtt_match_topic_expression: an expression with a # stands for every *)
(* longer topic that begins like it.                                       *)
HashSign == 35
mg_mqtt_match_topic_expression(exp, topic) ==
  LET all == \E i \in 1..Len(exp) : exp[i] = HashSign
      e == IF all THEN Front(exp) ELSE exp
  IN  IF all THEN Len(topic) > Len(e) /\ SubSeq(topic, 1, Len(e)) = e ELSE topic = e

-----------------------------------------------------------------------------
(* CoAP.  A message has the fields mtype, class, detail, id, token,        *)
(* options (pairs of a number and a value) and payload.                    *)

(* mg_coap_add_option: behind all options with a number that is not        *)
(* larger.                                                                 *)
mg_coap_add_option(options, o) ==
  LET at == Cardinality({i \in 1..Len(options) : options[i][1] <= o[1]})
  IN  SubSeq(options, 1, at) \o <<o>> \o SubSeq(options, at + 1, Len(options))

(* coap_split_opt, coap_get_ext_opt_size and coap_add_opt_info: the four   *)
(* bits and the bytes for a number or a length.                            *)
coap_split_opt(n) ==
  CASE n < 13 -> [base |-> n, ext |-> <<>>]
    [] n >= 13 /\ n <= 268 -> [base |-> 13, ext |-> <<n - 13>>]
    [] OTHER -> [base |-> 14, ext |-> U16(n - 269)]
MaxOpt == 65535 + 269

(* coap_calculate_packet_size refuses what the header cannot hold.         *)
coap_calculate_packet_size(cm) ==
  /\ cm.mtype <= 3 /\ Len(cm.token) <= 8 /\ cm.class <= 7 /\ cm.detail <= 31
  /\ \A i \in 1..Len(cm.options) :
       LET before == IF i = 1 THEN 0 ELSE cm.options[i - 1][1]
       IN  before <= cm.options[i][1] /\ cm.options[i][1] - before <= MaxOpt /\ Len(cm.options[i][2]) <= MaxOpt

mg_coap_compose(cm) ==
  LET option(i) ==
        LET delta == coap_split_opt(cm.options[i][1] - (IF i = 1 THEN 0 ELSE cm.options[i - 1][1]))
            length == coap_split_opt(Len(cm.options[i][2]))
        IN  <<delta.base * 16 + length.base>> \o delta.ext \o length.ext \o cm.options[i][2]
  IN  <<64 + cm.mtype * 16 + Len(cm.token), cm.class * 32 + cm.detail>> \o U16(cm.id) \o cm.token
        \o FlattenSeq([i \in 1..Len(cm.options) |-> option(i)])
        \o (IF cm.payload = <<>> THEN <<>> ELSE <<255>> \o cm.payload)

(* coap_get_ext_opt at p: the value, of 16 bits, and the bytes it takes.   *)
coap_get_ext_opt(s, p, n) ==
  CASE n = 13 -> IF p <= Len(s) THEN [bad |-> FALSE, v |-> s[p] + 13, len |-> 1] ELSE Bad
    [] n = 14 -> IF p + 1 <= Len(s) THEN [bad |-> FALSE, v |-> (getu16(s, p) + 269) % 65536, len |-> 2] ELSE Bad
    [] OTHER -> [bad |-> FALSE, v |-> n, len |-> 0]

(* coap_get_options from p on: the options, and the place of the payload.  *)
RECURSIVE coap_get_options(_, _, _, _)
coap_get_options(s, p, prev, options) ==
  LET delta == coap_get_ext_opt(s, p + 1, s[p] \div 16)
      length == coap_get_ext_opt(s, p + 1 + delta.len, s[p] % 16)
      q == p + 1 + delta.len + length.len
      number == (delta.v + prev) % 65536
  IN  IF p > Len(s) THEN [bad |-> FALSE, options |-> options, next |-> p]
      ELSE IF s[p] = 255 THEN [bad |-> FALSE, options |-> options, next |-> p + 1]
      ELSE IF s[p] \div 16 = 15 \/ s[p] % 16 = 15 THEN Bad
      ELSE IF delta.bad THEN Bad
      ELSE IF length.bad THEN Bad
      ELSE IF q + length.v > Len(s) + 1 THEN Bad
      ELSE coap_get_options(s, q + length.v, number,
                            mg_coap_add_option(options, <<number, SubSeq(s, q, q + length.v - 1)>>))

(* mg_coap_parse, with coap_parse_header and coap_get_token.               *)
mg_coap_parse(s) ==
  LET n == s[1] % 16
      got == coap_get_options(s, 5 + n, 0, <<>>)
  IN  IF Len(s) < 4 \/ (Len(s) >= 1 /\ s[1] \div 64 # 1) THEN Bad
      ELSE IF n > 8 \/ 4 + n > Len(s) THEN Bad
      ELSE IF got.bad THEN Bad
      ELSE [bad |-> FALSE,
            message |-> [mtype |-> (s[1] \div 16) % 4, class |-> s[2] \div 32, detail |-> s[2] % 32,
                         id |-> getu16(s, 3), token |-> SubSeq(s, 5, 4 + n), options |-> got.options,
                         payload |-> SubSeq(s, got.next, Len(s))]]

mg_coap_send_ack(id) ==
  mg_coap_compose([mtype |-> 2, class |-> 0, detail |-> 0, id |-> id, token |-> <<>>, options |-> <<>>,
                   payload |-> <<>>])

(* coap_handler: what the handler is given for a datagram.  Every error    *)
(* has the bit that MG_COAP_IGNORE is tested for, so that none reaches it. *)
coap_handler(s) == LET r == mg_coap_parse(s) IN IF r.bad THEN <<>> ELSE <<r.message>>
=============================================================================
