-------------------------------- MODULE Text ---------------------------------
(***************************************************************************)
(* The pure algorithms on texts, of the runtime and of the web server's    *)
(* library, each compared with a reference definition.  A behaviour is one *)
(* call: the job is chosen, and out is what the code returns for it.       *)
(***************************************************************************)
EXTENDS Reader, Strings, Stdio, Codecs, Uris, Packets, Uploads

CONSTANTS
  Jobs,         (* a sequence of sets of calls, records with the field op  *)
  CoapNumbers   (* the numbers of options that are used, in their order    *)

VARIABLES job, out

vars == <<job, out>>

Pending == <<>>

Init == out = Pending /\ \E i \in 1..Len(Jobs) : job \in Jobs[i]

Called(op, result) == job.op = op /\ out = Pending /\ out' = <<result>> /\ UNCHANGED job

(* A text of tokens as a form and as a file, which is compiled; a value    *)
(* printed and read again.                                                 *)
Parse ==
  /\ job.op = "parse"
  /\ Called("parse", [sexp |-> bl_parse_sexp(job.toks), file |-> bl_parse_file(job.toks),
                      code |-> compile_file(bl_parse_file(job.toks)[2])])
PrintAndRead == job.op = "print" /\ Called("print", bl_parse_sexp(bl_ser_sexp(job.value)))

bl_oper_split == job.op = "split" /\ Called("split", split_str(job.s, job.sep))
Replace == job.op = "replace" /\ Called("replace", str_replace(job.s, job.sep, job.new))
Escape == job.op = "escape" /\ Called("escape", xml_escape(job.s))
PrefixMatch == job.op = "pmatch" /\ Called("pmatch", bl_oper_pmatch(job.s, job.pairs))
Unescape ==
  job.op = "unescape" /\ \E slash \in BOOLEAN :
    Called("unescape", [flag |-> slash, text |-> unescape(job.s, slash)])
Xml ==
  /\ job.op = "xml"
  /\ LET element(e) == xml_gen_oper(e.tag, e.attrs, e.texts)
     IN  Called("xml", xml_gen_oper(job.tag, job.attrs, [i \in 1..Len(job.inner) |-> element(job.inner[i])]))
FileWrite ==
  job.op = "fprintf" /\ \E flag \in BOOLEAN :
    Called("fprintf", [flag |-> flag, written |-> bl_fprintf(job.format, job.args, flag)])
FileCalls == job.op = "stdio" /\ Called("stdio", FoldLeft(Perform, NewStdio(job.disk), job.script))
Hints ==
  /\ job.op = "hints"
  /\ Called("hints", [names |-> completion_hook(job.own, job.outer, job.word),
                      hints |-> hint_hook(job.own, job.outer, job.word, job.bp + Len(job.word))])
Hash ==
  /\ job.op = "hash"
  /\ LET fed(update(_, _)) == FoldLeft(update, NewHash, job.pieces)
     IN  Called("hash", [md5 |-> cs_md5_final(fed(cs_md5_update)),
                         sha1 |-> cs_sha1_final(fed(cs_sha1_update))])
Hmac == job.op = "hmac" /\ Called("hmac", cs_hmac_sha1(job.key, job.text))
Hex == job.op = "hex" /\ Called("hex", cs_from_hex(cs_to_hex(job.text)))
CommaList ==
  /\ job.op = "commas"
  /\ Called("commas", mg_next_comma_list_entry_n(FlattenSeq([i \in 1..Len(job.list) |->
       (IF i = 1 THEN <<>> ELSE <<",">>) \o job.list[i][1]
          \o (IF job.list[i][2] = <<>> THEN <<>> ELSE <<"=">> \o job.list[i][2])])))
(* A header as clients write it: name="value", quotes escaped.             *)
InQuotes(v) ==
  <<"\"">> \o FlattenSeq([i \in 1..Len(v) |-> IF v[i] = "\"" THEN <<"\\", "\"">> ELSE <<v[i]>>]) \o <<"\"">>
HeaderVar ==
  /\ job.op = "header"
  /\ Called("header", mg_http_parse_header(FlattenSeq([i \in 1..Len(job.list) |->
       (IF i = 1 THEN <<>> ELSE <<",", " ">>) \o job.list[i][1] \o <<"=">> \o InQuotes(job.list[i][2])]),
       job.name, job.size))
Base64 ==
  /\ job.op = "base64"
  /\ Called("base64", cs_base64_finish(FoldLeft(cs_base64_update, cs_base64_init, job.pieces)))
BasicAuth ==
  /\ job.op = "auth"
  /\ Called("auth", mg_parse_http_basic_auth(mg_basic_auth_header(job.user, job.pass), job.rest))
FormVar ==
  /\ job.op = "form"
  /\ Called("form", mg_get_http_var(FlattenSeq([i \in 1..Len(job.vars) |->
       (IF i = 1 THEN <<>> ELSE <<Amp>>) \o job.vars[i][1] \o <<Equals>>
          \o mg_url_encode(job.vars[i][2])]), job.name, job.size))
Printf == job.op = "printf" /\ Called("printf", c_vsnprintf(job.size, job.format))
Match == job.op = "match" /\ Called("match", mg_match_prefix_n(job.p, job.s))
Normalize == job.op = "path" /\ Called("path", mg_normalize_uri_path(job.s))
Uri == job.op = "uri" /\ Called("uri", mg_parse_uri(mg_assemble_uri(job.parts, FALSE)))
Connect ==
  /\ job.op = "connect"
  /\ \E url \in {mg_assemble_uri(job.parts, FALSE)} : \E parts \in {mg_parse_uri(url)} :
       Called("connect", mg_connect_http_opt(url, parts, <<>>))

(* The file of a request, and the environment of a CGI program in it; the  *)
(* index file is found by the caller.                                      *)
Local == job.op = "local" /\ Called("local", mg_uri_to_local_path(job.uri, job.req, job.opts, job.stat))
CgiEnvironment ==
  /\ job.op = "cgi"
  /\ \E found \in {mg_uri_to_local_path(job.uri, job.req, job.opts, job.stat)} :
     LET local == IF found.rest = <<>> /\ Last(job.uri) = "/"
                  THEN [found EXCEPT !.path = @ \o <<"/", "i">>] ELSE found
         hm == [uri |-> job.uri, method |-> "GET", query |-> job.query, headers |-> job.headers]
     IN  Called("cgi", [local |-> local, wanted |-> CgiVars(hm, local, <<>>),
                        blk |-> mg_prepare_cgi_environment(hm, local, <<>>, job.size, job.most)])

(* An answer to a query, as a nameserver writes it: the answers point to   *)
(* the name in the question.  cut bytes are missing at its end.            *)
Reply ==
  LET query == mg_send_dns_query(1, job.name)
      whole == mg_dns_insert_header(1, 1, Len(job.answers)) \o SubSeq(query, HeaderSize + 1, Len(query))
                 \o FlattenSeq([i \in 1..Len(job.answers) |->
                      mg_dns_encode_answer(<<192, HeaderSize>>, job.answers[i])])
  IN  IF query = <<>> THEN <<>> ELSE SubSeq(whole, 1, Len(whole) - job.cut)
Dns ==
  /\ job.op = "dns"
  /\ LET msg == mg_parse_dns(Reply)
         read(rr) == IF rr.rtype = ARecord THEN mg_dns_parse_record_data(Reply, rr)
                     ELSE mg_dns_uncompress_name(Reply, rr.data)
     IN  Called("dns", IF msg.bad THEN Bad
                       ELSE [bad |-> FALSE,
                             name |-> mg_dns_uncompress_name(Reply, msg.questions[1].name),
                             owners |-> [i \in 1..Len(msg.answers) |->
                                           mg_dns_uncompress_name(Reply, msg.answers[i].name)],
                             data |-> [i \in 1..Len(msg.answers) |-> read(msg.answers[i])]])

(* A packet of which a name is read, pointers and all.                     *)
DnsName == job.op = "name" /\ Called("name", mg_dns_uncompress_name(job.packet, job.at))

(* The messages of a peer, received in two pieces, each read as far as the *)
(* buffer's limit lets it (recv_avail_size).                               *)
MqttBytes(m) ==
  CASE m[1] = CONNECT -> mg_send_mqtt_handshake_opt(m[2][1], Tail(m[2]))
    [] m[1] = CONNACK -> mg_mqtt_connack(m[2][1])
    [] m[1] = PUBLISH -> mg_mqtt_publish(m[2][1], m[2][2], IF m[2][2] = 0 THEN 0 ELSE 1, m[2][3])
    [] m[1] = SUBSCRIBE -> mg_mqtt_subscribe(m[2][2], m[2][1])
    [] m[1] = SUBACK -> mg_mqtt_suback(<<1, 0>>, m[2][1])
    [] m[1] = PINGREQ -> mg_mqtt_ping
    [] OTHER -> mg_send_mqtt_short_command(m[1], m[2][1])
RECURSIVE Received(_, _)
Received(c, bytes) ==
  LET room == c.limit - Len(c.buf)
      n == IF c.limit = 0 \/ room > Len(bytes) THEN Len(bytes) ELSE room
  IN  IF bytes = <<>> \/ c.close THEN c
      ELSE Received(mqtt_handler([c EXCEPT !.buf = @ \o SubSeq(bytes, 1, n)]), SubSeq(bytes, n + 1, Len(bytes)))
Mqtt ==
  /\ job.op = "mqtt"
  /\ LET sent == FlattenSeq([i \in 1..Len(job.messages) |-> MqttBytes(job.messages[i])])
         at == IF job.at > Len(sent) THEN Len(sent) ELSE job.at
         first == Received([buf |-> <<>>, got |-> <<>>, close |-> FALSE, limit |-> job.limit], SubSeq(sent, 1, at))
     IN  Called("mqtt", Received(first, SubSeq(sent, at + 1, Len(sent))))
Topic ==
  job.op = "topic" /\ Called("topic", mg_mqtt_match_topic_expression(job.exp, job.topic))

(* Options are added in any order; the datagram may lose its end.  The     *)
(* acknowledgement of a message carries its id.                            *)
CoapMessage == [job.message EXCEPT !.options = FoldLeft(mg_coap_add_option, <<>>, job.message.options)]
Coap ==
  /\ job.op = "coap"
  /\ LET bytes == mg_coap_compose(CoapMessage)
         sent == SubSeq(bytes, 1, Len(bytes) - job.cut)
     IN  Called("coap", IF coap_calculate_packet_size(CoapMessage)
                        THEN [refused |-> FALSE, got |-> coap_handler(sent),
                              ack |-> coap_handler(mg_coap_send_ack(job.message.id))]
                        ELSE [refused |-> TRUE])

(* A multipart body as a browser writes it, with another header in the     *)
(* parts that have one.  It arrives in three pieces, or the connection     *)
(* closes behind the second; the handler sees the events as they come.     *)
UploadBody ==
  FlattenSeq([i \in 1..Len(job.parts) |->
    <<"-", "-">> \o Boundary \o <<CR, LF, job.parts[i].name, CR, LF>>
      \o (IF job.parts[i].other THEN <<OtherHeader, CR, LF>> ELSE <<>>)
      \o <<CR, LF>> \o job.parts[i].data \o <<CR, LF>>])
    \o <<"-", "-">> \o Boundary \o <<"-", "-", CR, LF>>
Upload ==
  /\ job.op = "upload"
  /\ job.at2 <= Len(UploadBody)
  /\ LET piece(from, to) == SubSeq(UploadBody, from + 1, to)
         more(mp, data) == mg_http_multipart_continue([mp EXCEPT !.buf = @ \o data])
         two == more(more(mg_http_multipart_begin, piece(0, job.at1)), piece(job.at1, job.at2))
         mp == IF job.closed THEN MultipartClosed(two)
               ELSE more(two, piece(job.at2, Len(UploadBody)))
     IN  Called("upload",
           [stream |-> mp, parsed |-> mg_parse_multipart(UploadBody),
            disk |-> FoldLeft(LAMBDA u, e : mg_file_upload_handler(u, e, job.disk),
                              NewUploads, mp.events)])

Next ==
  \/ Parse \/ PrintAndRead \/ bl_oper_split \/ Replace \/ Escape \/ PrefixMatch \/ Unescape \/ Xml \/ FileWrite \/ FileCalls \/ Hints
  \/ Hash \/ Hmac \/ Hex \/ CommaList \/ HeaderVar \/ Base64 \/ BasicAuth \/ FormVar
  \/ Printf \/ Match \/ Normalize \/ Uri \/ Connect \/ Local \/ CgiEnvironment
  \/ Dns \/ DnsName \/ Mqtt \/ Topic \/ Coap \/ Upload

Spec == Init /\ [][Next]_vars

Done(op) == job.op = op /\ out # Pending

-----------------------------------------------------------------------------
(* bl_parse_file loses no token and adds none: what it returns is the      *)
(* text, up to a right parenthesis that closes nothing, where the rest of  *)
(* the file is ignored (sexp.c:24, 36), with the lists that the end of the *)
(* file leaves open closed there.                                          *)
FileIsRead ==
  Done("parse") => Tokens(out[1].file) = <<Left>> \o Completed(UpToStray(job.toks)) \o <<Right>>

(* What bl_ser_sexp prints is read back as the same value by bl_parse_sexp *)
(* for every value made of numbers, symbols, strings, if and lists: the    *)
(* forms docstrings, do and while, and None, are not.  And bl_parse_file   *)
(* reads all of a file that is balanced.                                   *)
FormsReadBack == FileIsRead /\ (Done("print") /\ Printable(job.value) => out[1] = job.value)

(* compile_file writes the atoms of a function's body in their order, each *)
(* once, and a brace is left open exactly for each number in it.  Of the   *)
(* texts here it is only the empty file, or one that a stray parenthesis   *)
(* makes empty, at which the compiler crashes (blc/src/main.c:157).        *)
CompiledInOrder ==
  Done("parse") =>
    /\ out[1].code.crash => UpToStray(job.toks) = <<>>
    /\ \A i \in 1..Len(out[1].code.funs) :
      LET f == out[1].code.funs[i]
          body == CHOOSE g \in ToSet(out[1].file[2]) : IsList(g) /\ Len(g[2]) > 3 /\ g[2][2] = f.name
          atoms == SelectSeq(Atoms(List(SubSeq(body[2], 4, Len(body[2])))), LAMBDA a : a[1] # "doc")
          code == FlattenSeq(f.code)
          leaves == SelectSeq(code, LAMBDA m : m[1] = "leaf" /\ m[2] # Nothing)
          numbers == Len(SelectSeq(atoms, LAMBDA a : a[1] = "int"))
      IN  /\ [j \in 1..Len(leaves) |-> leaves[j][2]] = atoms
          /\ Count(code, <<"{">>) = Count(code, <<"}">>) + numbers

(* split_str loses nothing but separators: no piece holds one, and the     *)
(* pieces joined again are the text, up to one separator at its end.  A    *)
(* text that is the separator itself is returned as it is.  str_replace    *)
(* and the operator escape of the module xml, which are made of it,        *)
(* replace every instance when there is none at the end.                   *)
RECURSIVE Replaced(_, _, _)
Replaced(s, a, b) ==
  LET at == strstr(s, a)
  IN  IF at = 0 THEN s
      ELSE SubSeq(s, 1, at - 1) \o b \o Replaced(SubSeq(s, at + Len(a), Len(s)), a, b)
EndsIn(s, a) == Len(s) >= Len(a) /\ SubSeq(s, Len(s) - Len(a) + 1, Len(s)) = a
SplitKeepsText ==
  /\ Done("split") /\ job.s # job.sep =>
       LET pieces == out[1]
           joined == join_str(pieces, job.sep)
       IN  /\ \A i \in 1..Len(pieces) : strstr(pieces[i], job.sep) = 0
           /\ job.s # <<>> => joined = job.s \/ joined \o job.sep = job.s
  /\ Done("replace") /\ ~ EndsIn(job.s, job.sep) => out[1] = Replaced(job.s, job.sep, job.new)
  /\ Done("escape") /\ ~ EndsIn(job.s, <<"<">>) /\ ~ EndsIn(job.s, <<">">>) =>
       out[1] = Replaced(Replaced(job.s, <<"<">>, <<"&lt;">>), <<">">>, <<"&gt;">>)

(* What is read from left to right keeps its order.  When their flags      *)
(* happen to start as false: bl_fprintf, given arguments enough, writes the*)
(* format with each %s replaced by the next argument, (null) for an empty  *)
(* one, and each %% by one %.  Of a call with too few arguments, for which *)
(* stdio.c:141 promises (null), only this is said: what it has written when*)
(* it dereferences the missing one (sexp.c:237) is the head of that text.  *)
(* unescape replaces each escaped n and t and nothing else.  The elements  *)
(* of xml_gen_oper nest and hold their texts in order, when none has       *)
(* attributes only.  bl_oper_pmatch returns the value of the first prefix. *)
(* And SplitKeepsText, StdioInOrder and HintsContinue.                     *)
RECURSIVE Asked(_)
Asked(f) ==
  CASE Len(f) < 2 -> 0
    [] Len(f) > 1 /\ f[1] = "%" -> (IF f[2] = "s" THEN 1 ELSE 0) + Asked(SubSeq(f, 3, Len(f)))
    [] OTHER -> Asked(Tail(f))
RECURSIVE Written(_, _)
Written(f, args) ==
  CASE f = <<>> -> <<>>
    [] Len(f) > 1 /\ f[1] = "%" /\ f[2] = "%" -> <<"%">> \o Written(SubSeq(f, 3, Len(f)), args)
    [] Len(f) > 1 /\ f[1] = "%" /\ f[2] = "s" ->
         (IF args = <<>> \/ args[1] = <<>> THEN <<"(null)">> ELSE args[1])
           \o Written(SubSeq(f, 3, Len(f)), IF args = <<>> THEN args ELSE Tail(args))
    [] OTHER -> <<f[1]>> \o Written(Tail(f), args)
RECURSIVE Unescaped(_)
Unescaped(s) ==
  CASE s = <<>> -> <<>>
    [] s[1] = "\\" -> <<IF s[2] = "n" THEN "newline" ELSE "tab">> \o Unescaped(SubSeq(s, 3, Len(s)))
    [] OTHER -> <<s[1]>> \o Unescaped(Tail(s))

(* The tags that are open behind a text, Crossed if they do not nest.      *)
Crossed == <<"crossed">>
OpenTags(s) ==
  FoldLeft(LAMBDA open, t : IF t[1] = "open" THEN Append(open, t[2])
                            ELSE IF t[1] # "close" THEN open
                            ELSE IF open # <<>> /\ Last(open) = t[2] THEN Front(open) ELSE Crossed,
           <<>>, s)

(* A program that uses handles as long as they are open, pipes closed as   *)
(* pipes, never makes the module stdio use a stream that is gone, although *)
(* addresses come back; a file it opened once holds, when it has closed    *)
(* it, what it wrote, in order.  An error given for a handle is returned.  *)
Opens == {"fopen", "popen"}
Closes == {"fclose", "pclose"}
ClosedAt(i) == {k \in 1..Len(job.script) : job.script[k].op \in Closes /\ job.script[k].of = i}
Lawful ==
  \A i \in 1..Len(job.script) :
    LET c == job.script[i]
    IN  c.op \notin Opens =>
          /\ job.script[c.of].op \in Opens /\ ClosedAt(c.of) \cap 1..i - 1 = {}
          /\ out[1].got[c.of] # Ptr(0)
          /\ c.op = "pclose" => job.script[c.of].op = "popen"
WrittenTo(i) ==
  LET mine == SelectSeq(job.script, LAMBDA c : c.op = "fprintf" /\ c.of = i)
  IN  [k \in 1..Len(mine) |-> mine[k].text]
Opening(name) == {i \in 1..Len(job.script) : job.script[i].op = "fopen" /\ job.script[i].name = name}
StdioInOrder ==
  Done("stdio") =>
    LET end == out[1]
    IN  /\ Lawful => ~ end.wild
        /\ Lawful => \A i \in 1..Len(job.script) :
             job.script[i].op = "fopen" /\ end.got[i].t = "ptr" /\ job.script[i].mode # "r"
                 /\ Opening(job.script[i].name) = {i} /\ ClosedAt(i) # {} =>
               LET name == job.script[i].name
                   old == IF job.script[i].mode = "a" /\ name \in DOMAIN job.disk THEN job.disk[name] ELSE <<>>
               IN  end.disk[name] = old \o WrittenTo(i)
        /\ \A i \in 1..Len(end.got) :
             LET c == job.script[i]
             IN  c.op \in {"fclose", "fprintf", "fgets"} /\ end.got[c.of].t = "err" => end.got[i] = end.got[c.of]

(* The prompt completes a word to the names of its context and then of the *)
(* one around it, and hints at the rest of each; a docstring, which starts *)
(* with a parenthesis and the name, continues a line that starts with the  *)
(* same.                                                                   *)
HintsContinue ==
  Done("hints") =>
    LET h == out[1].hints
        names == out[1].names
        outerDoc(i) == \E s \in ToSet(job.outer) : s.name = names[i] /\ s.doc # <<>>
    IN  /\ \A i \in 1..Len(names) : IsPrefix(job.word, names[i])
        /\ \A s \in (ToSet(job.own) \cup ToSet(job.outer)) \ {Unbound} :
             IsPrefix(job.word, s.name) => s.name \in ToSet(names)
        /\ job.word # <<>> => Len(h) = Len(names)
        /\ \A i \in 1..Len(h) :
             \/ ~ h[i].outside /\ job.word \o h[i].text = names[i]
             \/ outerDoc(i) /\ (job.bp = 1 => ~ h[i].outside /\ IsPrefix(names[i], job.word \o h[i].text))

TextsInOrder ==
  /\ SplitKeepsText /\ StdioInOrder /\ HintsContinue
  /\ Done("fprintf") /\ ~ out[1].flag =>
       LET whole == Written(job.format, job.args)
       IN  IF Asked(job.format) <= Len(job.args)
           THEN out[1].written = [text |-> whole, crash |-> FALSE]
           ELSE IsPrefix(out[1].written.text, whole)
  /\ Done("unescape") /\ ~ out[1].flag => out[1].text = Unescaped(job.s)
  /\ Done("xml") =>
       LET onlyAttrs == Cardinality({i \in 1..Len(job.inner) :
                          job.inner[i].texts = <<>> /\ job.inner[i].attrs # <<>>})
           texts == FlattenSeq(FlattenSeq([i \in 1..Len(job.inner) |-> job.inner[i].texts]))
       IN  /\ job.inner # <<>> /\ onlyAttrs = 0 => OpenTags(out[1]) = <<>>
           /\ SelectSeq(out[1], LAMBDA t : t[1] = "text") = texts
  /\ Done("pmatch") =>
       \/ out[1] = "None" /\ \A i \in 1..Len(job.pairs) : ~ IsPrefix(job.pairs[i][1], job.s)
       \/ \E i \in 1..Len(job.pairs) :
            /\ IsPrefix(job.pairs[i][1], job.s) /\ out[1] = job.pairs[i][2]
            /\ \A j \in 1..(i - 1) : ~ IsPrefix(job.pairs[j][1], job.s)

(* Both hash functions hash the message followed by the mark, zeros and    *)
(* the length, cut into blocks, however the message was cut into pieces    *)
(* for their update functions, and never a stale byte of their buffer.     *)
Padded(message) ==
  LET n == Len(message)
  IN  message \o <<Mark>> \o Zeros((2 * Block - 1 - LenField - (n % Block)) % Block) \o Length(n)
BlocksOf(message) ==
  [k \in 1..(Len(Padded(message)) \div Block) |->
     SubSeq(Padded(message), (k - 1) * Block + 1, k * Block)]
HashSeesMessage ==
  /\ Done("hash") =>
       LET blocks == BlocksOf(FlattenSeq(job.pieces))
       IN  out[1].md5 = blocks /\ out[1].sha1 = blocks
  /\ Done("hmac") =>
       LET h(m) == Digest(BlocksOf(m))
           key == IF Len(job.key) > Block THEN h(job.key) ELSE job.key
       IN  out[1] = h(Xored(key, "5c") \o h(Xored(key, "36") \o job.text))

(* What is encoded is decoded to the same: base64, whichever encoder wrote *)
(* it and in whatever pieces; a user's name and password, in the header,   *)
(* with what follows the header; the variables of a form or of a header,   *)
(* as long as they fit; lists with commas, hex, and a URI put together     *)
(* from its parts.                                                         *)
AtFirst(form, name) ==
  form[CHOOSE i \in 1..Len(form) : form[i][1] = name /\ \A j \in 1..(i - 1) : form[j][1] # name][2]
CodecsRoundTrip ==
  /\ Done("base64") =>
       LET message == FlattenSeq(job.pieces)
       IN  cs_base64_decode(out[1], 1) = message /\ out[1] = cs_base64_encode(message)
  /\ Done("auth") =>
       out[1].user = job.user /\ out[1].pass = (IF job.pass = <<>> THEN Unset ELSE job.pass)
  /\ Done("form") =>
       LET named == \E i \in 1..Len(job.vars) : job.vars[i][1] = job.name
           value == AtFirst(job.vars, job.name)
       IN  out[1] = IF ~ named \/ Len(value) >= job.size THEN Failed ELSE value
  /\ Done("header") =>
       LET named == \E i \in 1..Len(job.list) : job.list[i][1] = job.name
           value == AtFirst(job.list, job.name)
       IN  out[1] = IF ~ named \/ Len(value) >= job.size THEN <<>> ELSE value
  /\ Done("commas") => out[1] = job.list
  /\ Done("hex") => out[1] = job.text
  /\ Done("uri") => out[1] = job.parts
  /\ Done("connect") /\ out[1].ok /\ job.parts.path # <<>> =>
       LET p == job.parts
       IN  /\ out[1].host = mg_assemble_uri([Parts EXCEPT !.host = p.host, !.port = p.port], FALSE)
           /\ out[1].path = mg_assemble_uri([Parts EXCEPT !.path = p.path, !.query = p.query], FALSE)

(* What is written to a packet is read from it.  A DNS reply yields the    *)
(* name asked for and every answer there is room for; one that is cut      *)
(* short is refused, or yields no address that is not in it; a name that   *)
(* cannot be written is not asked for.  Whatever a packet holds, a name is *)
(* read in finitely many hops and from inside.  MQTT messages are handed   *)
(* over one by one, in order and whole, wherever TCP cuts them, up to the  *)
(* first that is longer than the limit, which closes the connection.  A    *)
(* CoAP message arrives with its options in the order of their numbers and *)
(* those of one number in the order they were added; one that is cut short *)
(* is ignored, or yields no more than its first options and bytes.         *)
DnsReadsBack ==
  /\ Done("dns") /\ ~ out[1].bad =>
       LET said == [i \in 1..Len(job.answers) |->
             IF job.answers[i].rtype = ARecord THEN [bad |-> FALSE, address |-> job.answers[i].rdata]
             ELSE [bad |-> FALSE, labels |-> job.answers[i].rdata]]
       IN  /\ out[1].name = [bad |-> FALSE, labels |-> job.name]
           /\ Len(out[1].data) = Held(Len(job.answers))
           /\ \A i \in 1..Len(out[1].data) :
                /\ out[1].owners[i] = out[1].name
                /\ out[1].data[i] = said[i] \/ (job.cut > 0 /\ out[1].data[i].bad)
  /\ Done("dns") /\ job.cut = 0 => (out[1].bad <=> \E i \in 1..Len(job.name) : Len(job.name[i]) > MaxLabel)
  /\ Done("name") /\ ~ out[1].bad =>
       \A i \in 1..Len(out[1].labels) : Len(out[1].labels[i]) < Len(job.packet)
MqttInOrder ==
  /\ Done("mqtt") =>
       LET m == job.messages
           got == out[1].got
           long == {i \in 1..Len(m) : job.limit > 0 /\ Len(MqttBytes(m[i])) > job.limit}
       IN  /\ out[1].close = (long # {}) /\ (out[1].close \/ out[1].buf = <<>>)
           /\ Len(got) = IF long = {} THEN Len(m) ELSE Min(long) - 1
           /\ \A i \in 1..Len(got) :
                IF m[i][1] = SUBSCRIBE
                THEN got[i][1] = SUBSCRIBE /\ got[i][2][1] = m[i][2][1]
                     /\ mg_mqtt_next_subscribe_topic(got[i][2][2], 1) = m[i][2][2]
                ELSE got[i] = m[i]
  /\ Done("topic") /\ out[1] /\ ~ (\E i \in 1..Len(job.exp) : job.exp[i] = HashSign) =>
       job.topic = job.exp
CoapReadsBack ==
  Done("coap") =>
    LET m == job.message
        sorted == FlattenSeq([k \in 1..Len(CoapNumbers) |->
                    SelectSeq(m.options, LAMBDA o : o[1] = CoapNumbers[k])])
        got == out[1].got
    IN  /\ out[1].refused = (Len(m.token) > 8)
        /\ ~ out[1].refused =>
             /\ out[1].ack[1].id = m.id /\ out[1].ack[1].mtype = 2
             /\ job.cut = 0 => got = <<[m EXCEPT !.options = sorted]>>
             /\ got # <<>> =>
                  /\ [got[1] EXCEPT !.options = <<>>, !.payload = <<>>] = [m EXCEPT !.options = <<>>, !.payload = <<>>]
                  /\ IsPrefix(got[1].options, sorted) /\ IsPrefix(got[1].payload, m.payload)
PacketsReadBack == DnsReadsBack /\ MqttInOrder /\ CoapReadsBack

(* Whatever one side of the web server's library writes, the other side    *)
(* reads: CodecsRoundTrip and PacketsReadBack.                             *)
RoundTrips == CodecsRoundTrip /\ PacketsReadBack

(* Wherever TCP cuts a multipart body, its parts are handed over in order: *)
(* each begins once, yields its bytes and ends, and the request ends       *)
(* behind the last.  One that is cut off yields a beginning of that and    *)
(* tells every part that had begun, and the request, that it ended.  A     *)
(* file that is stored and closed holds all of its part, and what did not  *)
(* fit leaves none.  mg_parse_multipart finds the same first part.  Only a  *)
(* body with another header line, cut inside its headers, is read behind   *)
(* the end of the buffer.                                                  *)
DataOf(events, n) ==
  FlattenSeq([i \in 1..Len(events) |->
    IF events[i].ev = "part data" /\ events[i].name = n THEN events[i].data ELSE <<>>])
Marks(events) ==
  LET marked == SelectSeq(events, LAMBDA e : e.ev # "part data")
  IN  [i \in 1..Len(marked) |-> <<marked[i].ev, marked[i].name>>]
PartsAsSent ==
  Done("upload") =>
    LET mp == out[1].stream
        disk == out[1].disk
        all == FlattenSeq([i \in 1..Len(job.parts) |->
                 <<<<"part begin", job.parts[i].name>>, <<"part end", job.parts[i].name>>>>])
        first == job.parts[1]
    IN  /\ mp.err => \E i \in 1..Len(job.parts) : job.parts[i].other
        /\ ~ mp.err /\ ~ job.closed => Marks(mp.events) = all \o <<<<"request end", "none">>>>
        /\ \A i \in 1..Len(job.parts) :
             LET p == job.parts[i]
                 given == DataOf(mp.events, p.name)
                 stored == disk.files[p.name]
             IN  /\ IsPrefix(given, p.data)
                 /\ ~ mp.err /\ ~ job.closed => given = p.data
                 /\ stored \in {<<>>, p.data}
                 /\ 200 \in ToSet(disk.replies) => \E j \in 1..Len(job.parts) :
                      disk.files[job.parts[j].name] = job.parts[j].data
        /\ Len(out[1].parsed) = 1
        /\ out[1].parsed[1].name = first.name /\ out[1].parsed[1].data = first.data

(* c_vsnprintf writes inside the buffer, ends the text there, and returns  *)
(* the length the whole text has: the buffer holds as much of it as fits.  *)
PrintfInside ==
  Done("printf") =>
    LET whole == c_vsnprintf(1000, job.format)
    IN  /\ out[1].i = whole.i
        /\ DOMAIN out[1].written = {p \in 0..out[1].i : p < job.size}
        /\ \A p \in DOMAIN out[1].written :
             out[1].written[p] = IF p = job.size - 1 THEN 0 ELSE whole.written[p]

(* A pattern fits a text: what mg_match_prefix_n searches for.             *)
RECURSIVE Fits(_, _)
Fits(p, s) ==
  IF p = <<>> THEN s = <<>>
  ELSE CASE p[1] = "*" ->
              LET double == Len(p) > 1 /\ p[2] = "*"
                  most == IF double THEN Len(s) ELSE FirstOf(s, 1, {"/"}) - 1
              IN  \E len \in 0..most :
                    Fits(SubSeq(p, IF double THEN 3 ELSE 2, Len(p)), SubSeq(s, len + 1, Len(s)))
         [] p[1] = "?" -> s # <<>> /\ s[1] # "/" /\ Fits(Tail(p), Tail(s))
         [] OTHER -> s # <<>> /\ p[1] = s[1] /\ Fits(Tail(p), Tail(s))

(* mg_match_prefix_n returns the length of a prefix that the pattern fits, *)
(* across slashes only for two stars, and the length of the text for a     *)
(* pattern that ends in $, unless a star stands before it.  A question mark*)
(* is for one character that is no slash (mongoose.h:2221); nothing is said*)
(* of one that has to do with a text with slashes, because there the code  *)
(* lets it fit a slash (mongoose.c:2109).                                  *)
RECURSIVE Alternatives(_)
Alternatives(p) ==
  LET or == FirstOf(p, 1, {"|", ","})
  IN  IF or > Len(p) THEN {p}
      ELSE {SubSeq(p, 1, or - 1)} \cup Alternatives(SubSeq(p, or + 1, Len(p)))
Unanchored(p) == IF p # <<>> /\ Last(p) = "$" THEN Front(p) ELSE p
MatchIsPrefix ==
  Done("match") /\ out[1] > 0 /\ ("?" \in ToSet(job.p) => "/" \notin ToSet(job.s)) =>
    \E p \in Alternatives(job.p) :
      /\ Fits(Unanchored(p), SubSeq(job.s, 1, out[1]))
      /\ Unanchored(p) # p /\ Last(Unanchored(p)) # "*" => out[1] = Len(job.s)

(* mg_normalize_uri_path resolves the dots: what it returns is the path of *)
(* the components that are left when each .. takes the one before it, and  *)
(* nothing at the root; so it never leads outside.  A component is kept    *)
(* with the slash behind it.                                               *)
RECURSIVE Components(_)
Components(s) ==
  LET end == FirstOf(s, 1, {"/"})
  IN  IF s = <<>> THEN <<>>
      ELSE IF end > Len(s) THEN <<s>>
      ELSE <<SubSeq(s, 1, end)>> \o Components(SubSeq(s, end + 1, Len(s)))
Named(component, name) == component \in {name, Append(name, "/")}
Resolve(stack, c) ==
  CASE Named(c, <<".">>) -> stack
    [] Named(c, <<".", ".">>) -> IF Len(stack) = 1 THEN stack ELSE Front(stack)
    [] OTHER -> Append(stack, c)
PathStaysInside ==
  Done("path") => out[1] = FlattenSeq(FoldLeft(Resolve, <<>>, Components(job.s)))

(* mg_uri_to_local_path leads to the file below its root that the URI      *)
(* names, decoded before dots and slashes are looked for, and what it      *)
(* leaves of the URI is the rest behind a regular file.  A rewrite rule    *)
(* that fits up to the middle of a component spoils that.                  *)
ForHost(rule) == rule[1][1] = "@"
Fit(rule) == IF ForHost(rule) THEN 0 ELSE mg_match_prefix_n(rule[1], job.uri)
Whole(rule) ==
  \/ ForHost(rule) /\ Tail(rule[1]) = job.req.host
  \/ Fit(rule) > 0 /\ (Fit(rule) = Len(job.uri) \/ "/" \in {job.uri[Fit(rule)], job.uri[Fit(rule) + 1]})
FirstWhole == {i \in 1..Len(job.opts.url_rewrites) :
  Whole(job.opts.url_rewrites[i]) /\ \A j \in 1..i - 1 : ~ Whole(job.opts.url_rewrites[j])}
Walk(stack, c) ==
  LET name == UrlDecoded(IF Last(c) = "/" THEN Front(c) ELSE c)
  IN  CASE name \in {<<>>, <<".">>} -> stack
        [] name = <<".", ".">> -> IF stack = <<>> THEN stack ELSE Front(stack)
        [] OTHER -> Append(stack, name)
PathNamed(root, uri) ==
  LET names == FoldLeft(Walk, <<>>, Components(uri))
  IN  root \o FlattenSeq([i \in 1..Len(names) |-> <<"/">> \o names[i]])
LocalAsNamed ==
  out[1].ok =>
    LET rules == job.opts.url_rewrites
        n == CHOOSE n \in FirstWhole : TRUE
        root == IF FirstWhole # {} THEN rules[n][2]
                ELSE IF job.req.dav THEN job.opts.dav_document_root ELSE job.opts.document_root
        fit == IF FirstWhole = {} THEN 0 ELSE Fit(rules[n])
        used == SubSeq(job.uri, fit + 1, Len(job.uri) - Len(out[1].rest))
    IN  /\ IsSuffix(out[1].rest, job.uri)
        /\ out[1].path = PathNamed(IF Last(root) = "/" THEN Front(root) ELSE root, used)
        /\ out[1].rest # <<>> => job.stat[out[1].path] = "file"
LocalStaysInside ==
  Done("local") /\ (\A i \in 1..Len(job.opts.url_rewrites) :
                      Fit(job.opts.url_rewrites[i]) > 0 => Whole(job.opts.url_rewrites[i])) => LocalAsNamed

(* The environment of a CGI program holds the first of its variables that  *)
(* fit and ends inside its buffers; the script's name and what follows it  *)
(* make the URI, up to the name of an index file.                          *)
CgiInside ==
  Done("cgi") =>
    LET blk == out[1].blk
        vars_ == Front(blk.vars)
        given(name) == {v[2] : v \in {w \in ToSet(vars_) : w[1] = <<name>>}}
    IN  /\ blk.len <= blk.size /\ Len(blk.vars) <= blk.most
        /\ blk.len = 1 + FoldLeft(LAMBDA n, v : n + Len(v[1]) + Len(v[2]) + 2, 0, vars_)
        /\ \A i \in 1..Len(vars_) : vars_[i] \in ToSet(out[1].wanted)
        /\ \A name \in given("SCRIPT_NAME") :
             IsPrefix(job.uri, name \o out[1].local.rest) /\ Len(name \o out[1].local.rest) <= Len(job.uri) + 1

(* Nothing leads outside: no write of a printf or of a CGI environment its *)
(* buffer, no path its root, no match its text.                            *)
StaysInside == PrintfInside /\ MatchIsPrefix /\ PathStaysInside /\ LocalStaysInside /\ CgiInside
=============================================================================
