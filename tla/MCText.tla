------------------------------- MODULE MCText --------------------------------
(* Every call with short arguments over small alphabets.                   *)
EXTENDS Text

CONSTANT MaxLen   (* bound: the length of the texts                        *)

Texts(chars, n) == UNION {[1..k -> chars] : k \in 0..n}

(* Messages of every length around one and two blocks, in three pieces.    *)
Cuts(n) == {<<a, b>> \in (0..n) \X (0..n) : a <= b}
Bytes(n) == [i \in 1..n |-> (i * 61) % 256]
Pieces3(n) ==
  {<<SubSeq(Bytes(n), 1, c[1]), SubSeq(Bytes(n), c[1] + 1, c[2]), SubSeq(Bytes(n), c[2] + 1, n)>> :
     c \in Cuts(n)}

Literal(c) == [conv |-> "lit", arg |-> c]
Conversions ==
  {Literal(65)}
    \cup {[conv |-> "s", arg |-> a, zero |-> FALSE, width |-> w, prec |-> p] :
            a \in {<<>>, <<97, 98, 99>>}, w \in {0, 4}, p \in {0, 2}}
    \cup {[conv |-> c, arg |-> n, zero |-> z, width |-> 3, prec |-> 0] :
            c \in {"d", "x"}, n \in {-7, 0, 255}, z \in BOOLEAN}

UriParts ==
  {[scheme |-> s, user |-> u, host |-> h, port |-> n, path |-> p, query |-> q, fragment |-> f, ok |-> TRUE] :
     s \in {<<"a">>}, u \in {<<>>, <<"u">>}, h \in {<<"h">>, <<"[", ":", "]">>}, n \in {0, 8},
     p \in {<<"/">>, <<"/", "p">>}, q \in {<<>>, <<"q", "=", "/">>}, f \in {<<>>, <<"f">>}}
    \cup {[scheme |-> <<>>, user |-> <<>>, host |-> h, port |-> n, path |-> p, query |-> <<>>,
           fragment |-> <<>>, ok |-> TRUE] : h \in {<<"h">>, <<"[", ":", "]">>}, n \in {0, 8}, p \in {<<>>, <<"/">>}}

FormNames == {<<97>>, <<97, 98>>, <<98, 97>>}
FormValues == {<<>>, <<97>>, <<43, 32>>, <<38, 61, 255>>}

HeaderNames == {<<"x">>, <<"x", "y">>, <<"y", "x">>}
Attrs == {<<>>, <<<<"k", "v">>>>}
Elements ==
  {[tag |-> t, attrs |-> a, texts |-> x] :
     t \in {"t", "u"}, a \in Attrs, x \in {<<>>, <<<<<<"text", 1>>>>>>, <<<<<<"text", 1>>>>, <<<<"text", 2>>>>>>}}

Answers == {[rtype |-> ARecord, rdata |-> <<10, 0, 0, 1>>], [rtype |-> ARecord, rdata |-> <<10, 0, 0, 2>>],
            [rtype |-> CNameRecord, rdata |-> <<<<99, 100>>, <<101>>>>]}
Messages ==
  {<<CONNECT, <<<<97>>>> \o will \o <<u, p>>>> :
       will \in {<<<<>>, <<>>>>, <<<<97>>, <<98, 98>>>>}, u \in {<<>>, <<98>>}, p \in {<<>>, <<99, 100>>}}
    \cup {<<PUBLISH, <<<<97>>, id, d>>>> : id \in {0, 258}, d \in {<<>>, <<1, 2, 3, 4, 5>>}}
    \cup {<<SUBSCRIBE, <<7, t>>>> : t \in {<<<<97>>>>, <<<<97>>, <<98, 99>>>>}}
    \cup {<<CONNACK, <<5>>>>, <<PUBACK, <<258>>>>, <<PUBREC, <<9>>>>, <<PUBREL, <<7>>>>, <<PUBCOMP, <<8>>>>,
          <<SUBACK, <<7>>>>, <<PINGREQ, <<>>>>}

(* The boundary starts with a dash, and the contents hold parts of it.     *)
MCBoundary == <<"-", "b">>
Contents == Texts({"x", "-", CR, LF, "b"}, 2) \cup {<<CR, LF, "-", "-">>, <<"x", CR, LF, "-", "-", "-">>}
UploadParts(names) ==
  {[name |-> n, other |-> o, data |-> d] : n \in names, o \in BOOLEAN, d \in
     {c \in Contents : c_strnstr(c \o <<CR, LF, "-", "-">>, Boundary) = 0}}
(* Parts long enough to be handed over in several pieces.                  *)
LongUploads ==
  {<<[name |-> "f", other |-> o, data |-> d], [name |-> "g", other |-> FALSE, data |-> <<"x">>]>> :
     o \in BOOLEAN, d \in {[i \in 1..15 |-> "x"], [i \in 1..8 |-> IF i = 8 THEN CR ELSE "x"]}}
LongCuts == {c \in (14..34) \X (14..34) : c[1] <= c[2]}
Roomy == [refused |-> {}, broken |-> {}, space |-> 99]

(* Requests to a site with a directory d, a file f in it and a file g.     *)
DirRoot == <<"r">>
OtherRoot == <<"s">>
Tree == <<"r">> :> "dir" @@ <<"r", "/", "d">> :> "dir" @@ <<"r", "/", "g">> :> "file"
          @@ <<"r", "/", "d", "/", "f">> :> "file" @@ <<"s">> :> "dir" @@ <<"s", "/", "f">> :> "file"
PathParts == {<<"/", "d">>, <<"/", "g">>, <<"/", "f">>, <<"/">>, <<"/", ".">>, <<"/", ".", ".">>, <<"/", "%2e", ".">>,
              <<"/", "%2f", "d">>, <<"/", "%">>, <<"/", "d", "x", "g">>}
Rules == {<<>>, <<<<<<"/", "d">>, OtherRoot>>>>, <<<<<<"@", "h">>, OtherRoot>>>>,
          <<<<<<"/", "g", "/">>, <<"s", "/">>>>, <<<<"/", "d", "/", "*">>, OtherRoot>>>>}
SiteOpts(rules) == [document_root |-> DirRoot, dav_document_root |-> <<"r", "/", "d", "/">>, url_rewrites |-> rules]
Plain == [host |-> <<>>, dav |-> FALSE]
Reqs == {Plain, [Plain EXCEPT !.host = <<"h">>], [Plain EXCEPT !.dav = TRUE]}

MCCoapNumbers == <<0, 1, 12, 13, 268, 269, 65535>>
CoapOptions == {<<n, <<255>>>> : n \in ToSet(MCCoapNumbers)} \cup {<<1, <<>>>>, <<13, [i \in 1..13 |-> i]>>}

(* Tokens for the reader, programs for the compiler, values to print.      *)
Name(x) == <<"sym", x>>
One == <<"int", 1>>
Doc == <<"doc", "d">>
Fun(name, body) == List(<<Name("fun"), Name(name), List(<<Name("a")>>)>> \o body)
Call == List(<<Name("+"), List(<<Name("f"), One>>), <<"str", "s">>, <<"if">>>>)
Programs ==
  {<<Fun("f", <<Doc, Call, Call>>), List(<<Name("="), Name("x"), One>>), Fun("g", <<Call>>)>>,
   <<Fun("f", <<List(<<Name("f"), Doc, <<"do">>>>)>>), Call, Fun("g", <<Call>>)>>}
ValueAtoms == {Name("x"), One, <<"str", "s">>, <<"if">>, <<"do">>, <<"while">>, Doc, None}
Flat == {List(<<>>)} \cup {List(<<a>>) : a \in ValueAtoms} \cup {List(<<a, b>>) : a \in ValueAtoms, b \in ValueAtoms}

(* Calls of stdio: every script of four, each handle that of an earlier.   *)
Opening_ == {[op |-> "fopen", name |-> n, mode |-> m] : n \in {"f", "g"}, m \in {"r", "w", "a"}}
              \cup {[op |-> "fopen", name |-> "denied", mode |-> "w"], [op |-> "fopen", name |-> "f", mode |-> "z"],
                    [op |-> "popen", mode |-> "r"], [op |-> "popen", mode |-> "z"]}
Using(i) ==
  {[op |-> o, of |-> j] : o \in {"fclose", "fgets", "pclose"}, j \in 1..i}
    \cup {[op |-> "fprintf", of |-> j, text |-> i] : j \in 1..i}
Scripts ==
  {<<a, b, c, d>> : a \in Opening_, b \in Opening_ \cup Using(1), c \in Opening_ \cup Using(2), d \in Using(3)}
Slot(n, d) == [name |-> n, doc |-> d]
OwnSlots == {<<Slot(<<"a", "b">>, <<>>), Unbound>>, <<Unbound, Slot(<<"b">>, <<>>), Slot(<<"a">>, <<>>)>>}
OuterSlots == {<<Slot(<<"a", "c">>, <<"(", "a", "c", ")">>)>>, <<Slot(<<"b">>, <<>>), Slot(<<"b", "a">>, <<"(", "b", "a">>)>>}

MCJobs ==
  <<{[op |-> "parse", toks |-> t] :
          t \in Texts({Left, Right, Name("x")}, 7)
            \cup {FlattenSeq([i \in 1..Len(p) |-> Tokens(p[i])]) : p \in Programs}},
    {[op |-> "print", value |-> v] :
          v \in ValueAtoms \cup Flat \cup {List(<<a, f>>) : a \in {Name("x"), <<"if">>}, f \in Flat}
            \cup {List(<<f, List(<<>>), a>>) : a \in {One, Name("x")}, f \in Flat}},
    {[op |-> "split", s |-> s, sep |-> sep] :
          s \in Texts({"a", "b", "-"}, MaxLen), sep \in {<<"-">>, <<"a", "-">>, <<"a", "a">>}},
    {[op |-> "replace", s |-> s, sep |-> sep, new |-> new] :
          s \in Texts({"a", "b"}, MaxLen), sep \in {<<"a">>, <<"a", "b">>}, new \in {<<>>, <<"a", "a">>}},
    {[op |-> "escape", s |-> s] : s \in Texts({"a", "<", ">"}, 4)},
    {[op |-> "pmatch", s |-> s, pairs |-> <<<<p, "v">>, <<q, "w">>>>] :
          s \in Texts({"a", "b"}, 3), p \in Texts({"a", "b"}, 2), q \in Texts({"a", "b"}, 2)},
    {[op |-> "unescape", s |-> FlattenSeq(g)] :
          g \in Texts({<<"\\", "n">>, <<"\\", "t">>, <<"n">>, <<"t">>, <<"a">>}, 4)},
    {[op |-> "xml", tag |-> "t", attrs |-> a, inner |-> i] : a \in Attrs, i \in Texts(Elements, 2)},
    {[op |-> "stdio", disk |-> "g" :> <<0>>, script |-> s] : s \in Scripts},
    {[op |-> "hints", own |-> o, outer |-> p, word |-> w, bp |-> b] :
          o \in OwnSlots, p \in OuterSlots, w \in Texts({"a", "b", "c"}, 2), b \in 0..3},
    {[op |-> "hmac", key |-> Bytes(k), text |-> Bytes(n)] : k \in 0..(2 * Block), n \in 0..Block},
    {[op |-> "hex", text |-> t] : t \in Texts({0, 9, 10, 175, 255}, 3)},
    {[op |-> "commas", list |-> l] : l \in Texts({<<n, v>> : n \in {<<"x">>, <<"y", "x">>},
                                                         v \in {<<>>, <<"=">>, <<"x">>}}, 3)},
    {[op |-> "header", list |-> <<<<a, v>>, <<b, w>>>>, name |-> n, size |-> z] :
          a \in HeaderNames, b \in HeaderNames, n \in HeaderNames, z \in {1, 3},
          v \in Texts({"x", "\"", ","}, 2), w \in Texts({"x", "\""}, 2)},
    {[op |-> "fprintf", format |-> f, args |-> a] :
          f \in {FlattenSeq(g) : g \in Texts({<<"%", "%">>, <<"%", "s">>, <<"s">>, <<"y">>}, 4)},
          a \in {<<>>, <<<<"p">>>>, <<<<"p">>, <<"q">>>>, <<<<>>, <<"q">>>>}},
    {[op |-> "hash", pieces |-> p] : p \in UNION {Pieces3(n) : n \in 0..(3 * Block + 1)}},
    {[op |-> "base64", pieces |-> p] : p \in UNION {Pieces3(n) : n \in 0..7}},
    {[op |-> "base64", pieces |-> <<b>>] : b \in Texts({0, 62, 127, 255}, 3)},
    {[op |-> "auth", user |-> u, pass |-> p, rest |-> r] :
          u \in Texts({97, 200}, 3) \ {<<>>}, p \in Texts({97, Colon}, 2),
          r \in {<<13, 10, 97, 97, 97, 97>>}},
    {[op |-> "form", vars |-> <<<<a, v>>, <<b, w>>>>, name |-> n, size |-> z] :
          a \in FormNames, b \in FormNames, v \in FormValues, w \in FormValues, n \in FormNames,
          z \in {1, 3, 9}},
    {[op |-> "printf", size |-> z, format |-> <<a, b>>] :
          a \in Conversions, b \in Conversions, z \in 0..5},
    {[op |-> "match", p |-> p, s |-> s] :
          p \in {q \in Texts({"a", "/", "*", "?", "$"}, 4) :
                   \A i \in 1..(Len(q) - 1) : q[i] # "$"},
          s \in Texts({"a", "b", "/"}, 3)},
    {[op |-> "match", p |-> p, s |-> s] :
          p \in {q \in Texts({"a", "b", "*", "|", ","}, 4) : q # <<>> /\ q[1] \notin {"|", ","}},
          s \in Texts({"a", "b"}, 3)},
    {[op |-> "path", s |-> <<"/">> \o s] : s \in Texts({"a", "/", "."}, MaxLen)},
    {[op |-> "uri", parts |-> p] : p \in UriParts},
    {[op |-> "dns", name |-> n, answers |-> a, cut |-> c] :
          n \in {<<<<97>>>>, <<<<97, 98>>, <<99>>>>}, a \in Texts(Answers, 2), c \in 0..16},
    {[op |-> "name", packet |-> p, at |-> i] : p \in Texts({0, 1, 2, 192}, 4), i \in 1..2},
    {[op |-> "dns", name |-> <<<<97>>>>, answers |-> [i \in 1..n |-> [rtype |-> ARecord, rdata |-> <<10, 0, 0, i>>]],
      cut |-> 0] : n \in {32, 33}},
    {[op |-> "dns", name |-> <<<<97>>, [i \in 1..128 |-> 98]>>, answers |-> <<>>, cut |-> 0]},
    {[op |-> "mqtt", messages |-> m, at |-> i, limit |-> 0] : m \in Texts(Messages, 2), i \in 0..20},
    {[op |-> "mqtt", messages |-> m, at |-> i, limit |-> l] : m \in Texts(Messages, 2), i \in {0, 3, 7, 14}, l \in {4, 9}},
    {[op |-> "topic", exp |-> e, topic |-> t] :
          e \in Texts({97, 47, HashSign}, 3), t \in Texts({97, 47}, 3)},
    {[op |-> "coap", cut |-> c,
      message |-> [mtype |-> 1, class |-> 2, detail |-> 31, id |-> 258, token |-> t, options |-> o, payload |-> p]] :
          c \in 0..6, t \in {<<>>, <<7>>, [i \in 1..8 |-> i]}, o \in Texts(CoapOptions, 2), p \in {<<>>, <<9, 255>>}},
    {[op |-> "coap", cut |-> c,
      message |-> [mtype |-> 3, class |-> 0, detail |-> 1, id |-> 65535, token |-> [i \in 1..n |-> i],
                   options |-> o, payload |-> <<>>]] :
          c \in 0..1, n \in {0, 9}, o \in Texts({<<1, <<5>>>>, <<1, <<6>>>>, <<12, <<>>>>, <<269, <<7>>>>}, 4)},
    {[op |-> "connect", parts |-> p] : p \in UriParts},
    {[op |-> "local", uri |-> FlattenSeq(u), req |-> Plain, opts |-> SiteOpts(r), stat |-> Tree] :
          u \in Texts(PathParts, 4) \ {<<>>}, r \in {<<>>}},
    {[op |-> "local", uri |-> FlattenSeq(u), req |-> q, opts |-> SiteOpts(r), stat |-> Tree] :
          u \in Texts(PathParts, 3) \ {<<>>}, r \in Rules \ {<<>>}, q \in Reqs},
    {[op |-> "cgi", uri |-> FlattenSeq(u), req |-> Plain, opts |-> SiteOpts(<<>>), stat |-> Tree,
      query |-> q, headers |-> h, size |-> z, most |-> m] :
          u \in Texts({<<"/", "d">>, <<"/", "f">>, <<"/">>, <<"/", "g">>}, 3) \ {<<>>}, q \in {<<>>, <<"q">>},
          h \in {<<>>, <<<<<<"Content-Length">>, <<"9">>>>>>, <<<<<<"x">>, <<"y", "y">>>>, <<<<"z">>, <<"y">>>>>>},
          z \in {20, 60, 65, 70, 75, 80, 99}, m \in {10, 17, 99}},
    {[op |-> "upload", parts |-> p, at1 |-> c[1], at2 |-> c[2], closed |-> x, disk |-> Roomy] :
          p \in {<<q>> : q \in UploadParts({"f"})}, c \in Cuts(16), x \in BOOLEAN},
    {[op |-> "upload", parts |-> p, at1 |-> c[1], at2 |-> c[2], closed |-> FALSE, disk |-> d] :
          p \in LongUploads, c \in LongCuts,
          d \in {Roomy, [Roomy EXCEPT !.space = 12], [Roomy EXCEPT !.refused = {"f"}],
                 [Roomy EXCEPT !.broken = {"f"}]}}>>
=============================================================================
