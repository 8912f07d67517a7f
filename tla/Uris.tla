-------------------------------- MODULE Uris ---------------------------------
(***************************************************************************)
(* What the web server's library makes of names (mongoose.c): patterns,    *)
(* lists with commas, the variables of a header, and URIs.  A text is a    *)
(* sequence of characters, each a one-character string.                    *)
(***************************************************************************)
EXTENDS Integers, Sequences, SequencesExt

(* The first place from i on where s has a character of set, Len(s) + 1 if *)
(* there is none.                                                          *)
FirstOf(s, i, set) ==
  LET at == {j \in i..Len(s) : s[j] \in set}
  IN  IF at = {} THEN Len(s) + 1 ELSE CHOOSE j \in at : \A k \in at : j <= k

From(s, i) == SubSeq(s, i, Len(s))
Between(s, i, j) == SubSeq(s, i, j - 1)

-----------------------------------------------------------------------------
(* mg_next_comma_list_entry_n, called until the list is at its end.  An    *)
(* entry x=y has the value y, any other none, here the empty text.         *)
RECURSIVE mg_next_comma_list_entry_n(_)
mg_next_comma_list_entry_n(list) ==
  LET comma == FirstOf(list, 1, {","})
      entry == Between(list, 1, comma)
      eq == FirstOf(entry, 1, {"="})
  IN  IF list = <<>> THEN <<>>
      ELSE <<<<Between(entry, 1, eq), From(entry, eq + 1)>>>>
             \o mg_next_comma_list_entry_n(From(list, comma + 1))

(* mg_match_prefix_n of a pattern without alternatives, from places i and  *)
(* j on: the length of the prefix of s it fits.  0 is also the answer for  *)
(* no fit.  Letters are taken to be in lower case.                         *)
StarEnd(p, i) == i > Len(p) \/ (p[i] = "$" /\ i = Len(p))

(* What a single star may take of s from j on.                             *)
Segment(s, j) == FirstOf(s, j, {"/"}) - j

RECURSIVE MatchFrom(_, _, _, _)
MatchFrom(p, i, s, j) ==
  IF i > Len(p) \/ j > Len(s)
  THEN IF i <= Len(p) /\ p[i] = "$" THEN j - 1
       ELSE IF i > Len(p) THEN j - 1 ELSE 0
  ELSE IF p[i] = "*"
  THEN LET double == i < Len(p) /\ p[i + 1] = "*"
           next == IF double THEN i + 2 ELSE i + 1
           most == IF double THEN Len(s) - j + 1 ELSE Segment(s, j)
           rest(len) == MatchFrom(From(p, next), 1, From(s, j + len), 1)
           fits == {len \in 0..most : rest(len) > 0}
           longest == CHOOSE len \in fits : \A l \in fits : l <= len
       IN  IF StarEnd(p, next) THEN j - 1 + most
           ELSE IF fits = {} THEN 0
           ELSE j - 1 + longest + rest(longest)
  ELSE IF p[i] = "?" \/ p[i] = s[j] THEN MatchFrom(p, i + 1, s, j + 1)
  ELSE 0

RECURSIVE mg_match_prefix_n(_, _)
mg_match_prefix_n(p, s) ==
  LET bar == FirstOf(p, 1, {"|"})
      or == IF bar <= Len(p) THEN bar ELSE FirstOf(p, 1, {","})
  IN  IF or > Len(p) THEN MatchFrom(p, 1, s, 1)
      ELSE LET left == mg_match_prefix_n(Between(p, 1, or), s)
           IN  IF left > 0 THEN left ELSE mg_match_prefix_n(From(p, or + 1), s)

-----------------------------------------------------------------------------
(* mg_http_parse_header: the value of the variable name in a header, the   *)
(* empty text if it is not there, its quotes are not closed, or the buffer *)
(* is too small for it.                                                    *)
RECURSIVE Quoted(_, _, _)
Quoted(s, i, ends) ==
  IF i > Len(s) \/ s[i] \in ends THEN [text |-> <<>>, end |-> i]
  ELSE LET skip == ends # {" ", ","} /\ s[i] = "\\" /\ i < Len(s) /\ s[i + 1] \in ends
           at == IF skip THEN i + 1 ELSE i
           more == Quoted(s, at + 1, ends)
       IN  [text |-> <<s[at]>> \o more.text, end |-> more.end]

mg_http_parse_header(hdr, name, size) ==
  LET n == Len(name)
      at == {i \in 1..(Len(hdr) - n) :
               /\ i = 1 \/ hdr[i - 1] \in {" ", ",", ";"}
               /\ hdr[i + n] = "=" /\ SubSeq(hdr, i, i + n - 1) = name}
      v == (CHOOSE i \in at : \A j \in at : i <= j) + n + 1
      quote == hdr[v] \in {"\"", "'"}
      ends == IF quote THEN {hdr[v]} ELSE {" ", ","}
      found == Quoted(hdr, IF quote THEN v + 1 ELSE v, ends)
  IN  IF at = {} \/ v > Len(hdr) THEN <<>>
      ELSE IF quote /\ found.end > Len(hdr) THEN <<>>
      ELSE IF Len(found.text) + 1 > size THEN <<>> ELSE found.text

-----------------------------------------------------------------------------
(* mg_parse_uri.                                                           *)
Parts ==
  [scheme |-> <<>>, user |-> <<>>, host |-> <<>>, port |-> 0,
   path |-> <<>>, query |-> <<>>, fragment |-> <<>>, ok |-> TRUE]

Digit(c) ==
  CHOOSE n \in 0..9 : <<"0", "1", "2", "3", "4", "5", "6", "7", "8", "9">>[n + 1] = c

(* P_REST: p is at the separator, which belongs to the path.               *)
ParseRest(uri, p, parts) ==
  LET mark == FirstOf(uri, p, {"?", "#"})
      asks == mark < Len(uri) /\ uri[mark] = "?"
      hash == IF asks THEN FirstOf(uri, mark + 1, {"#"}) ELSE mark
  IN  [parts EXCEPT !.path = Between(uri, p, mark),
                    !.query = IF asks THEN Between(uri, mark + 1, hash) ELSE <<>>,
                    !.fragment = From(uri, hash + 1)]

(* P_PORT: p is at the colon.                                              *)
ParsePort(uri, p, parts) ==
  LET end == FirstOf(uri, p + 1, {"/"})
      port == FoldLeft(LAMBDA n, c : 10 * n + Digit(c), parts.port, Between(uri, p + 1, end))
  IN  ParseRest(uri, end, [parts EXCEPT !.port = port])

(* P_HOST.                                                                 *)
RECURSIVE ParseHost(_, _, _)
ParseHost(uri, p, parts) ==
  LET from == IF p <= Len(uri) /\ uri[p] = "@" THEN p + 1 ELSE p
      bracket == from <= Len(uri) /\ uri[from] = "["
      end == IF bracket THEN FirstOf(uri, from, {"]"}) + 1 ELSE FirstOf(uri, from, {":", "/"})
      hosted == [parts EXCEPT !.host = Between(uri, from, end)]
  IN  IF bracket /\ end > Len(uri) + 1 THEN [parts EXCEPT !.ok = FALSE]
      ELSE IF end > Len(uri) THEN hosted
      ELSE IF uri[end] = ":" THEN ParsePort(uri, end, hosted)
      ELSE IF uri[end] = "/" THEN ParseRest(uri, end, hosted)
      ELSE ParseHost(uri, end, parts)   (* text behind the bracket         *)

(* P_USER_INFO: what looks like a user's name is a host when no @ ends it. *)
ParseUser(uri, p, parts) ==
  LET end == FirstOf(uri, p, {"@", "[", "/"})
      user == end <= Len(uri) /\ uri[end] = "@"
  IN  IF p > Len(uri) THEN parts
      ELSE IF user THEN ParseHost(uri, end, [parts EXCEPT !.user = Between(uri, p, end)])
      ELSE ParseHost(uri, p, parts)

mg_parse_uri(uri) ==
  LET end == FirstOf(uri, 1, {":", "/"})
      colon == end <= Len(uri) /\ uri[end] = ":"
      scheme == colon /\ end + 2 <= Len(uri) /\ SubSeq(uri, end, end + 2) = <<":", "/", "/">>
      before == Between(uri, 1, end)
  IN  IF uri # <<>> /\ uri[1] = "[" THEN ParseHost(uri, 1, Parts)
      ELSE IF scheme THEN ParseUser(uri, end + 3, [Parts EXCEPT !.scheme = before])
      ELSE IF colon THEN ParsePort(uri, end, [Parts EXCEPT !.host = before])
      ELSE ParseRest(uri, end, [Parts EXCEPT !.host = before])

(* out up to its last slash.                                               *)
UpToSlash(out) ==
  LET slashes == {i \in 1..Len(out) : out[i] = "/"}
  IN  IF slashes = {} THEN <<>> ELSE SubSeq(out, 1, CHOOSE i \in slashes : \A j \in slashes : j <= i)

(* What two dots leave: out without its last component.                    *)
Back(out) == UpToSlash(IF Len(out) > 1 /\ Last(out) = "/" THEN Front(out) ELSE out)

(* One component of mg_normalize_uri_path.                                 *)
NormalizeStep(out, component, slash) ==
  CASE component = <<".">> -> out
    [] component = <<".", ".">> -> Back(out)
    [] OTHER -> out \o component \o (IF slash THEN <<"/">> ELSE <<>>)

RECURSIVE NormalizeFrom(_, _, _)
NormalizeFrom(in, i, out) ==
  LET end == FirstOf(in, i, {"/"})
  IN  IF i > Len(in) THEN IF out = <<>> THEN <<"/">> ELSE out
      ELSE NormalizeFrom(in, end + 1, NormalizeStep(out, Between(in, i, end), end <= Len(in)))

(* mg_normalize_uri_path; a path that does not begin with a slash is       *)
(* refused, here with the empty text.                                      *)
mg_normalize_uri_path(in) ==
  IF in = <<>> \/ in[1] # "/" THEN <<>> ELSE NormalizeFrom(in, 1, <<>>)

(* mg_assemble_uri.  A port is a number of one digit here.                 *)
mg_assemble_uri(parts, normalize) ==
  LET opt(before, s, after) == IF s = <<>> THEN <<>> ELSE before \o s \o after
      path == IF parts.path = <<>> THEN IF normalize THEN <<"/">> ELSE <<>>
              ELSE IF normalize THEN mg_normalize_uri_path(parts.path) ELSE parts.path
      port == IF parts.port = 0 THEN <<>>
              ELSE <<":", <<"0", "1", "2", "3", "4", "5", "6", "7", "8", "9">>[parts.port + 1]>>
  IN  opt(<<>>, parts.scheme, <<":", "/", "/">>) \o opt(<<>>, parts.user, <<"@">>)
        \o parts.host \o port \o path
        \o opt(<<"?">>, parts.query, <<>>) \o opt(<<"#">>, parts.fragment, <<>>)

-----------------------------------------------------------------------------
(* mg_uri_to_local_path: the file that a URI stands for.  A code such as   *)
(* %2e is one character here; mg_url_decode itself is in Codecs.  A root   *)
(* is the empty text while none is found.                                  *)
Codes == [c \in {"%2e", "%2f", "%00"} |-> CASE c = "%2e" -> "." [] c = "%2f" -> "/" [] OTHER -> "NUL"]
UrlDecoded(s) == [i \in 1..Len(s) |-> IF s[i] \in DOMAIN Codes THEN Codes[s[i]] ELSE s[i]]

(* One rewrite rule.  start is file_uri_start, which a rule that fits up   *)
(* to the middle of a component leaves behind.                             *)
Rewrite(uri, host, found, rule) ==
  LET fit == mg_match_prefix_n(rule[1], uri)
      cut == fit = Len(uri) \/ uri[fit + 1] = "/"
  IN  IF found.root # <<>> THEN found
      ELSE IF Len(rule[1]) > 1 /\ rule[1][1] = "@"
      THEN IF Tail(rule[1]) = host THEN [found EXCEPT !.root = rule[2]] ELSE found
      ELSE IF fit = 0 THEN found
      ELSE IF cut THEN [start |-> fit + 1, root |-> rule[2]]
      ELSE IF uri[fit] = "/" THEN [start |-> fit, root |-> rule[2]]
      ELSE [found EXCEPT !.start = fit + 1]

(* The root and where in the URI the path in it starts.                    *)
FindRoot(uri, req, opts) ==
  LET found == FoldLeft(LAMBDA f, r : Rewrite(uri, req.host, f, r), [start |-> 1, root |-> <<>>], opts.url_rewrites)
      root == IF found.root # <<>> THEN found.root
              ELSE IF req.dav /\ opts.dav_document_root # <<>> THEN opts.dav_document_root
              ELSE opts.document_root
  IN  [start |-> found.start, root |-> IF Last(root) = "/" THEN Front(root) ELSE root]

(* Mutant: two dots go back to a slash wherever it is.                     *)
UpAnywhere(lp, root) ==
  LET slashes == {i \in 1..Len(lp) : lp[i] = "/"}
  IN  IF slashes = {} THEN lp ELSE SubSeq(lp, 1, (CHOOSE i \in slashes : \A j \in slashes : j <= i) - 1)

(* Two dots go back to the last slash behind the root, or to its end.      *)
Up(lp, root) ==
  LET slashes == {i \in Len(root) + 1..Len(lp) : lp[i] = "/"}
  IN  IF slashes = {} THEN root ELSE SubSeq(lp, 1, (CHOOSE i \in slashes : \A j \in slashes : j <= i) - 1)

NoPath == [ok |-> FALSE, path |-> <<>>, rest |-> <<>>]

(* The components from u on, until the path is that of a regular file.     *)
RECURSIVE LocalFrom(_, _, _, _, _, _)
LocalFrom(uri, u, lp, root, exists, stat) ==
  LET now == exists /\ lp \in DOMAIN stat
      end == FirstOf(uri, u, {"/"})
      next == IF end <= Len(uri) THEN end + 1 ELSE end
      raw == Between(uri, u, end)
      part == UrlDecoded(raw)
      on(path) == LocalFrom(uri, next, path, root, now, stat)
      done(at) == [ok |-> TRUE, path |-> lp, rest |-> From(uri, at)]
  IN  IF u > Len(uri) + 1 THEN done(Len(uri) + 1)
      ELSE IF now /\ stat[lp] = "file" THEN done(IF uri[u - 1] = "/" THEN u - 1 ELSE u)
      ELSE IF u > Len(uri) THEN done(u)
      ELSE IF "%" \in ToSet(raw) THEN NoPath
      ELSE IF part \in {<<>>, <<".">>} THEN on(lp)
      ELSE IF part = <<".", ".">> THEN on(Up(lp, root))
      ELSE IF ToSet(part) \cap {"/", "NUL"} # {} THEN NoPath
      ELSE on(lp \o <<"/">> \o part)

mg_uri_to_local_path(uri, req, opts, stat) ==
  LET found == FindRoot(uri, req, opts)
  IN  LocalFrom(uri, found.start + 1, found.root, found.root, TRUE, stat)

-----------------------------------------------------------------------------
(* mg_addenv: a variable is added if the buffer and the array, of sizes    *)
(* size and most, have room for it; otherwise it only overwrites what is   *)
(* free.  A variable is a name and a value.                                *)
RoomForVar(blk, n) ==
  LET space == blk.size - (blk.len + 2)
  IN  space > 0 /\ n > 0 /\ n + 1 < space /\ Len(blk.vars) < blk.most - 2

mg_addenv(blk, v) ==
  LET n == Len(v[1]) + 1 + Len(v[2])
  IN  IF RoomForVar(blk, n) THEN [blk EXCEPT !.vars = Append(@, v), !.len = @ + n + 1] ELSE blk

(* The end of the name of the script in the URI: behind it is path_info.   *)
ScriptName(uri, prog, rest) ==
  LET s == Len(uri) - Len(rest)
      slashes == {i \in 1..Len(prog) : prog[i] = "/"}
      base == IF slashes = {} THEN prog ELSE From(prog, (CHOOSE i \in slashes : \A j \in slashes : j <= i) + 1)
  IN  IF uri[s] = "/" THEN SubSeq(uri, 1, s) \o base ELSE SubSeq(uri, 1, s)

(* mg_prepare_cgi_environment.  The constant variables come first; env are *)
(* those of the server's own environment that are handed on.               *)
CgiVars(hm, local, env) ==
  LET one(c, name, value) == IF c THEN <<<<<<name>>, value>>>> ELSE <<>>
      header(name) == LET at == {i \in 1..Len(hm.headers) : hm.headers[i][1] = <<name>>}
                      IN  IF at = {} THEN <<>> ELSE hm.headers[CHOOSE i \in at : \A j \in at : i <= j][2]
      has(name) == \E i \in 1..Len(hm.headers) : hm.headers[i][1] = <<name>>
      query == IF hm.query = <<>> THEN <<>> ELSE <<"?">> \o hm.query
  IN  [i \in 1..7 |-> <<<<"SERVER">>, <<i>>>>]
        \o one(TRUE, "REQUEST_METHOD", <<hm.method>>) \o one(TRUE, "REQUEST_URI", hm.uri \o query)
        \o one(TRUE, "REMOTE_ADDR", <<"addr">>) \o one(TRUE, "SERVER_PORT", <<"port">>)
        \o one(TRUE, "SCRIPT_NAME", ScriptName(hm.uri, local.path, local.rest))
        \o one(TRUE, "SCRIPT_FILENAME", local.path)
        \o one(local.rest # <<>>, "PATH_INFO", local.rest)
        \o one(local.rest # <<>>, "PATH_TRANSLATED", local.rest)
        \o one(TRUE, "HTTPS", <<"off">>)
        \o one(has("Content-Type"), "CONTENT_TYPE", header("Content-Type"))
        \o one(hm.query # <<>>, "QUERY_STRING", hm.query)
        \o one(has("Content-Length"), "CONTENT_LENGTH", header("Content-Length"))
        \o env
        \o [i \in 1..Len(hm.headers) |-> <<<<"HTTP_">> \o hm.headers[i][1], hm.headers[i][2]>>]
mg_prepare_cgi_environment(hm, local, env, size, most) ==
  LET blk == FoldLeft(mg_addenv, [vars |-> <<>>, len |-> 0, size |-> size, most |-> most], CgiVars(hm, local, env))
  IN  [blk EXCEPT !.vars = Append(@, <<<<"NULL">>, <<>>>>), !.len = @ + 1]

-----------------------------------------------------------------------------
(* mg_connect_http_base, in a build without SSL: where a URL leads to, the *)
(* path with the query.  mg_connect_http_opt adds the request; the header  *)
(* Host is the text from the host to the path, of no certain length when   *)
(* the URL has no path.                                                    *)
mg_connect_http_base(parts, plain) ==
  [ok |-> parts.ok /\ (parts.scheme = <<>> \/ parts.scheme \in plain),
   host |-> parts.host, port |-> IF parts.port = 0 THEN 80 ELSE parts.port, user |-> parts.user,
   path |-> IF parts.query = <<>> THEN parts.path ELSE parts.path \o <<"?">> \o parts.query]

(* parts is mg_parse_uri(url).                                             *)
mg_connect_http_opt(url, parts, post) ==
  LET to == mg_connect_http_base(parts, {<<"a">>})
      opt(t, n) == IF t = <<>> THEN 0 ELSE Len(t) + n
      from == opt(parts.scheme, 3) + opt(to.user, 1) + 1
  IN  [ok |-> to.ok, method |-> IF post = <<>> THEN "GET" ELSE "POST", length |-> Len(post), user |-> to.user,
       path |-> IF to.path = <<>> THEN <<"/">> ELSE to.path,
       host |-> IF to.path = <<>> THEN <<"unknown">> ELSE Between(url, from, FirstOf(url, from, {"/"}))]
=============================================================================
