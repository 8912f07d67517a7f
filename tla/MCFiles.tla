------------------------------- MODULE MCFiles -------------------------------
(* A small site: a page, a directory with a password, an index and a       *)
(* hidden file, a script, an SSI page that includes itself, a target that  *)
(* another server answers and one with an endpoint.                        *)
EXTENDS Files

MCPaths == {"root", "page", "site", "index", "secret", "script", "ssi", "new", "app", "hello"}
MCInodes == {"i1", "i2", "i3", "i4", "i5", "i6"}

Plain == [over |-> {"root"}, index |-> <<>>, hidden |-> FALSE, cgi |-> FALSE, ssi |-> FALSE,
          parts |-> <<>>, auth |-> "root/.htpasswd"]
InSite == [Plain EXCEPT !.over = {"root", "site"}, !.auth = "site/.htpasswd"]
MCEntry == [p \in MCPaths |->
  CASE p = "root" -> [Plain EXCEPT !.over = {}, !.index = <<"new">>]
    [] p = "site" -> [Plain EXCEPT !.index = <<"new", "index">>, !.auth = "site/.htpasswd"]
    [] p = "index" -> InSite
    [] p = "secret" -> [InSite EXCEPT !.hidden = TRUE]
    [] p = "script" -> [Plain EXCEPT !.cgi = TRUE]
    [] p = "ssi" -> [Plain EXCEPT !.ssi = TRUE, !.parts = <<"text", "ssi", "page", "new">>]
    [] OTHER -> Plain]

MCFs == [names |-> [p \in MCPaths |->
           CASE p \in {"root", "site"} -> Dir
             [] p = "page" -> "i1" [] p = "index" -> "i2" [] p = "secret" -> "i3"
             [] p = "script" -> "i4" [] p = "ssi" -> "i5"
             [] OTHER -> None],
         size |-> [i \in MCInodes |-> IF i = "i1" THEN 3 ELSE IF i = "i2" THEN 1 ELSE 0],
         mtime |-> [i \in MCInodes |-> 1]]

Line(u, d, p) == [user |-> u, domain |-> d, pass |-> p]
MCPasswords == [f \in {"site/.htpasswd", "hello.passwd"} |->
  <<Line("ann", "other", "old"), Line("ann", "here", "right"), Line("ann", "here", "late")>>]
MCOpts == [domain |-> "here", global |-> None, listing |-> TRUE, acl |-> TRUE, dav_root |-> TRUE, dav_auth |-> "-",
           rewrites |-> <<[match |-> {"page", "app"}, http |-> FALSE, port |-> FALSE],
                          [match |-> {"app"}, http |-> TRUE, port |-> FALSE]>>]
MCEndpoints == <<[match |-> {"hello", "hello/more"}, length |-> 1, auth |-> None],
                 [match |-> {"hello/more"}, length |-> 2, auth |-> "hello.passwd"]>>

Ann(pass, age) == [user |-> "ann", pass |-> pass, age |-> age]
Get(n, target) ==
  [name |-> n, method |-> "GET", target |-> target, slash |-> TRUE, info |-> FALSE, range |-> <<>>,
   etag |-> <<>>, since |-> 0 - 1, keep |-> TRUE, cred |-> [user |-> None, pass |-> None, age |-> 0], body |-> 0, dest |-> None, depth |-> 1]

MCRequest == [n \in {"page", "last", "part", "past", "minus", "same", "old", "close", "bare", "site", "wrong",
                     "stale", "future", "second", "ask", "hidden", "info", "run", "app", "ssi", "list",
                     "above", "missing", "options", "put", "putpart", "putsome", "mkcol", "mkagain", "move",
                     "moveto", "delete", "deldir", "prop", "hello", "more", "moreok",
                     "putraw", "raw"} |->
  CASE n = "page" -> Get(n, "page")
    [] n = "last" -> [Get(n, "page") EXCEPT !.range = <<2>>]
    [] n = "part" -> [Get(n, "page") EXCEPT !.range = <<1, 2>>]
    [] n = "past" -> [Get(n, "page") EXCEPT !.range = <<1, 3>>]
    [] n = "minus" -> [Get(n, "page") EXCEPT !.range = <<0 - 1>>]
    [] n = "same" -> [Get(n, "page") EXCEPT !.etag = <<1, 3>>]
    [] n = "old" -> [Get(n, "page") EXCEPT !.since = 1, !.etag = <<0, 3>>]
    [] n = "close" -> [Get(n, "page") EXCEPT !.keep = FALSE]
    [] n = "bare" -> [Get(n, "site") EXCEPT !.slash = FALSE]
    [] n = "site" -> [Get(n, "site") EXCEPT !.cred = Ann("right", 0)]
    [] n = "wrong" -> [Get(n, "site") EXCEPT !.cred = Ann("old", 0)]
    [] n = "second" -> [Get(n, "index") EXCEPT !.cred = Ann("late", 0)]
    [] n = "stale" -> [Get(n, "index") EXCEPT !.cred = Ann("right", 1)]
    [] n = "future" -> [Get(n, "index") EXCEPT !.cred = Ann("right", 0 - 1)]
    [] n = "ask" -> Get(n, "index")
    [] n = "hidden" -> [Get(n, "secret") EXCEPT !.cred = Ann("right", 0)]
    [] n = "info" -> [Get(n, "page") EXCEPT !.info = TRUE]
    [] n = "run" -> [Get(n, "script") EXCEPT !.method = "POST", !.body = 1]
    [] n = "app" -> Get(n, "app")
    [] n = "ssi" -> Get(n, "ssi")
    [] n = "list" -> Get(n, "root")
    [] n = "above" -> Get(n, "above the root")
    [] n = "missing" -> [Get(n, "new") EXCEPT !.since = 0]
    [] n = "options" -> [Get(n, "page") EXCEPT !.method = "OPTIONS"]
    [] n = "put" -> [Get(n, "new") EXCEPT !.method = "PUT", !.body = 2]
    [] n = "putpart" -> [Get(n, "page") EXCEPT !.method = "PUT", !.body = 2, !.range = <<1, 2>>]
    [] n = "putsome" -> [Get(n, "page") EXCEPT !.method = "PUT", !.body = 1]
    [] n = "mkcol" -> [Get(n, "new") EXCEPT !.method = "MKCOL"]
    [] n = "mkagain" -> [Get(n, "page") EXCEPT !.method = "MKCOL"]
    [] n = "move" -> [Get(n, "page") EXCEPT !.method = "MOVE", !.dest = "new"]
    [] n = "moveto" -> [Get(n, "page") EXCEPT !.method = "MOVE"]
    [] n = "delete" -> [Get(n, "page") EXCEPT !.method = "DELETE"]
    [] n = "deldir" -> [Get(n, "site") EXCEPT !.method = "DELETE", !.cred = Ann("right", 0)]
    [] n = "putraw" -> [Get(n, "new") EXCEPT !.method = "PUT", !.body = NoLength]
    [] n = "raw" -> [Get(n, "page") EXCEPT !.body = NoLength]
    [] n = "prop" -> [Get(n, "root") EXCEPT !.method = "PROPFIND"]
    [] n = "hello" -> Get(n, "hello")
    [] n = "more" -> Get(n, "hello/more")
    [] n = "moreok" -> [Get(n, "hello/more") EXCEPT !.cred = Ann("right", 0)]]

(* Every request alone, and what a keep-alive connection may go on with.   *)
MCScripts ==
  {<<n>> : n \in DOMAIN MCRequest}
    \cup {<<"page", n>> : n \in {"part", "site", "run", "app", "put", "putsome", "delete", "hello"}}
    \cup {<<n, "page">> : n \in {"part", "last", "bare", "site", "hello", "more", "ssi", "put"}}
    \cup {<<"run", "run">>, <<"app", "app">>, <<"putsome", "page">>, <<"part", "last", "page">>}

(* What a password protects reaches only who gave the password that the    *)
(* first matching line of the file names, with a nonce of the last hour.   *)
OnlyAuthorized ==
  ~client.eager =>
    \A h \in 1..Len(client.got) :
      client.got[h][1] = "head" /\ client.got[h][5] \in {"i2", "i3"} =>
        Request[client.got[h][4]].cred = Ann("right", 0)
=============================================================================
