-------------------------------- MODULE MCWeb --------------------------------
(* Requests of every kind the server tells apart.  One client may send any *)
(* of the scripts, and another one may ask for a page in between.          *)
EXTENDS Web

Plain == [post |-> FALSE, length |-> NoLength, chunked |-> FALSE, upgrade |-> FALSE, page |-> TRUE]

MCRequest ==
  [r \in {"get", "post", "chunked", "upgrade", "next", "odd"} |->
     CASE r = "post" -> [Plain EXCEPT !.post = TRUE, !.length = 2]
       [] r = "chunked" -> [Plain EXCEPT !.post = TRUE, !.chunked = TRUE]
       [] r = "upgrade" -> [Plain EXCEPT !.upgrade = TRUE]
       [] r = "odd" -> [Plain EXCEPT !.page = FALSE]
       [] OTHER -> Plain]

HeadOf(r) == <<<<"h", r>>, <<"e", r>>>>
Data(x) == <<"b", x>>
Chunk(data) == <<<<"s", Len(data)>>>> \o data \o <<<<"z">>>>
Frame(op, fin, data) == <<<<"f", op, fin>>, <<"l", Len(data)>>>> \o data

Get == HeadOf("get")
Post == HeadOf("post") \o <<Data(1), Data(2)>>
Chunked == HeadOf("chunked") \o Chunk(<<Data(1)>>) \o Chunk(<<Data(2)>>) \o Chunk(<<>>)
Fragments ==
  HeadOf("upgrade") \o Frame("text", FALSE, <<Data(1)>>) \o Frame("ping", TRUE, <<Data(0)>>)
    \o Frame("cont", TRUE, <<Data(2)>>) \o Frame("close", TRUE, <<>>)
Message == HeadOf("upgrade") \o Frame("text", TRUE, <<Data(1)>>) \o Frame("close", TRUE, <<>>)
Pipelined == Get \o HeadOf("next")
Garbled == <<<<"h", "get">>, <<"bad">>>>
Endless == <<<<"h", "get">>, <<"h", "get">>, <<"h", "get">>>>

Alone == {Get, Post, Chunked, Fragments, Message, Pipelined, Garbled, Endless, HeadOf("odd")}
MCScripts ==
  {[k \in Clients |-> IF k = "a" THEN s ELSE <<>>] : s \in Alone}
    \cup {[k \in Clients |-> IF k = "a" THEN s ELSE Get] : s \in {Get, Garbled}}
=============================================================================
