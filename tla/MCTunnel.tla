------------------------------ MODULE MCTunnel -------------------------------
(* Own clients, and foreign ones: a method that is not supported, two      *)
(* methods, a command that is not, a request for a domain.                 *)
EXTENDS Tunnel

MCGreetings == {OwnGreeting, <<"v5", "one", "gssapi">>, <<"v5", "two", "gssapi", NoAuth>>, <<"v4", "one", NoAuth>>}
MCRequests ==
  {OwnRequest, [OwnRequest EXCEPT ![2] = "bind"], [OwnRequest EXCEPT ![4] = "odd"],
   <<"v5", "connect", "rsv", "domain", "1", "n", "o", "o">>}
MCBytes ==
  UNION {ToSet(s) : s \in MCGreetings \cup MCRequests}
    \cup {"rsv", "stale", NoAuth, Failure, Success, NotSupported, "a1", "a2", "t1"}
MCAppText == <<"a1", "a2">>
MCTargetText == <<"t1">>
=============================================================================
