---------------------------- MODULE ClientProofs -----------------------------
(***************************************************************************)
(* For any number of connections, with and without names to resolve, any   *)
(* limits of retries and times, and whatever the name server does: the     *)
(* pointers between a connection and its resolver never dangle, and the    *)
(* handler of a connection hears of its fate once and in order.            *)
(*                                                                         *)
(* The steps of the loop touch one connection and its resolver at a time.  *)
(* So the invariant is a statement about each pair (Good), in which the    *)
(* list occurs only as whether either of the two is in it, and about the   *)
(* list: no connection twice, the cursor in it, and nothing before the     *)
(* cursor when everything is freed.                                        *)
(***************************************************************************)
EXTENDS Client, SequenceTheorems, TLAPS

Alike(c) == c.st \in {"connecting", "up"}

(* ClientInv for one connection c and its resolver d; cIn and dIn say      *)
(* which of them is in the list, m is mgr.                                 *)
GoodLinks(c, d, cIn, dIn) ==
  /\ Alike(d) <=> dIn
  /\ d.req => Alike(d)
  /\ c.st = "new" => d.st = "none"
  /\ c.st = "resolving" <=> d.req
  /\ c.st = "resolving" => dIn /\ ~cIn
  /\ Alike(c) <=> cIn

GoodLog(c, m) ==
  /\ c.st # "gone" => \A i \in 1..Len(c.log) : c.log[i] # "CLOSE"
  /\ c.st \in {"new", "resolving", "connecting"} => Outcomes(c.log) = {}
  /\ c.st \in {"new", "resolving", "connecting"} /\ c.close => c.asked
  /\ c.st = "up" => Outcomes(c.log) # {}
  /\ \A i, j \in Outcomes(c.log) : i = j
  /\ c.st = "gone" => Len(c.log) > 0 /\ \A i \in 1..Len(c.log) : c.log[i] = "CLOSE" <=> i = Len(c.log)
  /\ c.st = "gone" /\ Outcomes(c.log) = {} => c.asked \/ m # "up"
  /\ m = "freed" => ~(Alike(c) \/ c.st = "resolving")

Good(c, d, cIn, dIn, m) == GoodLinks(c, d, cIn, dIn) /\ GoodLog(c, m)

AllGood == \A k \in Names : Good(cl[k], dns[k], Conn(k) \in Listed, Dns(k) \in Listed, mgr)

LEMMA Parts ==
  ASSUME TypeOK
  PROVE  AllGood <=> ResolversListed /\ ResolverKnowsItsOwn /\ Told /\ EventsInOrder
<1>1. ASSUME NEW k \in Names
      PROVE  GoodLinks(cl[k], dns[k], Conn(k) \in Listed, Dns(k) \in Listed)
             <=> /\ dns[k].st \in {"connecting", "up"} <=> Dns(k) \in Listed
                 /\ dns[k].req => dns[k].st \in {"connecting", "up"}
                 /\ cl[k].st = "new" => dns[k].st = "none"
                 /\ (cl[k].st = "resolving") <=> dns[k].req
                 /\ cl[k].st = "resolving" => Dns(k) \in Listed /\ Conn(k) \notin Listed
                 /\ cl[k].st \in {"connecting", "up"} <=> Conn(k) \in Listed
  BY DEF GoodLinks, Alike
<1> DEFINE At(log, e) == {i \in 1..Len(log) : log[i] = e}
           Ends(k) == At(cl[k].log, "CLOSE") = IF cl[k].st = "gone" THEN {Len(cl[k].log)} ELSE {}
<1>2. ASSUME NEW k \in Names
      PROVE  cl[k].log \in Seq(Events)
  BY DEF TypeOK, Connection
<1>3. ASSUME NEW k \in Names
      PROVE  Outcomes(cl[k].log) = At(cl[k].log, "CONNECT") \cup At(cl[k].log, "FAILED")
  BY DEF Outcomes
<1>4. ASSUME NEW k \in Names
      PROVE  Ends(k)
             <=> /\ cl[k].st # "gone" => \A i \in 1..Len(cl[k].log) : cl[k].log[i] # "CLOSE"
                 /\ cl[k].st = "gone" => Len(cl[k].log) > 0 /\ \A i \in 1..Len(cl[k].log) :
                                            cl[k].log[i] = "CLOSE" <=> i = Len(cl[k].log)
  <2> DEFINE log == cl[k].log
  <2>1. log \in Seq(Events) /\ Len(log) \in Nat
    BY <1>2
  <2>2. CASE cl[k].st # "gone"
    BY <2>1, <2>2
  <2>3. CASE cl[k].st = "gone"
    <3> SUFFICES At(log, "CLOSE") = {Len(log)}
                 <=> Len(log) > 0 /\ \A i \in 1..Len(log) : log[i] = "CLOSE" <=> i = Len(log)
      BY <2>3
    <3> HIDE DEF log
    <3>1. ASSUME At(log, "CLOSE") = {Len(log)}
          PROVE  Len(log) > 0 /\ \A i \in 1..Len(log) : log[i] = "CLOSE" <=> i = Len(log)
      <4>1. Len(log) \in At(log, "CLOSE")
        BY <3>1
      <4> QED BY <2>1, <3>1, <4>1
    <3>2. ASSUME Len(log) > 0, \A i \in 1..Len(log) : log[i] = "CLOSE" <=> i = Len(log)
          PROVE  At(log, "CLOSE") = {Len(log)}
      BY <2>1, <3>2
    <3> QED BY <3>1, <3>2
  <2> QED BY <2>2, <2>3
<1>5. ASSUME NEW k \in Names
      PROVE  GoodLog(cl[k], mgr)
             <=> /\ cl[k].st # "gone" => \A i \in 1..Len(cl[k].log) : cl[k].log[i] # "CLOSE"
                 /\ cl[k].st \in {"new", "resolving", "connecting"} => Outcomes(cl[k].log) = {}
                 /\ cl[k].st \in {"new", "resolving", "connecting"} /\ cl[k].close => cl[k].asked
                 /\ cl[k].st = "up" => Outcomes(cl[k].log) # {}
                 /\ \A i, j \in Outcomes(cl[k].log) : i = j
                 /\ Ends(k)
                 /\ cl[k].st = "gone" /\ Outcomes(cl[k].log) = {} => cl[k].asked \/ mgr # "up"
                 /\ mgr = "freed" => ~Alive(k)
  <2> HIDE DEF Ends
  <2> QED BY <1>4 DEF GoodLog, Alive, Alike
<1>6. EventsInOrder <=>
        \A k \in Names :
          /\ \A i, j \in Outcomes(cl[k].log) : i = j
          /\ Ends(k)
          /\ cl[k].st = "gone" /\ Outcomes(cl[k].log) = {} => cl[k].asked \/ mgr # "up"
          /\ mgr = "freed" => ~Alive(k)
  BY <1>3 DEF EventsInOrder
<1> HIDE DEF Ends
<1>7. ASSUME NEW k \in Names
      PROVE  Good(cl[k], dns[k], Conn(k) \in Listed, Dns(k) \in Listed, mgr)
             <=> /\ GoodLinks(cl[k], dns[k], Conn(k) \in Listed, Dns(k) \in Listed)
                 /\ GoodLog(cl[k], mgr)
  BY DEF Good
<1> QED
  BY <1>1, <1>5, <1>6, <1>7 DEF AllGood, ResolversListed, ResolverKnowsItsOwn, Told

-----------------------------------------------------------------------------
(* The list.                                                               *)
LEMMA ThingsDiffer ==
  /\ \A j, k \in Names : Conn(j) # Dns(k)
  /\ \A j, k \in Names : Conn(j) = Conn(k) => j = k
  /\ \A j, k \in Names : Dns(j) = Dns(k) => j = k
  /\ \A k \in Names : Conn(k) \in Things /\ Dns(k) \in Things
  /\ End \notin Things
<1>1. /\ \A j, k \in Names : Conn(j) # Dns(k)
      /\ \A j, k \in Names : Conn(j) = Conn(k) => j = k
      /\ \A j, k \in Names : Dns(j) = Dns(k) => j = k
  BY DEF Conn, Dns
<1>2. \A k \in Names : Conn(k) \in Things /\ Dns(k) \in Things
  BY DEF Things
<1>3. End \notin Things
  <2>1. ASSUME NEW k PROVE End # Conn(k) /\ End # Dns(k)
    BY DEF End, Conn, Dns
  <2> QED BY <2>1 DEF Things
<1> QED BY <1>1, <1>2, <1>3

NoTwice(l) == \A i, j \in 1..Len(l) : l[i] = l[j] => i = j
InSeq(l) == {l[i] : i \in 1..Len(l)}

LEMMA ListLemma ==
  ASSUME TypeOK, ListOK
  PROVE  /\ list \in Seq(Things) /\ Len(list) \in Nat /\ NoTwice(list)
         /\ Listed = InSeq(list) /\ Listed \subseteq Things
  BY DEF TypeOK, ListOK, NoTwice, InSeq, Listed

LEMMA PlaceLemma ==
  ASSUME TypeOK, ListOK, NEW x \in Listed
  PROVE  /\ PlaceOf(x) \in 1..Len(list) /\ list[PlaceOf(x)] = x
         /\ \A i \in 1..Len(list) : list[i] = x => i = PlaceOf(x)
<1>1. \E j \in 1..Len(list) : list[j] = x
  BY DEF Listed
<1>2. PlaceOf(x) \in 1..Len(list) /\ list[PlaceOf(x)] = x
  BY <1>1, Zenon DEF PlaceOf
<1> QED BY <1>2 DEF ListOK

(* The cursor goes on to another connection of the list, or ends.          *)
LEMMA NextLemma ==
  ASSUME TypeOK, ListOK, NEW x \in Listed
  PROVE  NextOf(x) \in (Listed \ {x}) \cup {End}
<1>1. CASE PlaceOf(x) < Len(list)
  <2>1. PlaceOf(x) + 1 \in 1..Len(list)
    BY <1>1, PlaceLemma, ListLemma
  <2>2. list[PlaceOf(x) + 1] \in Listed
    BY <2>1 DEF Listed
  <2>3. list[PlaceOf(x) + 1] # x
    BY <2>1, PlaceLemma, ListLemma
  <2> QED BY <1>1, <2>2, <2>3 DEF NextOf
<1>2. CASE ~(PlaceOf(x) < Len(list))
  BY <1>2 DEF NextOf
<1> QED BY <1>1, <1>2

LEMMA FirstLemma ==
  ASSUME TypeOK, ListOK
  PROVE  FirstOf(list) \in Listed \cup {End} /\ (FirstOf(list) = End => list = <<>>)
<1>1. CASE list = <<>>
  BY <1>1 DEF FirstOf
<1>2. CASE list # <<>>
  <2>1. 1 \in 1..Len(list)
    BY <1>2, ListLemma, EmptySeq
  <2>2. list[1] \in Listed
    BY <2>1 DEF Listed
  <2>3. list[1] # End
    BY <2>2, ListLemma, ThingsDiffer
  <2> QED BY <1>2, <2>2, <2>3 DEF FirstOf
<1> QED BY <1>1, <1>2

LEMMA WithoutLemma ==
  ASSUME TypeOK, ListOK, NEW x \in Listed
  PROVE  /\ Without(x) \in Seq(Things) /\ NoTwice(Without(x))
         /\ InSeq(Without(x)) = Listed \ {x}
         /\ x = FirstOf(list) => NextOf(x) = FirstOf(Without(x))
<1> DEFINE p == PlaceOf(x)
           n == Len(list)
           a == SubSeq(list, 1, p - 1)
           b == SubSeq(list, p + 1, n)
           w == Without(x)
<1>1. /\ p \in 1..n /\ list[p] = x /\ \A i \in 1..n : list[i] = x => i = p
      /\ n \in Nat /\ list \in Seq(Things)
  BY PlaceLemma, ListLemma
<1>2. a \in Seq(Things) /\ Len(a) = p - 1 /\ \A i \in 1..(p - 1) : a[i] = list[i]
  BY <1>1
<1>3. b \in Seq(Things) /\ Len(b) = n - p /\ \A i \in 1..(n - p) : b[i] = list[p + i]
  <2>1. CASE p = n
    BY <1>1, <2>1
  <2>2. CASE p < n
    BY <1>1, <2>2
  <2> QED BY <1>1, <2>1, <2>2
<1>4. w = a \o b
  BY DEF Without
<1> HIDE DEF p, a, b, w
<1>5. w \in Seq(Things) /\ Len(w) = n - 1
  BY <1>1, <1>2, <1>3, <1>4, SMTT(30)
<1>6. \A i \in 1..(n - 1) : w[i] = IF i < p THEN list[i] ELSE list[i + 1]
  BY <1>1, <1>2, <1>3, <1>4
<1>7. NoTwice(w)
  BY <1>1, <1>5, <1>6, ListLemma DEF NoTwice
<1>8. InSeq(w) \subseteq Listed \ {x}
  BY <1>1, <1>5, <1>6 DEF InSeq, Listed
<1>9. ASSUME NEW y \in Listed, y # x PROVE y \in InSeq(w)
  <2>1. PICK i \in 1..n : list[i] = y
    BY DEF Listed
  <2>2. CASE i < p
    BY <1>1, <1>5, <1>6, <2>1, <2>2 DEF InSeq
  <2>3. CASE i > p
    <3>1. i - 1 \in 1..(n - 1) /\ w[i - 1] = list[i]
      BY <1>1, <1>6, <2>3
    <3> QED BY <1>5, <2>1, <3>1 DEF InSeq
  <2> QED BY <1>1, <1>9, <2>1, <2>2, <2>3
<1>10. ASSUME x = FirstOf(list) PROVE NextOf(x) = FirstOf(w)
  <2>1. p = 1
    <3>1. list # <<>> /\ 1 \in 1..n
      BY <1>1
    <3> QED BY <1>1, <1>10, <3>1 DEF FirstOf
  <2>2. CASE n = 1
    BY <1>5, <2>1, <2>2, EmptySeq DEF NextOf, FirstOf, p
  <2>3. CASE n > 1
    <3>1. w # <<>> /\ w[1] = list[2]
      BY <1>1, <1>5, <1>6, <2>1, <2>3
    <3>2. NextOf(x) = list[2]
      BY <2>1, <2>3 DEF NextOf, p
    <3> QED BY <3>1, <3>2 DEF FirstOf
  <2>4. n = 1 \/ n > 1
    <3>1. n \in Nat /\ p \in 1..n
      BY <1>1
    <3> HIDE DEF n
    <3> QED BY <3>1
  <2> QED BY <2>2, <2>3, <2>4
<1> QED BY <1>5, <1>7, <1>8, <1>9, <1>10 DEF w

LEMMA InFrontLemma ==
  ASSUME TypeOK, ListOK, NEW x \in Things \ Listed, NEW l, l = <<x>> \o list
  PROVE  l \in Seq(Things) /\ NoTwice(l) /\ InSeq(l) = Listed \cup {x}
<1>1. list \in Seq(Things) /\ Len(list) \in Nat
  BY ListLemma
<1>2. l \in Seq(Things) /\ Len(l) = Len(list) + 1
  BY <1>1
<1>3. \A i \in 1..(Len(list) + 1) : l[i] = IF i = 1 THEN x ELSE list[i - 1]
  BY <1>1
<1>4. \A i \in 1..Len(list) : list[i] # x
  BY DEF Listed
<1> HIDE DEF NoTwice
<1>5. NoTwice(l)
  BY <1>1, <1>2, <1>3, <1>4, ListLemma DEF NoTwice
<1>6. InSeq(l) \subseteq Listed \cup {x}
  BY <1>1, <1>2, <1>3 DEF InSeq, Listed
<1>7. x \in InSeq(l)
  <2>1. 1 \in 1..Len(l) /\ l[1] = x
    BY <1>1, <1>2, <1>3
  <2> QED BY <2>1 DEF InSeq
<1>8. ASSUME NEW y \in Listed PROVE y \in InSeq(l)
  <2>1. PICK i \in 1..Len(list) : list[i] = y
    BY DEF Listed
  <2>2. i + 1 \in 1..Len(l) /\ l[i + 1] = y
    BY <1>1, <1>2, <1>3, <2>1
  <2> QED BY <2>2 DEF InSeq
<1> QED BY <1>2, <1>5, <1>6, <1>7, <1>8

-----------------------------------------------------------------------------
(* What the handlers make of a connection and its resolver.                *)
LEMMA Timers == NoTimer \in 0..NoTimer /\ 0..MaxTimer \subseteq 0..NoTimer
  BY ClientAssumption DEF NoTimer

LEMMA AppendLog ==
  ASSUME NEW log \in Seq(Events), NEW e \in Events
  PROVE  LET l == Append(log, e)
         IN  /\ l \in Seq(Events) /\ Len(l) = Len(log) + 1 /\ l[Len(l)] = e
             /\ \A i \in 1..Len(log) : i \in 1..Len(l) /\ l[i] = log[i]
             /\ Outcomes(l) = Outcomes(log) \cup (IF e \in {"CONNECT", "FAILED"} THEN {Len(l)} ELSE {})
<1> DEFINE l == Append(log, e)
<1>1. Len(log) \in Nat
  OBVIOUS
<1>2. /\ l \in Seq(Events) /\ Len(l) = Len(log) + 1 /\ l[Len(l)] = e
      /\ \A i \in 1..Len(log) : i \in 1..Len(l) /\ l[i] = log[i]
  BY <1>1
<1> HIDE DEF l
<1>3. \A i \in 1..Len(l) : i \in 1..Len(log) \/ i = Len(l)
  BY <1>1, <1>2
<1>4. Len(l) \in 1..Len(l) /\ Len(l) \notin 1..Len(log)
  BY <1>1, <1>2
<1>5. \A i : i \in Outcomes(l) <=> i \in Outcomes(log) \/ (i = Len(l) /\ e \in {"CONNECT", "FAILED"})
  BY <1>2, <1>3, <1>4 DEF Outcomes
<1>6. Outcomes(l) = Outcomes(log) \cup (IF e \in {"CONNECT", "FAILED"} THEN {Len(l)} ELSE {})
  BY <1>5
<1> QED BY <1>2, <1>6 DEF l

(* mg_destroy_conn after the outcome, or without one: the end is told.     *)
LEMMA CloseLog ==
  ASSUME NEW c \in Connection, NEW m, GoodLog(c, m), c.st \in {"resolving", "connecting", "up"},
         NEW e \in Connection, e.st = "gone", e.log = Append(c.log, "CLOSE"), e.asked = c.asked,
         c.st = "up" \/ c.close \/ m # "up"
  PROVE  GoodLog(e, m)
<1>1. c.log \in Seq(Events) /\ e.log \in Seq(Events) /\ "CLOSE" \in Events
  BY DEF Connection, Events
<1>2. /\ Len(e.log) = Len(c.log) + 1 /\ e.log[Len(e.log)] = "CLOSE"
      /\ \A i \in 1..Len(c.log) : i \in 1..Len(e.log) /\ e.log[i] = c.log[i]
      /\ Outcomes(e.log) = Outcomes(c.log)
  <2>1. PICK what \in Events : what = "CLOSE"
    BY <1>1
  <2>2. /\ Len(e.log) = Len(c.log) + 1 /\ e.log[Len(e.log)] = what
        /\ \A i \in 1..Len(c.log) : i \in 1..Len(e.log) /\ e.log[i] = c.log[i]
        /\ Outcomes(e.log) = Outcomes(c.log) \cup (IF what \in {"CONNECT", "FAILED"} THEN {Len(e.log)} ELSE {})
    <3>1. e.log = Append(c.log, what)
      BY <2>1
    <3> QED BY <1>1, <3>1, AppendLog
  <2> QED BY <2>1, <2>2
<1>3. \A i \in 1..Len(c.log) : c.log[i] # "CLOSE"
  BY DEF GoodLog
<1>4. Len(e.log) > 0 /\ \A i \in 1..Len(e.log) : e.log[i] = "CLOSE" <=> i = Len(e.log)
  BY <1>1, <1>2, <1>3
<1>5. \A i, j \in Outcomes(e.log) : i = j
  BY <1>2 DEF GoodLog
<1>6. Outcomes(e.log) = {} => e.asked \/ m # "up"
  BY <1>2 DEF GoodLog
<1>7. e.st = "gone"
  OBVIOUS
<1> QED BY <1>4, <1>5, <1>6, <1>7, Zenon DEF GoodLog, Alike

(* One more event is told, an outcome only to a connection that had none.  *)
LEMMA TellLog ==
  ASSUME NEW c \in Connection, NEW m, GoodLog(c, m), c.st \in {"resolving", "connecting", "up"},
         NEW e \in Connection, NEW what \in Events \ {"CLOSE"},
         e.log = Append(c.log, what), e.asked = c.asked,
         \/ what = "TIMER" /\ e.st = c.st /\ e.close = c.close
         \/ what # "TIMER" /\ c.st # "up" /\ e.st = "up"
  PROVE  GoodLog(e, m)
<1>1. c.log \in Seq(Events) /\ e.log \in Seq(Events)
  BY DEF Connection
<1>2. /\ Len(e.log) = Len(c.log) + 1 /\ e.log[Len(e.log)] = what
      /\ \A i \in 1..Len(c.log) : i \in 1..Len(e.log) /\ e.log[i] = c.log[i]
      /\ Outcomes(e.log) = Outcomes(c.log) \cup (IF what \in {"CONNECT", "FAILED"} THEN {Len(e.log)} ELSE {})
  BY <1>1, AppendLog
<1>3. \A i \in 1..Len(c.log) : c.log[i] # "CLOSE"
  BY DEF GoodLog
<1>4. \A i \in 1..Len(e.log) : i \in 1..Len(c.log) \/ i = Len(e.log)
  BY <1>1, <1>2
<1>5. \A i \in 1..Len(e.log) : e.log[i] # "CLOSE"
  BY <1>2, <1>3, <1>4
<1>6. CASE what = "TIMER" /\ e.st = c.st /\ e.close = c.close
  <2>1. Outcomes(e.log) = Outcomes(c.log)
    BY <1>2, <1>6
  <2> QED BY <1>5, <1>6, <2>1 DEF GoodLog, Alike
<1>7. CASE what # "TIMER" /\ c.st # "up" /\ e.st = "up"
  <2>1. Outcomes(c.log) = {} /\ what \in {"CONNECT", "FAILED"}
    BY <1>7 DEF GoodLog, Events
  <2>2. Outcomes(e.log) = {Len(e.log)}
    BY <1>2, <2>1
  <2>3. m # "freed"
    BY DEF GoodLog, Alike
  <2> QED BY <1>5, <1>7, <2>2, <2>3 DEF GoodLog, Alike
<1> QED BY <1>6, <1>7

(* resolve_cb without an address: the failure and the end are told.        *)
LEMMA FailLog ==
  ASSUME NEW c \in Connection, NEW m, GoodLog(c, m), c.st = "resolving", NEW a, a # "A", NEW e
  PROVE  resolve_cb(c, a, e) \in Connection /\ resolve_cb(c, a, e).st = "gone" /\ GoodLog(resolve_cb(c, a, e), m)
<1> DEFINE z == resolve_cb(c, a, e)
           d == IF e = "timeout" THEN [c EXCEPT !.log = Append(@, "TIMER")] ELSE c
           f == [d EXCEPT !.st = "up", !.log = Append(@, "FAILED")]
<1>1. c.log \in Seq(Events) /\ {"TIMER", "FAILED", "CLOSE"} \subseteq Events \ {"CONNECT"}
  BY DEF Connection, Events
<1>2. d \in Connection /\ GoodLog(d, m) /\ d.st = "resolving" /\ d.asked = c.asked
  <2>1. CASE e # "timeout"
    BY <2>1
  <2>2. CASE e = "timeout"
    <3>1. d = [c EXCEPT !.log = Append(c.log, "TIMER")]
      BY <2>2
    <3>2. d \in Connection /\ d.st = c.st /\ d.close = c.close /\ d.asked = c.asked
          /\ d.log = Append(c.log, "TIMER")
      BY <1>1, <3>1, SMTT(30) DEF Connection
    <3> HIDE DEF d
    <3> QED BY <1>1, <3>2, TellLog
  <2> QED BY <2>1, <2>2
<1>3. d.log = c.log \o (IF e = "timeout" THEN <<"TIMER">> ELSE <<>>)
  BY <1>1, AppendIsConcat, ConcatEmptySeq DEF Connection
<1> HIDE DEF d
<1>4. f \in Connection /\ f.st = "up" /\ f.asked = d.asked /\ f.log = Append(d.log, "FAILED")
  <2>1. d.log \in Seq(Events)
    BY <1>2 DEF Connection
  <2>2. Append(d.log, "FAILED") \in Seq(Events)
    BY <1>1, <2>1
  <2> QED BY <1>2, <2>2 DEF Connection
<1> HIDE DEF f
<1>5. GoodLog(f, m)
  BY <1>1, <1>2, <1>4, TellLog
<1>6. z.log = Append(f.log, "CLOSE")
  <2>1. z.log = c.log \o (IF e = "timeout" THEN <<"TIMER">> ELSE <<>>) \o <<"FAILED", "CLOSE">>
    BY DEF resolve_cb, Connection
  <2>2. d.log \in Seq(Events)
    BY <1>2 DEF Connection
  <2>3. z.log = d.log \o <<"FAILED", "CLOSE">>
    BY <1>3, <2>1
  <2>4. d.log \o <<"FAILED", "CLOSE">> = Append(Append(d.log, "FAILED"), "CLOSE")
    BY <1>1, <2>2
  <2> QED BY <1>4, <2>3, <2>4
<1>7. z \in Connection /\ z.st = "gone" /\ z.asked = c.asked
  <2>1. f.log \in Seq(Events)
    BY <1>4 DEF Connection
  <2>2. z.log \in Seq(Events)
    BY <1>1, <1>6, <2>1
  <2>3. z = [c EXCEPT !.st = "gone", !.timer = NoTimer, !.close = FALSE, !.log = z.log]
    BY DEF resolve_cb, Connection
  <2> HIDE DEF z
  <2> QED BY <2>2, <2>3, Timers DEF Connection
<1> HIDE DEF z
<1>8. GoodLog(z, m)
  BY <1>2, <1>4, <1>5, <1>6, <1>7, CloseLog
<1> QED BY <1>7, <1>8 DEF z

(* The events of the resolver that leave the connection alone keep its     *)
(* request and do not close it yet.                                        *)
Kept(d, e) == e \in Resolver /\ e.st = d.st /\ e.req = d.req /\ e.wire = d.wire

LEMMA EhKeeps ==
  ASSUME NEW d \in Resolver, NEW ok \in BOOLEAN
  PROVE  /\ Kept(d, EhConnect(d)) /\ Kept(d, EhPoll(d)) /\ Kept(d, EhSend(d, ok)) /\ Kept(d, EhTimer(d))
<1>1. Query(d) \in Resolver /\ Kept(d, Query(d))
  <2>1. d.retries \in Nat /\ d.retries + 1 \in Nat
    BY DEF Resolver
  <2> DEFINE e == [d EXCEPT !.unsent = TRUE, !.age = 0]
  <2>2. e \in Resolver /\ e.st = d.st /\ e.req = d.req /\ e.wire = d.wire
    BY DEF Resolver
  <2>3. Query(d) = [e EXCEPT !.retries = d.retries + 1]
    BY DEF Query, Resolver
  <2> HIDE DEF e
  <2> QED BY <2>1, <2>2, <2>3 DEF Resolver, Kept
<1>2. ASSUME NEW x \in {"retries", "timeout"}
      PROVE  Kept(d, [d EXCEPT !.err = x, !.close = TRUE])
  BY DEF Resolver, Kept
<1>3. Kept(d, d)
  BY DEF Kept
<1>4. Kept(d, EhConnect(d))
  BY <1>1, <1>2, <1>3 DEF EhConnect
<1>5. Kept(d, EhPoll(d))
  BY <1>1, <1>2, <1>3 DEF EhPoll
<1>6. Kept(d, EhTimer(d))
  BY <1>2, <1>3 DEF EhTimer
<1>7. Kept(d, EhSend(d, ok))
  BY DEF EhSend, Resolver, Kept
<1> QED BY <1>4, <1>5, <1>6, <1>7

LEMMA ConnectingKeeps ==
  ASSUME NEW d \in Resolver, Alike(d), NEW made \in BOOLEAN
  PROVE  LET e == Connecting(d, made) IN e \in Resolver /\ Alike(e) /\ e.req = d.req
<1>1. CASE d.st # "connecting"
  BY <1>1 DEF Connecting
<1>2. CASE d.st = "connecting"
  <2> DEFINE f == [d EXCEPT !.st = "up", !.close = ~made]
  <2>1. f \in Resolver /\ f.st = "up" /\ f.req = d.req
    BY DEF Resolver
  <2>2. Connecting(d, made) = EhConnect(f)
    BY <1>2 DEF Connecting
  <2> HIDE DEF f
  <2> QED BY <2>1, <2>2, EhKeeps DEF Kept, Alike
<1> QED BY <1>1, <1>2

LEMMA RestKeeps ==
  ASSUME NEW d \in Resolver, NEW can, NEW ok \in BOOLEAN, NEW due
  PROVE  Kept(d, Rest(d, can, ok, due))
<1>1. Kept(d, d)
  BY DEF Kept
<1>2. Kept(d, Writing(d, can, ok))
  BY <1>1, EhKeeps DEF Writing
<1> DEFINE w == Writing(d, can, ok)
           p == EhPoll(w)
<1> HIDE DEF w
<1>3. w \in Resolver /\ Kept(d, w)
  BY <1>2 DEF w, Kept
<1>4. p \in Resolver /\ Kept(d, p)
  BY <1>3, EhKeeps DEF Kept
<1> HIDE DEF p
<1>5. Kept(d, Timed(p, due))
  <2> DEFINE t == [p EXCEPT !.timer = NoTimer]
  <2>1. t \in Resolver /\ Kept(d, t)
    BY <1>4, Timers DEF Kept, Resolver
  <2> HIDE DEF t
  <2>2. Kept(d, EhTimer(t))
    BY <2>1, EhKeeps DEF Kept
  <2> QED BY <1>4, <2>2 DEF Timed, t
<1> QED BY <1>1, <1>5 DEF Rest, p, w

(* What an answer does: nothing without a request; otherwise the           *)
(* connection goes on or is destroyed, and the request with it, or the     *)
(* answer is useless and both stay.                                        *)
Outcome(c, d, p) ==
  /\ p.d \in Resolver /\ (Alike(d) => Alike(p.d))
  /\ \/ p.c = c /\ p.d.req = d.req /\ p.add = FALSE
     \/ p.c = resolve_cb(c, "A", "ok") /\ d.req /\ p.d.req = FALSE /\ p.add = TRUE
     \/ p.c = resolve_cb(c, "other", "ok") /\ d.req /\ p.d.req = FALSE /\ p.add = FALSE

LEMMA ReadingOutcome ==
  ASSUME NEW c \in Connection, NEW d \in Resolver, NEW can
  PROVE  Outcome(c, d, Reading(c, d, can))
<1>1. CASE ~(can /\ d.wire # <<>>)
  BY <1>1 DEF Reading, Put, Outcome
<1>2. CASE can /\ d.wire # <<>>
  <2> DEFINE a == d.wire[1]
             r == [d EXCEPT !.wire = Tail(d.wire)]
  <2>1. d.wire \in Seq(Answers)
    BY DEF Resolver
  <2>2. a \in Answers /\ Tail(d.wire) \in Seq(Answers)
    BY <1>2, <2>1
  <2>3. r \in Resolver /\ r.st = d.st /\ r.req = d.req
    BY <2>2 DEF Resolver
  <2> HIDE DEF r
  <2> DEFINE r1 == [r EXCEPT !.req = FALSE, !.close = TRUE]
             r2 == [r EXCEPT !.err = "answers", !.close = TRUE]
  <2>4. r1 \in Resolver /\ r1.st = d.st /\ r1.req = FALSE
    BY <2>3 DEF Resolver
  <2>5. r2 \in Resolver /\ r2.st = d.st /\ r2.req = d.req
    BY <2>3 DEF Resolver
  <2>6. Reading(c, d, can) =
          IF ~d.req THEN Put(c, r, FALSE)
          ELSE IF a \in {"A", "other"} THEN Put(resolve_cb(c, a, "ok"), r1, a = "A")
          ELSE Put(c, r2, FALSE)
    BY <1>2 DEF Reading, EhRecv, r
  <2> HIDE DEF r1, r2, a
  <2>11. ASSUME NEW z, NEW f, NEW b, Reading(c, d, can) = Put(z, f, b)
         PROVE  /\ Reading(c, d, can).c = z /\ Reading(c, d, can).d = f /\ Reading(c, d, can).add = b
    BY <2>11 DEF Put
  <2>7. CASE ~d.req
    <3>1. Reading(c, d, can) = Put(c, r, FALSE)
      BY <2>6, <2>7
    <3> QED BY <2>3, <2>11, <3>1 DEF Outcome, Alike
  <2>8. CASE d.req /\ a = "A"
    <3>1. Reading(c, d, can) = Put(resolve_cb(c, "A", "ok"), r1, TRUE)
      BY <2>6, <2>8
    <3> QED BY <2>4, <2>8, <2>11, <3>1 DEF Outcome, Alike
  <2>9. CASE d.req /\ a = "other"
    <3>1. Reading(c, d, can) = Put(resolve_cb(c, "other", "ok"), r1, FALSE)
      BY <2>6, <2>9
    <3> QED BY <2>4, <2>9, <2>11, <3>1 DEF Outcome, Alike
  <2>10. CASE d.req /\ a \notin {"A", "other"}
    <3>1. Reading(c, d, can) = Put(c, r2, FALSE)
      BY <2>6, <2>10
    <3> QED BY <2>5, <2>11, <3>1 DEF Outcome, Alike
  <2> QED BY <2>7, <2>8, <2>9, <2>10
<1> QED BY <1>1, <1>2

LEMMA HandleDnsOutcome ==
  ASSUME NEW k \in Names, cl[k] \in Connection, dns[k] \in Resolver, Alike(dns[k]),
         NEW made \in BOOLEAN, NEW ok \in BOOLEAN
  PROVE  Outcome(cl[k], dns[k], HandleDns(k, made, ok))
<1> DEFINE r == Dns(k) \in ready.r
           w == Dns(k) \in ready.w
           due == Dns(k) \in ready.due
           d == Connecting(dns[k], made)
           q == Reading(cl[k], d, r)
           e == Rest(q.d, w, ok, due)
<1>1. d \in Resolver /\ Alike(d) /\ d.req = dns[k].req
  BY ConnectingKeeps
<1>2. HandleDns(k, made, ok) = [c |-> q.c, d |-> e, add |-> q.add]
  BY DEF HandleDns, Put
<1> HIDE DEF d, r, w, due
<1>3. Outcome(cl[k], d, q)
  BY <1>1, ReadingOutcome
<1> HIDE DEF q
<1>4. Kept(q.d, e)
  BY <1>3, RestKeeps DEF Outcome
<1> HIDE DEF e
<1> QED BY <1>1, <1>2, <1>3, <1>4 DEF Outcome, Kept, Alike

-----------------------------------------------------------------------------
(* ClientInv as a statement about pairs, and a step that changes one pair. *)
PairInv == TypeOK /\ ListOK /\ AllGood /\ Freeing

LEMMA PairInvIsClientInv == PairInv <=> ClientInv
  BY Parts DEF PairInv, ClientInv

(* What PairInv says of one pair.                                          *)
LEMMA PairOf ==
  ASSUME PairInv, NEW k \in Names
  PROVE  /\ cl[k] \in Connection /\ dns[k] \in Resolver
         /\ Good(cl[k], dns[k], Conn(k) \in Listed, Dns(k) \in Listed, mgr)
         /\ list \in Seq(Things) /\ NoTwice(list) /\ Listed = InSeq(list)
  BY ListLemma DEF PairInv, TypeOK, AllGood

LEMMA PairStep ==
  ASSUME PairInv, NEW k \in Names, NEW c \in Connection, NEW d \in Resolver,
         cl' = [cl EXCEPT ![k] = c], dns' = [dns EXCEPT ![k] = d],
         list' \in Seq(Things), NoTwice(list'),
         InSeq(list') \ {Conn(k), Dns(k)} = Listed \ {Conn(k), Dns(k)},
         Good(c, d, Conn(k) \in InSeq(list'), Dns(k) \in InSeq(list'), mgr),
         mgr' = mgr, phase' \in {"idle", "handle", "sweep", "free"},
         cursor' \in InSeq(list') \cup {End}, Freeing'
  PROVE  PairInv'
<1>1. TypeOK'
  BY DEF PairInv, TypeOK
<1>2. Listed' = InSeq(list')
  BY DEF Listed, InSeq
<1>3. ListOK'
  BY <1>2 DEF ListOK, NoTwice
<1>4. ASSUME NEW j \in Names
      PROVE  Good(cl'[j], dns'[j], Conn(j) \in InSeq(list'), Dns(j) \in InSeq(list'), mgr)
  <2>1. CASE j = k
    <3>1. cl'[j] = c /\ dns'[j] = d
      BY <2>1 DEF PairInv, TypeOK
    <3> QED BY <2>1, <3>1
  <2>2. CASE j # k
    <3>1. cl'[j] = cl[j] /\ dns'[j] = dns[j]
      BY <2>2 DEF PairInv, TypeOK
    <3>2. /\ Conn(j) \in InSeq(list') <=> Conn(j) \in Listed
          /\ Dns(j) \in InSeq(list') <=> Dns(j) \in Listed
      <4>1. Conn(j) \notin {Conn(k), Dns(k)} /\ Dns(j) \notin {Conn(k), Dns(k)}
        BY <2>2, ThingsDiffer
      <4> QED BY <4>1
    <3>3. Good(cl[j], dns[j], Conn(j) \in Listed, Dns(j) \in Listed, mgr)
      BY PairOf
    <3> QED BY <3>1, <3>2, <3>3 DEF Good, GoodLinks
  <2> QED BY <2>1, <2>2
<1>5. AllGood'
  BY <1>2, <1>4 DEF AllGood
<1> QED BY <1>1, <1>3, <1>5 DEF PairInv

(* A step that leaves the list alone, between two polls or in the loop.    *)
LEMMA QuietStep ==
  ASSUME PairInv, NEW k \in Names, NEW c \in Connection, NEW d \in Resolver,
         cl' = [cl EXCEPT ![k] = c], dns' = [dns EXCEPT ![k] = d],
         c.st = cl[k].st \/ (cl[k].st = "connecting" /\ c.st = "up")
                         \/ (cl[k].st = "new" /\ c.st = "refused"),
         Alike(d) <=> Alike(dns[k]), cl[k].st = "new" => d.st = "none", d.req = dns[k].req,
         GoodLog(c, mgr), UNCHANGED <<list, mgr, phase>>,
         cursor' \in Listed \cup {End}, phase = "free" => cursor' = cursor
  PROVE  PairInv'
<1>1. Good(c, d, Conn(k) \in Listed, Dns(k) \in Listed, mgr)
  <2>1. GoodLinks(cl[k], dns[k], Conn(k) \in Listed, Dns(k) \in Listed)
    BY PairOf DEF Good
  <2> QED BY <2>1 DEF Good, GoodLinks, Alike
<1>2. list' \in Seq(Things) /\ NoTwice(list') /\ InSeq(list') = Listed
  BY PairOf
<1>3. Freeing'
  BY DEF Freeing, PairInv, FirstOf
<1>4. phase' \in {"idle", "handle", "sweep", "free"}
  BY DEF PairInv, TypeOK
<1> QED BY <1>1, <1>2, <1>3, <1>4, PairStep

LEMMA SameResolver ==
  ASSUME TypeOK, NEW k \in Names
  PROVE  dns = [dns EXCEPT ![k] = dns[k]] /\ cl = [cl EXCEPT ![k] = cl[k]]
  BY DEF TypeOK

LEMMA ConnectStep ==
  ASSUME PairInv, NEW k \in Names, mg_connect_opt(k)
  PROVE  PairInv'
<1> DEFINE c == cl[k]
           d == dns[k]
<1>1. /\ c \in Connection /\ d \in Resolver /\ c.st = "new" /\ mgr = "up" /\ phase = "idle"
      /\ GoodLinks(c, d, Conn(k) \in Listed, Dns(k) \in Listed) /\ GoodLog(c, mgr)
      /\ TypeOK /\ ListOK
      /\ dns = [dns EXCEPT ![k] = d]
  BY PairOf, SameResolver DEF mg_connect_opt, Good, PairInv
<1>2. d.st = "none" /\ d.req = FALSE /\ Conn(k) \notin Listed /\ Dns(k) \notin Listed
  BY <1>1 DEF GoodLinks, Alike, Resolver
<1>3. Freeing' /\ phase' \in {"idle", "handle", "sweep", "free"} /\ mgr' = mgr /\ cursor' = cursor
      /\ cursor \in Listed \cup {End}
  BY <1>1 DEF mg_connect_opt, Freeing, PairInv, ListOK
<1>4. Conn(k) \in Things \ Listed /\ Dns(k) \in Things \ Listed /\ Conn(k) # Dns(k)
  BY <1>2, ThingsDiffer
<1>5. ASSUME k \in Literal, cl' = [cl EXCEPT ![k].st = "connecting"],
             list' = <<Conn(k)>> \o list, dns' = dns
      PROVE  PairInv'
  <2> DEFINE e == [c EXCEPT !.st = "connecting"]
  <2>1. e \in Connection /\ e.st = "connecting" /\ e.log = c.log /\ e.close = c.close /\ e.asked = c.asked
    BY <1>1 DEF Connection
  <2>2. cl' = [cl EXCEPT ![k] = e] /\ dns' = [dns EXCEPT ![k] = d]
    BY <1>1, <1>5
  <2>3. list' \in Seq(Things) /\ NoTwice(list') /\ InSeq(list') = Listed \cup {Conn(k)}
    BY <1>1, <1>4, <1>5, InFrontLemma
  <2> HIDE DEF e, c, d
  <2>4. GoodLog(e, mgr)
    BY <1>1, <2>1 DEF GoodLog, Alike
  <2>5. GoodLinks(e, d, Conn(k) \in InSeq(list'), Dns(k) \in InSeq(list'))
    BY <1>2, <1>4, <2>1, <2>3 DEF GoodLinks, Alike
  <2>6. InSeq(list') \ {Conn(k), Dns(k)} = Listed \ {Conn(k), Dns(k)}
    BY <2>3
  <2>7. cursor' \in InSeq(list') \cup {End}
    BY <1>3, <2>3
  <2> QED BY <1>1, <1>3, <2>1, <2>2, <2>3, <2>4, <2>5, <2>6, <2>7, PairStep DEF Good
<1>6. ASSUME k \notin Literal, cl' = [cl EXCEPT ![k].st = "resolving"],
             dns' = [dns EXCEPT ![k].st = "connecting", ![k].req = TRUE],
             list' = <<Dns(k)>> \o list
      PROVE  PairInv'
  <2> DEFINE e == [c EXCEPT !.st = "resolving"]
             f == [d EXCEPT !.st = "connecting", !.req = TRUE]
  <2>1. e \in Connection /\ e.st = "resolving" /\ e.log = c.log /\ e.close = c.close /\ e.asked = c.asked
    BY <1>1 DEF Connection
  <2>2. f \in Resolver /\ f.st = "connecting" /\ f.req = TRUE
    BY <1>1 DEF Resolver
  <2>3. cl' = [cl EXCEPT ![k] = e] /\ dns' = [dns EXCEPT ![k] = f]
    BY <1>1, <1>6 DEF TypeOK
  <2>4. list' \in Seq(Things) /\ NoTwice(list') /\ InSeq(list') = Listed \cup {Dns(k)}
    BY <1>1, <1>4, <1>6, InFrontLemma
  <2> HIDE DEF e, f, c, d
  <2>5. GoodLog(e, mgr)
    BY <1>1, <2>1 DEF GoodLog, Alike
  <2>6. GoodLinks(e, f, Conn(k) \in InSeq(list'), Dns(k) \in InSeq(list'))
    BY <1>2, <1>4, <2>1, <2>2, <2>4 DEF GoodLinks, Alike
  <2>7. InSeq(list') \ {Conn(k), Dns(k)} = Listed \ {Conn(k), Dns(k)}
    BY <2>4
  <2>8. cursor' \in InSeq(list') \cup {End}
    BY <1>3, <2>4
  <2> QED BY <1>1, <1>3, <2>1, <2>2, <2>3, <2>4, <2>5, <2>6, <2>7, <2>8, PairStep DEF Good
<1>7. ASSUME cl' = [cl EXCEPT ![k].st = "refused"], UNCHANGED <<dns, list>>
      PROVE  PairInv'
  <2> DEFINE e == [c EXCEPT !.st = "refused"]
  <2>1. e \in Connection /\ e.st = "refused" /\ e.log = c.log /\ e.close = c.close /\ e.asked = c.asked
    BY <1>1 DEF Connection
  <2>2. cl' = [cl EXCEPT ![k] = e] /\ dns' = [dns EXCEPT ![k] = d]
    BY <1>1, <1>7
  <2>3. phase' = phase
    BY DEF mg_connect_opt
  <2> HIDE DEF e
  <2>4. GoodLog(e, mgr)
    BY <1>1, <2>1 DEF GoodLog, Alike
  <2> QED BY <1>1, <1>2, <1>3, <1>7, <2>1, <2>2, <2>3, <2>4, QuietStep
<1> QED BY <1>5, <1>6, <1>7 DEF mg_connect_opt

LEMMA ProgramStep ==
  ASSUME PairInv, NEW k \in Names,
         AskClose(k) \/ \E t \in 1..MaxTimer : mg_set_timer(k, t)
  PROVE  PairInv'
<1>1. /\ cl[k] \in Connection /\ dns[k] \in Resolver
      /\ GoodLinks(cl[k], dns[k], Conn(k) \in Listed, Dns(k) \in Listed) /\ GoodLog(cl[k], mgr)
      /\ TypeOK /\ ListOK /\ dns = [dns EXCEPT ![k] = dns[k]] /\ cursor \in Listed \cup {End}
  BY PairOf, SameResolver DEF Good, PairInv, ListOK
<1>2. CASE AskClose(k)
  <2> DEFINE e == [cl[k] EXCEPT !.close = TRUE, !.asked = TRUE]
  <2>1. e \in Connection /\ e.st = cl[k].st /\ e.log = cl[k].log /\ e.asked = TRUE
    BY <1>1 DEF Connection
  <2>2. cl' = [cl EXCEPT ![k] = e] /\ dns' = [dns EXCEPT ![k] = dns[k]]
        /\ UNCHANGED <<list, mgr, phase, cursor>>
    BY <1>1, <1>2 DEF AskClose, pollVars, TypeOK
  <2> HIDE DEF e
  <2>3. GoodLog(e, mgr)
    BY <1>1, <2>1 DEF GoodLog, Alike
  <2>4. cl[k].st = "new" => dns[k].st = "none"
    BY <1>1 DEF GoodLinks
  <2> QED BY <1>1, <2>1, <2>2, <2>3, <2>4, QuietStep
<1>3. ASSUME NEW t \in 1..MaxTimer, mg_set_timer(k, t)
      PROVE  PairInv'
  <2> DEFINE e == [cl[k] EXCEPT !.timer = t]
             f == IF cl[k].st = "resolving" THEN [dns[k] EXCEPT !.timer = t] ELSE dns[k]
  <2>0. t \in 0..NoTimer
    BY ClientAssumption DEF NoTimer
  <2>1. e \in Connection /\ e.st = cl[k].st /\ e.log = cl[k].log /\ e.asked = cl[k].asked /\ e.close = cl[k].close
    BY <1>1, <2>0 DEF Connection
  <2>2. f \in Resolver /\ f.st = dns[k].st /\ f.req = dns[k].req
    BY <1>1, <2>0 DEF Resolver
  <2>3. cl' = [cl EXCEPT ![k] = e] /\ dns' = [dns EXCEPT ![k] = f]
        /\ UNCHANGED <<list, mgr, phase, cursor>>
    BY <1>1, <1>3 DEF mg_set_timer, pollVars, TypeOK
  <2> HIDE DEF e, f
  <2>4. GoodLog(e, mgr)
    BY <1>1, <2>1 DEF GoodLog, Alike
  <2>5. cl[k].st = "new" => f.st = "none"
    BY <1>1, <2>2 DEF GoodLinks
  <2>6. Alike(f) <=> Alike(dns[k])
    BY <2>2 DEF Alike
  <2> QED BY <1>1, <2>1, <2>2, <2>3, <2>4, <2>5, <2>6, QuietStep
<1> QED BY <1>2, <1>3

LEMMA AnswerStep ==
  ASSUME PairInv, NEW k \in Names, NEW a \in Answers, Answer(k, a)
  PROVE  PairInv'
<1>1. /\ cl[k] \in Connection /\ dns[k] \in Resolver /\ dns[k].wire \in Seq(Answers)
      /\ GoodLinks(cl[k], dns[k], Conn(k) \in Listed, Dns(k) \in Listed) /\ GoodLog(cl[k], mgr)
      /\ TypeOK /\ cl = [cl EXCEPT ![k] = cl[k]] /\ cursor \in Listed \cup {End}
  BY PairOf, SameResolver DEF Good, PairInv, ListOK, Resolver
<1> DEFINE f == [dns[k] EXCEPT !.wire = Append(dns[k].wire, a)]
<1>2. Append(dns[k].wire, a) \in Seq(Answers)
  BY <1>1
<1>3. f \in Resolver /\ f.st = dns[k].st /\ f.req = dns[k].req
  BY <1>1, <1>2 DEF Resolver
<1>4. cl' = [cl EXCEPT ![k] = cl[k]] /\ dns' = [dns EXCEPT ![k] = f]
      /\ UNCHANGED <<list, mgr, phase, cursor>>
  BY <1>1 DEF Answer, pollVars, TypeOK
<1> HIDE DEF f
<1>5. (cl[k].st = "new" => f.st = "none") /\ (Alike(f) <=> Alike(dns[k]))
  BY <1>1, <1>3 DEF GoodLinks, Alike
<1> QED BY <1>1, <1>3, <1>4, <1>5, QuietStep

(* The clock changes every pair, and nothing the invariant speaks of.      *)
LEMMA TickStep ==
  ASSUME PairInv, Tick
  PROVE  PairInv'
<1>1. ASSUME NEW t \in 0..NoTimer PROVE Sooner(t) \in 0..NoTimer
  BY ClientAssumption DEF Sooner, NoTimer
<1>2. ASSUME NEW k \in Names
      PROVE  /\ cl'[k] \in Connection /\ cl'[k].st = cl[k].st /\ cl'[k].log = cl[k].log
             /\ cl'[k].asked = cl[k].asked /\ cl'[k].close = cl[k].close
  <2>1. cl[k] \in Connection /\ cl[k].timer \in 0..NoTimer
    BY PairOf DEF Connection
  <2>2. cl'[k] = [cl[k] EXCEPT !.timer = Sooner(cl[k].timer)]
    BY DEF Tick
  <2>3. Sooner(cl[k].timer) \in 0..NoTimer
    BY <1>1, <2>1
  <2> QED BY <2>1, <2>2, <2>3 DEF Connection
<1>3. ASSUME NEW k \in Names
      PROVE  dns'[k] \in Resolver /\ dns'[k].st = dns[k].st /\ dns'[k].req = dns[k].req
  <2>1. dns[k] \in Resolver /\ dns[k].timer \in 0..NoTimer /\ dns[k].age \in Nat
    BY PairOf DEF Resolver
  <2> DEFINE age == IF dns[k].age < Timeout THEN dns[k].age + 1 ELSE dns[k].age
  <2>2. dns'[k] = [dns[k] EXCEPT !.timer = Sooner(dns[k].timer), !.age = age]
    BY DEF Tick
  <2>3. Sooner(dns[k].timer) \in 0..NoTimer /\ age \in Nat
    BY <1>1, <2>1
  <2> HIDE DEF age
  <2> QED BY <2>1, <2>2, <2>3 DEF Resolver
<1>4. UNCHANGED <<list, phase, cursor, mgr>> /\ Listed' = Listed
  BY DEF Tick, pollVars, Listed
<1>5. TypeOK'
  <2>1. cl' \in [Names -> Connection]
    BY <1>2 DEF Tick
  <2>2. dns' \in [Names -> Resolver]
    BY <1>3 DEF Tick
  <2> QED BY <1>4, <2>1, <2>2 DEF PairInv, TypeOK
<1>6. ASSUME NEW k \in Names
      PROVE  Good(cl'[k], dns'[k], Conn(k) \in Listed, Dns(k) \in Listed, mgr)
  <2>1. GoodLinks(cl[k], dns[k], Conn(k) \in Listed, Dns(k) \in Listed) /\ GoodLog(cl[k], mgr)
    BY PairOf DEF Good
  <2>2. GoodLinks(cl'[k], dns'[k], Conn(k) \in Listed, Dns(k) \in Listed)
    BY <1>2, <1>3, <2>1 DEF GoodLinks, Alike
  <2>3. GoodLog(cl'[k], mgr)
    BY <1>2, <2>1 DEF GoodLog, Alike
  <2> QED BY <2>2, <2>3 DEF Good
<1> QED BY <1>4, <1>5, <1>6 DEF PairInv, AllGood, ListOK, Freeing, FirstOf

(* Steps that change neither connections nor resolvers nor the list.       *)
LEMMA LoopStep ==
  ASSUME PairInv, Select \/ Handled \/ Swept \/ mg_mgr_free
  PROVE  PairInv'
<1>1. /\ UNCHANGED <<cl, dns, list>> /\ Listed' = Listed
      /\ TypeOK /\ ListOK /\ Freeing /\ AllGood
  BY DEF PairInv, Select, Handled, Swept, mg_mgr_free, Listed
<1>2. FirstOf(list) \in Listed \cup {End} /\ (FirstOf(list) = End => list = <<>>)
  BY <1>1, FirstLemma
<1>3. /\ cursor' \in {cursor, FirstOf(list), End}
      /\ phase' \in {"idle", "handle", "sweep", "free"} /\ mgr' \in {"up", "freeing", "freed"}
      /\ mgr' # mgr => (mgr = "up" /\ mgr' = "freeing") \/ (mgr' = "freed" /\ list = <<>>)
      /\ (mgr = "freed" => list = <<>> /\ phase' = "idle" /\ mgr' = "freed")
      /\ phase' = "free" => mgr' = "freeing" /\ cursor' = FirstOf(list)
      /\ mgr' = "freed" => phase' = "idle"
  <2>1. CASE Select
    BY <1>1, <2>1 DEF Select, TypeOK, Freeing
  <2>2. CASE Handled
    BY <1>1, <2>2 DEF Handled, TypeOK, Freeing
  <2>3. CASE mg_mgr_free
    BY <1>1, <2>3 DEF mg_mgr_free, TypeOK, Freeing
  <2>4. CASE Swept
    <3>1. CASE phase = "sweep" /\ mgr = "freeing"
      BY <1>1, <2>4, <3>1 DEF Swept, TypeOK, Freeing
    <3>2. CASE phase = "sweep" /\ mgr # "freeing"
      BY <1>1, <2>4, <3>2 DEF Swept, TypeOK, Freeing
    <3>3. CASE phase = "free"
      BY <1>1, <1>2, <2>4, <3>3 DEF Swept, TypeOK, Freeing
    <3> QED BY <2>4, <3>1, <3>2, <3>3 DEF Swept
  <2> QED BY <2>1, <2>2, <2>3, <2>4
<1>4. TypeOK' /\ ListOK'
  BY <1>1, <1>2, <1>3 DEF TypeOK, ListOK
<1>5. Freeing'
  BY <1>1, <1>3 DEF Freeing, FirstOf
<1>6. ASSUME NEW k \in Names
      PROVE  Good(cl[k], dns[k], Conn(k) \in Listed, Dns(k) \in Listed, mgr')
  <2>1. GoodLinks(cl[k], dns[k], Conn(k) \in Listed, Dns(k) \in Listed) /\ GoodLog(cl[k], mgr)
    BY PairOf DEF Good
  <2>2. mgr' = "freed" => ~(Alike(cl[k]) \/ cl[k].st = "resolving")
    <3>1. mgr' = "freed" => Listed = {}
      BY <1>1, <1>3 DEF Listed, TypeOK
    <3> QED BY <2>1, <3>1 DEF GoodLinks
  <2>3. GoodLog(cl[k], mgr')
    BY <1>3, <2>1, <2>2 DEF GoodLog
  <2> QED BY <2>1, <2>3 DEF Good
<1>7. AllGood'
  BY <1>1, <1>6 DEF AllGood
<1> QED BY <1>4, <1>5, <1>7 DEF PairInv

(* The cursor stands at k's resolver: it is in the list, so it is alive.   *)
LEMMA AtResolver ==
  ASSUME PairInv, NEW k \in Names, cursor = Dns(k)
  PROVE  /\ Dns(k) \in Listed /\ Alike(dns[k]) /\ TypeOK /\ ListOK
         /\ NextOf(Dns(k)) \in (Listed \ {Dns(k)}) \cup {End}
<1>1. TypeOK /\ ListOK
  BY DEF PairInv
<1>2. Dns(k) \in Listed
  BY <1>1, ThingsDiffer DEF ListOK
<1>3. Alike(dns[k])
  BY <1>2, PairOf DEF Good, GoodLinks
<1> QED BY <1>1, <1>2, <1>3, NextLemma

LEMMA AtConnection ==
  ASSUME PairInv, NEW k \in Names, cursor = Conn(k)
  PROVE  /\ Conn(k) \in Listed /\ Alike(cl[k]) /\ TypeOK /\ ListOK
         /\ NextOf(Conn(k)) \in (Listed \ {Conn(k)}) \cup {End}
<1>1. TypeOK /\ ListOK
  BY DEF PairInv
<1>2. Conn(k) \in Listed
  BY <1>1, ThingsDiffer DEF ListOK
<1>3. Alike(cl[k])
  BY <1>2, PairOf DEF Good, GoodLinks
<1> QED BY <1>1, <1>2, <1>3, NextLemma

LEMMA HandlesDnsStep ==
  ASSUME PairInv, NEW k \in Names, HandlesDns(k)
  PROVE  PairInv'
<1>1. PICK made \in BOOLEAN, ok \in BOOLEAN :
        LET p == HandleDns(k, made, ok)
        IN  /\ cl' = [cl EXCEPT ![k] = p.c] /\ dns' = [dns EXCEPT ![k] = p.d]
            /\ list' = IF p.add THEN <<Conn(k)>> \o list ELSE list
  BY DEF HandlesDns
<1> DEFINE p == HandleDns(k, made, ok)
           c == cl[k]
           d == dns[k]
<1>2. /\ phase = "handle" /\ phase' = "handle" /\ mgr' = mgr /\ cursor = Dns(k)
      /\ cursor' = NextOf(Dns(k))
  BY DEF HandlesDns
<1>3. /\ c \in Connection /\ d \in Resolver
      /\ GoodLinks(c, d, Conn(k) \in Listed, Dns(k) \in Listed) /\ GoodLog(c, mgr)
  BY PairOf DEF Good
<1>4. /\ Dns(k) \in Listed /\ Alike(d) /\ TypeOK /\ ListOK
      /\ cursor' \in Listed \cup {End}
  BY <1>2, AtResolver
<1>5. /\ Alike(p.d) /\ p.d \in Resolver
      /\ \/ p.c = c /\ p.d.req = d.req /\ p.add = FALSE
         \/ p.c = resolve_cb(c, "A", "ok") /\ d.req /\ p.d.req = FALSE /\ p.add = TRUE
         \/ p.c = resolve_cb(c, "other", "ok") /\ d.req /\ p.d.req = FALSE /\ p.add = FALSE
  <2>1. Outcome(c, d, p)
    BY <1>3, <1>4, HandleDnsOutcome
  <2> QED BY <1>4, <2>1 DEF Outcome
<1>6. /\ cl' = [cl EXCEPT ![k] = p.c] /\ dns' = [dns EXCEPT ![k] = p.d]
      /\ list' = IF p.add THEN <<Conn(k)>> \o list ELSE list
  BY <1>1
<1> HIDE DEF p, c, d
<1>7. Freeing'
  <2>1. mgr # "freed"
    BY <1>2 DEF PairInv, Freeing
  <2> QED BY <1>2, <2>1 DEF Freeing
<1>8. list \in Seq(Things) /\ NoTwice(list) /\ InSeq(list) = Listed
  BY PairOf
<1>9. d.req => c.st = "resolving" /\ Conn(k) \notin Listed
  BY <1>3 DEF GoodLinks
<1>10. CASE p.c = c /\ p.d.req = d.req /\ p.add = FALSE
  <2>1. list' = list
    BY <1>6, <1>10
  <2>2. GoodLinks(c, p.d, Conn(k) \in Listed, Dns(k) \in Listed)
    BY <1>3, <1>4, <1>5, <1>10 DEF GoodLinks, Alike
  <2> QED BY <1>2, <1>3, <1>4, <1>5, <1>6, <1>7, <1>8, <1>10, <2>1, <2>2, PairStep DEF Good
<1>11. CASE p.c = resolve_cb(c, "A", "ok") /\ d.req /\ p.d.req = FALSE /\ p.add = TRUE
  <2>1. list' = <<Conn(k)>> \o list
    BY <1>6, <1>11
  <2>2. Conn(k) \in Things \ Listed
    BY <1>9, <1>11, ThingsDiffer
  <2>3. list' \in Seq(Things) /\ NoTwice(list') /\ InSeq(list') = Listed \cup {Conn(k)}
    BY <1>4, <2>1, <2>2, InFrontLemma
  <2>4. p.c = [c EXCEPT !.st = "connecting"]
    BY <1>11 DEF resolve_cb
  <2>5. /\ p.c \in Connection /\ p.c.st = "connecting" /\ p.c.log = c.log /\ p.c.close = c.close
        /\ p.c.asked = c.asked
    BY <1>3, <2>4 DEF Connection
  <2>6. GoodLog(p.c, mgr)
    BY <1>3, <1>9, <1>11, <2>5 DEF GoodLog, Alike
  <2>7. GoodLinks(p.c, p.d, Conn(k) \in InSeq(list'), Dns(k) \in InSeq(list'))
    BY <1>4, <1>5, <1>11, <2>3, <2>5 DEF GoodLinks, Alike
  <2>8. InSeq(list') \ {Conn(k), Dns(k)} = Listed \ {Conn(k), Dns(k)} /\ cursor' \in InSeq(list') \cup {End}
    BY <1>4, <2>3
  <2> QED BY <1>2, <1>5, <1>6, <1>7, <2>3, <2>5, <2>6, <2>7, <2>8, PairStep DEF Good
<1>12. CASE p.c = resolve_cb(c, "other", "ok") /\ d.req /\ p.d.req = FALSE /\ p.add = FALSE
  <2>1. list' = list
    BY <1>6, <1>12
  <2>2. p.c \in Connection /\ p.c.st = "gone" /\ GoodLog(p.c, mgr)
    BY <1>3, <1>9, <1>12, FailLog
  <2>3. GoodLinks(p.c, p.d, Conn(k) \in Listed, Dns(k) \in Listed)
    BY <1>4, <1>5, <1>9, <1>12, <2>2 DEF GoodLinks, Alike
  <2> QED BY <1>2, <1>4, <1>5, <1>6, <1>7, <1>8, <2>1, <2>2, <2>3, PairStep DEF Good
<1> QED BY <1>5, <1>10, <1>11, <1>12

(* Each of the three things that can happen to a connection that is        *)
(* handled tells its handler what it should.                               *)
HandledWell(c, e, m) ==
  /\ e \in Connection /\ GoodLog(e, m) /\ e.asked = c.asked
  /\ e.st = c.st \/ (c.st = "connecting" /\ e.st = "up")

LEMMA HandleConnOutcome ==
  ASSUME NEW k \in Names, cl[k] \in Connection, Alike(cl[k]), GoodLog(cl[k], mgr),
         NEW ok \in BOOLEAN, NEW orderly \in BOOLEAN
  PROVE  HandledWell(cl[k], HandleConn(k, ok, orderly), mgr)
<1> DEFINE x == Conn(k)
           c == cl[k]
           d == Connected(c, x \in ready.w, ok)
           e == StreamEnds(d, x \in ready.r)
           due == x \in ready.due /\ ~(IF orderly THEN d.close ELSE e.close)
           f == Rang(e, due)
<1>1. d \in Connection /\ Alike(d) /\ GoodLog(d, mgr) /\ d.asked = c.asked
      /\ (d.st = c.st \/ (c.st = "connecting" /\ d.st = "up"))
  <2>1. CASE c.st = "connecting" /\ x \in ready.w
    <3> DEFINE what == IF ok THEN "CONNECT" ELSE "FAILED"
               shut == c.close \/ ~ok
    <3>1. what \in Events \ {"CLOSE", "TIMER"} /\ c.log \in Seq(Events)
      BY DEF Events, Connection
    <3>2. d = [c EXCEPT !.st = "up", !.close = shut, !.log = Append(c.log, what)]
      BY <2>1 DEF Connected
    <3>3. Append(c.log, what) \in Seq(Events) /\ shut \in BOOLEAN
      BY <3>1 DEF Connection
    <3> HIDE DEF what, d, shut
    <3>4. d \in Connection /\ d.st = "up" /\ d.asked = c.asked /\ d.log = Append(c.log, what)
      BY <3>2, <3>3 DEF Connection
    <3>5. GoodLog(d, mgr)
      BY <2>1, <3>1, <3>4, TellLog
    <3> QED BY <2>1, <3>4, <3>5 DEF Alike
  <2>2. CASE ~(c.st = "connecting" /\ x \in ready.w)
    BY <2>2 DEF Connected
  <2> QED BY <2>1, <2>2
<1> HIDE DEF d
<1>2. e \in Connection /\ Alike(e) /\ GoodLog(e, mgr) /\ e.asked = d.asked /\ e.st = d.st
  <2>1. CASE d.st = "up" /\ x \in ready.r
    <3>1. e = [d EXCEPT !.close = TRUE]
      BY <2>1 DEF StreamEnds
    <3>2. e \in Connection /\ e.st = d.st /\ e.log = d.log /\ e.asked = d.asked
      BY <1>1, <3>1 DEF Connection
    <3> HIDE DEF e
    <3> QED BY <1>1, <2>1, <3>2 DEF GoodLog, Alike
  <2>2. CASE ~(d.st = "up" /\ x \in ready.r)
    BY <1>1, <2>2 DEF StreamEnds
  <2> QED BY <2>1, <2>2
<1> HIDE DEF e
<1>3. f \in Connection /\ GoodLog(f, mgr) /\ f.asked = e.asked /\ f.st = e.st
  <2>1. CASE due
    <3>1. f = [e EXCEPT !.timer = NoTimer, !.log = Append(e.log, "TIMER")]
      BY <2>1 DEF Rang
    <3>2. e.log \in Seq(Events) /\ "TIMER" \in Events \ {"CLOSE"}
      BY <1>2 DEF Connection, Events
    <3>3. Append(e.log, "TIMER") \in Seq(Events)
      BY <3>2
    <3>4. /\ f \in Connection /\ f.st = e.st /\ f.close = e.close /\ f.asked = e.asked
          /\ f.log = Append(e.log, "TIMER")
      BY <1>2, <3>1, <3>3, Timers DEF Connection
    <3> HIDE DEF f
    <3>5. e.st \in {"resolving", "connecting", "up"}
      BY <1>2 DEF Alike
    <3> QED BY <1>2, <3>2, <3>4, <3>5, TellLog
  <2>2. CASE ~due
    BY <1>2, <2>2 DEF Rang
  <2> QED BY <2>1, <2>2
<1>4. HandleConn(k, ok, orderly) = f
  BY DEF HandleConn, e, d
<1> HIDE DEF f, c
<1> QED BY <1>1, <1>2, <1>3, <1>4 DEF HandledWell, c

LEMMA HandlesConnStep ==
  ASSUME PairInv, NEW k \in Names, HandlesConn(k)
  PROVE  PairInv'
<1>1. PICK ok, orderly \in BOOLEAN : cl' = [cl EXCEPT ![k] = HandleConn(k, ok, orderly)]
  BY DEF HandlesConn
<1> DEFINE e == HandleConn(k, ok, orderly)
<1>2. /\ phase = "handle" /\ UNCHANGED <<dns, list, phase, mgr>>
      /\ cursor = Conn(k) /\ cursor' = NextOf(Conn(k))
  BY DEF HandlesConn
<1>3. /\ cl[k] \in Connection /\ dns[k] \in Resolver
      /\ GoodLinks(cl[k], dns[k], Conn(k) \in Listed, Dns(k) \in Listed) /\ GoodLog(cl[k], mgr)
  BY PairOf DEF Good
<1>4. Alike(cl[k]) /\ TypeOK /\ cursor' \in Listed \cup {End}
  BY <1>2, AtConnection
<1>5. HandledWell(cl[k], e, mgr)
  BY <1>3, <1>4, HandleConnOutcome
<1>6. dns' = [dns EXCEPT ![k] = dns[k]] /\ cl[k].st # "new"
  BY <1>2, <1>4, SameResolver DEF Alike
<1> HIDE DEF e
<1> QED BY <1>1, <1>2, <1>3, <1>4, <1>5, <1>6, QuietStep DEF HandledWell, e

LEMMA SweepsDnsStep ==
  ASSUME PairInv, NEW k \in Names, SweepsDns(k)
  PROVE  PairInv'
<1> DEFINE c == cl[k]
           d == dns[k]
           p == EhClose(c, d)
<1>1. /\ phase \in {"sweep", "free"} /\ phase' = phase /\ mgr' = mgr /\ cursor = Dns(k)
      /\ cursor' = NextOf(Dns(k))
  BY DEF SweepsDns
<1>2. /\ c \in Connection /\ d \in Resolver /\ Listed = InSeq(list)
      /\ GoodLinks(c, d, Conn(k) \in Listed, Dns(k) \in Listed) /\ GoodLog(c, mgr)
  BY PairOf DEF Good
<1>3. /\ Dns(k) \in Listed /\ Alike(d) /\ TypeOK /\ ListOK
      /\ cursor' \in (Listed \ {Dns(k)}) \cup {End}
  BY <1>1, AtResolver
<1>4. CASE Closes(d.close)
  <2>1. cl' = [cl EXCEPT ![k] = p.c] /\ dns' = [dns EXCEPT ![k] = p.d] /\ list' = Without(Dns(k))
    BY <1>4 DEF SweepsDns
  <2>2. /\ list' \in Seq(Things) /\ NoTwice(list') /\ InSeq(list') = Listed \ {Dns(k)}
        /\ Dns(k) = FirstOf(list) => cursor' = FirstOf(list')
    BY <1>1, <1>3, <2>1, WithoutLemma
  <2> DEFINE f == [NoDns EXCEPT !.st = "closed"]
             z == IF d.req THEN resolve_cb(c, "none", d.err) ELSE c
  <2>3. p.c = z /\ p.d = f
    BY DEF EhClose, Put
  <2>4. f \in Resolver /\ f.st = "closed" /\ f.req = FALSE
    <3>1. NoDns \in Resolver /\ NoDns.req = FALSE
      BY Timers DEF NoDns, Resolver
    <3> QED BY <3>1 DEF Resolver
  <2>5. z \in Connection /\ GoodLog(z, mgr) /\ z.st # "resolving"
        /\ (z = c \/ (z.st = "gone" /\ Conn(k) \notin Listed))
    <3>1. CASE d.req
      <4>1. c.st = "resolving" /\ Conn(k) \notin Listed
        BY <1>2, <3>1 DEF GoodLinks
      <4>2. z = resolve_cb(c, "none", d.err)
        BY <3>1
      <4>3. z \in Connection /\ z.st = "gone" /\ GoodLog(z, mgr)
        BY <1>2, <4>1, <4>2, FailLog
      <4> QED BY <4>1, <4>3
    <3>2. CASE ~d.req
      BY <1>2, <3>2 DEF GoodLinks
    <3> QED BY <3>1, <3>2
  <2>6. cl' = [cl EXCEPT ![k] = z] /\ dns' = [dns EXCEPT ![k] = f]
    BY <2>1, <2>3
  <2>7. c.st # "new"
    BY <1>2, <1>3 DEF GoodLinks, Alike
  <2>8. Conn(k) # Dns(k)
    BY ThingsDiffer
  <2> HIDE DEF f, z, c, d, p
  <2>9. GoodLinks(z, f, Conn(k) \in InSeq(list'), Dns(k) \in InSeq(list'))
    <3>1. /\ ~ Alike(f) /\ Dns(k) \notin InSeq(list')
          /\ Conn(k) \in InSeq(list') <=> Conn(k) \in Listed
      BY <2>2, <2>4, <2>8 DEF Alike
    <3>2. z.st # "new" /\ (Alike(z) <=> Conn(k) \in Listed)
      BY <1>2, <2>5, <2>7 DEF GoodLinks, Alike
    <3> QED BY <2>4, <2>5, <3>1, <3>2 DEF GoodLinks
  <2>10. InSeq(list') \ {Conn(k), Dns(k)} = Listed \ {Conn(k), Dns(k)} /\ cursor' \in InSeq(list') \cup {End}
    BY <1>3, <2>2
  <2>11. Freeing'
    <3>1. mgr # "freed" /\ (phase = "free" => mgr = "freeing" /\ cursor = FirstOf(list))
      BY <1>1 DEF PairInv, Freeing
    <3> QED BY <1>1, <2>2, <3>1 DEF Freeing, FirstOf
  <2>12. phase' \in {"idle", "handle", "sweep", "free"}
    BY <1>1
  <2> QED
    BY <1>1, <2>2, <2>4, <2>5, <2>6, <2>9, <2>10, <2>11, <2>12, PairStep DEF Good
<1>5. CASE ~Closes(d.close)
  <2>1. UNCHANGED <<cl, dns, list>> /\ phase = "sweep"
    BY <1>1, <1>5 DEF SweepsDns, Closes
  <2>2. cl' = [cl EXCEPT ![k] = c] /\ dns' = [dns EXCEPT ![k] = d] /\ c.st # "new"
    BY <1>2, <1>3, <2>1, SameResolver DEF GoodLinks, Alike
  <2> HIDE DEF c, d
  <2> QED BY <1>1, <1>2, <1>3, <2>1, <2>2, QuietStep DEF c, d
<1> QED BY <1>4, <1>5

LEMMA SweepsConnStep ==
  ASSUME PairInv, NEW k \in Names, SweepsConn(k)
  PROVE  PairInv'
<1> DEFINE c == cl[k]
           d == dns[k]
<1>1. /\ phase \in {"sweep", "free"} /\ phase' = phase /\ mgr' = mgr /\ cursor = Conn(k)
      /\ cursor' = NextOf(Conn(k)) /\ dns' = dns
  BY DEF SweepsConn
<1>2. /\ c \in Connection /\ d \in Resolver /\ Listed = InSeq(list)
      /\ GoodLinks(c, d, Conn(k) \in Listed, Dns(k) \in Listed) /\ GoodLog(c, mgr)
  BY PairOf DEF Good
<1>3. /\ Conn(k) \in Listed /\ Alike(c) /\ TypeOK /\ ListOK
      /\ cursor' \in (Listed \ {Conn(k)}) \cup {End}
  BY <1>1, AtConnection
<1>4. dns' = [dns EXCEPT ![k] = d] /\ cl = [cl EXCEPT ![k] = c]
  BY <1>1, <1>3, SameResolver
<1>5. mgr # "freed" /\ (phase = "free" => mgr = "freeing" /\ cursor = FirstOf(list))
  BY <1>1 DEF PairInv, Freeing
<1>6. CASE Closes(c.close)
  <2> DEFINE e == [c EXCEPT !.st = "gone", !.timer = NoTimer, !.close = FALSE, !.log = Append(c.log, "CLOSE")]
  <2>1. cl' = [cl EXCEPT ![k] = e] /\ list' = Without(Conn(k))
    BY <1>3, <1>6 DEF SweepsConn, TypeOK
  <2>2. /\ list' \in Seq(Things) /\ NoTwice(list') /\ InSeq(list') = Listed \ {Conn(k)}
        /\ Conn(k) = FirstOf(list) => cursor' = FirstOf(list')
    BY <1>1, <1>3, <2>1, WithoutLemma
  <2>3. c.log \in Seq(Events) /\ "CLOSE" \in Events
    BY <1>2 DEF Connection, Events
  <2>4. Append(c.log, "CLOSE") \in Seq(Events)
    BY <2>3
  <2>5. /\ e \in Connection /\ e.st = "gone" /\ e.asked = c.asked /\ e.log = Append(c.log, "CLOSE")
    BY <1>2, <2>4, Timers DEF Connection
  <2>6. c.st \in {"resolving", "connecting", "up"} /\ (c.st = "up" \/ c.close \/ mgr # "up")
    BY <1>3, <1>5, <1>6 DEF Alike, Closes
  <2> HIDE DEF e, c, d
  <2>7. GoodLog(e, mgr)
    BY <1>2, <2>5, <2>6, CloseLog
  <2>8. Conn(k) # Dns(k)
    BY ThingsDiffer
  <2>9. GoodLinks(e, d, Conn(k) \in InSeq(list'), Dns(k) \in InSeq(list'))
    BY <1>2, <1>3, <2>2, <2>5, <2>8 DEF GoodLinks, Alike
  <2>10. InSeq(list') \ {Conn(k), Dns(k)} = Listed \ {Conn(k), Dns(k)} /\ cursor' \in InSeq(list') \cup {End}
    BY <1>3, <2>2
  <2>11. Freeing'
    BY <1>1, <1>5, <2>2 DEF Freeing, FirstOf
  <2>12. phase' \in {"idle", "handle", "sweep", "free"}
    BY <1>1
  <2> QED
    BY <1>1, <1>2, <1>4, <2>1, <2>2, <2>5, <2>7, <2>9, <2>10, <2>11, <2>12, PairStep DEF Good
<1>7. CASE ~Closes(c.close)
  <2>1. UNCHANGED <<cl, list>> /\ phase = "sweep"
    BY <1>1, <1>7 DEF SweepsConn, Closes
  <2>2. cl' = [cl EXCEPT ![k] = c] /\ c.st # "new"
    BY <1>3, <1>4, <2>1 DEF Alike
  <2> HIDE DEF c, d
  <2> QED BY <1>1, <1>2, <1>3, <1>4, <2>1, <2>2, QuietStep DEF c, d
<1> QED BY <1>6, <1>7

-----------------------------------------------------------------------------
LEMMA PairInvInit == Init => PairInv
<1> SUFFICES ASSUME Init PROVE PairInv
  OBVIOUS
<1>1. NewConn \in Connection /\ NoDns \in Resolver
  BY Timers DEF NewConn, NoDns, Connection, Resolver
<1>2. TypeOK
  BY <1>1 DEF Init, TypeOK
<1>3. Listed = {} /\ ListOK
  BY DEF Init, Listed, ListOK
<1>4. AllGood
  <2> SUFFICES ASSUME NEW k \in Names
               PROVE  Good(cl[k], dns[k], Conn(k) \in Listed, Dns(k) \in Listed, mgr)
    BY DEF AllGood
  <2>1. cl[k] = NewConn /\ dns[k] = NoDns /\ mgr = "up"
    BY DEF Init
  <2>2. GoodLinks(cl[k], dns[k], Conn(k) \in Listed, Dns(k) \in Listed)
    BY <1>3, <2>1 DEF GoodLinks, Alike, NewConn, NoDns
  <2>3. GoodLog(cl[k], mgr)
    BY <2>1 DEF GoodLog, Alike, NewConn, Outcomes
  <2> QED BY <2>2, <2>3 DEF Good
<1>5. Freeing
  BY DEF Init, Freeing
<1> QED BY <1>2, <1>3, <1>4, <1>5 DEF PairInv

LEMMA PairInvNext == PairInv /\ [Next]_vars => PairInv'
<1> SUFFICES ASSUME PairInv, [Next]_vars PROVE PairInv'
  OBVIOUS
<1>1. ASSUME NEW k \in Names, mg_connect_opt(k) PROVE PairInv'
  BY <1>1, ConnectStep
<1>2. ASSUME NEW k \in Names, AskClose(k) \/ \E t \in 1..MaxTimer : mg_set_timer(k, t) PROVE PairInv'
  BY <1>2, ProgramStep
<1>3. ASSUME Select \/ Handled \/ Swept \/ mg_mgr_free PROVE PairInv'
  BY <1>3, LoopStep
<1>4. ASSUME NEW k \in Names, HandlesDns(k) \/ HandlesConn(k) \/ SweepsDns(k) \/ SweepsConn(k) PROVE PairInv'
  BY <1>4, HandlesDnsStep, HandlesConnStep, SweepsDnsStep, SweepsConnStep
<1>5. ASSUME Tick PROVE PairInv'
  BY <1>5, TickStep
<1>6. ASSUME NEW k \in Names, NEW a \in Answers, Answer(k, a) PROVE PairInv'
  BY <1>6, AnswerStep
<1>7. ASSUME UNCHANGED vars PROVE PairInv'
  BY <1>7 DEF vars, pollVars, PairInv, TypeOK, ListOK, Freeing, AllGood, Listed, FirstOf
<1> QED BY <1>1, <1>2, <1>3, <1>4, <1>5, <1>6, <1>7 DEF Next, Program, mg_mgr_poll

(* The invariant, for any connections, limits and name server: the types,  *)
(* the list, and what each connection, its resolver and its handler have   *)
(* seen of each other (mongoose.c, mg_connect_opt to mg_mgr_free).         *)
THEOREM ClientInvHolds == Spec => []ClientInv
<1>1. Spec => []PairInv
  BY PairInvInit, PairInvNext, PTL DEF Spec
<1> QED BY <1>1, PairInvIsClientInv, PTL

(* resolve_cb, mg_set_timer and mg_resolve_async_eh never follow a pointer *)
(* to a connection or a request that is gone.                              *)
THEOREM ResolverKnowsItsOwnHolds == Spec => []ResolverKnowsItsOwn
<1>1. ClientInv => ResolverKnowsItsOwn
  BY DEF ClientInv
<1> QED BY <1>1, ClientInvHolds, PTL

(* A handler is told the outcome at most once and the end exactly once,    *)
(* last, and no connection outlives mg_mgr_free.                           *)
THEOREM EventsInOrderHolds == Spec => []EventsInOrder
<1>1. ClientInv => EventsInOrder
  BY DEF ClientInv
<1> QED BY <1>1, ClientInvHolds, PTL
=============================================================================
