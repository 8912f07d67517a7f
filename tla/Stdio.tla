-------------------------------- MODULE Stdio --------------------------------
(***************************************************************************)
(* The operators of the module stdio on files and pipes                    *)
(* (stdlib/stdio/src/stdio.c).  A script of calls is folded over the state *)
(* of the C library: an argument that is a handle is given by the number   *)
(* of the call that returned it.                                           *)
(*                                                                         *)
(* A handle is the address of a FILE, given out again once it is closed; 0 *)
(* is the NULL that a failed popen returns.  Using an address that is not  *)
(* open is undefined: wild is set and nothing after it is looked at.       *)
(***************************************************************************)
EXTENDS Integers, Sequences, SequencesExt, TLC

Ptr(a) == [t |-> "ptr", a |-> a]
Error(e) == [t |-> "err", e |-> e]
NullVal == [t |-> "null"]

NewStdio(disk) == [disk |-> disk, open |-> <<>>, errno |-> "none", wild |-> FALSE, got |-> <<>>]

IsOpen(w, a) == a \in 1..Len(w.open) /\ w.open[a].kind # "free"
Returns(w, v) == [w EXCEPT !.got = Append(@, v)]
Wild(w) == [w EXCEPT !.wild = TRUE, !.got = Append(@, NullVal)]
Fails(w, errno, e) == Returns([w EXCEPT !.errno = errno], Error(e))

(* malloc: the address freed first in the list, or a new one.              *)
FreeAddress(w) ==
  LET free == {a \in 1..Len(w.open) : w.open[a].kind = "free"}
  IN  IF free = {} THEN Len(w.open) + 1 ELSE CHOOSE a \in free : \A b \in free : a <= b
Opened(w, f) ==
  LET a == FreeAddress(w)
  IN  Returns([w EXCEPT !.open = IF a > Len(@) THEN Append(@, f) ELSE [@ EXCEPT ![a] = f]], Ptr(a))

(* fopen(3) of a file that is in no directory, that may not be written, or *)
(* in a mode that is none.  Contents are written when the file is closed.  *)
bl_fopen(w, name, mode) ==
  CASE mode \notin {"r", "w", "a"} -> Fails(w, "EINVAL", "mode_error")
    [] mode = "r" /\ name \notin DOMAIN w.disk -> Fails(w, "ENOENT", "generic_error")
    [] mode # "r" /\ name = "denied" -> Fails(w, "EACCES", "perm_error")
    [] OTHER ->
         LET new == (name :> IF mode # "w" /\ name \in DOMAIN w.disk THEN w.disk[name] ELSE <<>>)
         IN  Opened([w EXCEPT !.disk = IF mode = "r" THEN @ ELSE new @@ @],
                    [kind |-> "file", name |-> name, mode |-> mode, buf |-> <<>>])

(* A handle that may be used.  Any other pointer is used as well; an error *)
(* among the arguments is the result; anything else is refused.            *)
Usable(w, v) == v.t = "ptr" /\ IsOpen(w, v.a)
Refused(w, v) ==
  CASE v.t = "err" -> Returns(w, v)
    [] v.t = "null" -> Returns(w, Error("INVALID_ARGTYPE"))
    [] v.t = "ptr" -> Wild(w)

(* What the C library does when the stream at a is closed: a file opened   *)
(* to be written is written from its start, one opened to append at its    *)
(* end, whatever others have written since.                                *)
Closed(w, a) ==
  LET f == w.open[a]
      flushed(old) == IF f.mode = "a" THEN old \o f.buf ELSE f.buf \o SubSeq(old, Len(f.buf) + 1, Len(old))
  IN  [w EXCEPT !.open[a].kind = "free",
                !.disk = IF f.kind = "file" /\ f.mode # "r" THEN [@ EXCEPT ![f.name] = flushed(@)] ELSE @]

bl_fclose(w, v) == IF Usable(w, v) THEN Returns(Closed(w, v.a), NullVal) ELSE Refused(w, v)

(* fprintf of a text that has been formatted.                              *)
WriteText(w, v, text) ==
  IF ~ Usable(w, v) THEN Refused(w, v)
  ELSE IF w.open[v.a].mode = "r" THEN Fails(w, "EBADF", "generic_error")
  ELSE Returns([w EXCEPT !.open[v.a].buf = Append(@, text)], NullVal)

(* The length is read from fix_int, which no number of the language sets:  *)
(* fgets(3) returns NULL for a buffer of no bytes and leaves errno alone.  *)
bl_fgets(w, v) ==
  IF ~ Usable(w, v) THEN Refused(w, v)
  ELSE Returns(w, Error(IF w.errno = "EBADF" THEN "bad_fd_error" ELSE "generic_error"))

(* popen and pclose look at nothing: what is no pointer is used as one.    *)
bl_popen(w, mode) ==
  IF mode \in {"r", "w"} THEN Opened(w, [kind |-> "pipe", name |-> "", mode |-> mode, buf |-> <<>>])
  ELSE Returns([w EXCEPT !.errno = "EINVAL"], Ptr(0))
bl_pclose(w, v) ==
  IF Usable(w, v) THEN Returns(Closed(w, v.a), NullVal) ELSE Wild(w)

Perform(w, c) ==
  CASE w.wild -> w
    [] c.op = "fopen" -> bl_fopen(w, c.name, c.mode)
    [] c.op = "popen" -> bl_popen(w, c.mode)
    [] c.op = "fclose" -> bl_fclose(w, w.got[c.of])
    [] c.op = "fprintf" -> WriteText(w, w.got[c.of], c.text)
    [] c.op = "fgets" -> bl_fgets(w, w.got[c.of])
    [] c.op = "pclose" -> bl_pclose(w, w.got[c.of])
=============================================================================
