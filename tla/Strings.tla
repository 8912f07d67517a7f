------------------------------- MODULE Strings -------------------------------
(***************************************************************************)
(* The string helpers of the runtime (runtime/src/string_ops.c), the       *)
(* operators made of them, and the texts that the modules stdio and xml    *)
(* write.  A text is a sequence of characters, each a one-character        *)
(* string; NULL is not a text.                                             *)
(***************************************************************************)
EXTENDS Integers, Sequences, SequencesExt

Null == <<"NULL">>

(* The place of the first instance of a in s, 0 if there is none.          *)
strstr(s, a) ==
  LET at == {i \in 1..(Len(s) - Len(a) + 1) : SubSeq(s, i, i + Len(a) - 1) = a}
  IN  IF at = {} THEN 0 ELSE CHOOSE i \in at : \A j \in at : i <= j

safe_strcat(a, b) == IF a = Null THEN b ELSE IF b = Null THEN a ELSE a \o b

join_str(l, sep) ==
  FoldLeft(LAMBDA r, x : safe_strcat(IF r = Null THEN r ELSE safe_strcat(r, sep), x), Null, l)

(* tail_substr ends s at the first separator and returns what follows.     *)
tail_substr(s, sep) ==
  LET at == strstr(s, sep)
  IN  IF at = 0 THEN [head |-> s, tail |-> Null]
      ELSE [head |-> SubSeq(s, 1, at - 1), tail |-> SubSeq(s, at + Len(sep), Len(s))]

(* The loop of split_str.                                                  *)
RECURSIVE Pieces(_, _)
Pieces(s, sep) ==
  LET cut == tail_substr(s, sep)
  IN  IF cut.tail # Null THEN <<cut.head>> \o Pieces(cut.tail, sep)
      ELSE IF s = <<>> THEN <<>> ELSE <<s>>

(* Mutant: the text behind the last separator is forgotten.                *)
SplitForgets(s, sep) == IF s = <<>> THEN <<>> ELSE Front(Pieces(s \o sep \o sep, sep))

(* split_str; the separator is not empty (an empty one is found for ever). *)
(* The list for the empty text is None, here the empty sequence.           *)
split_str(s, sep) ==
  IF s = <<>> THEN <<>>
  ELSE IF Len(s) <= Len(sep) THEN <<s>>
  ELSE Pieces(s, sep)

str_replace(s, a, b) == IF strstr(s, a) = 0 THEN s ELSE join_str(split_str(s, a), b)

(* bl_oper_startswith; bl_oper_pmatch, on a list of pairs <<prefix, value>>*)
(* returns the value of the first prefix, or None.                         *)
bl_oper_startswith(s, prefix) == strstr(s, prefix) = 1
bl_oper_pmatch(s, pairs) ==
  LET fit == {i \in 1..Len(pairs) : bl_oper_startswith(s, pairs[i][1])}
  IN  IF fit = {} THEN "None" ELSE pairs[CHOOSE i \in fit : \A j \in fit : i <= j][2]

(* unescape, from the value its uninitialised flag has.  A backslash is    *)
(* dropped and flags the next n or t, however far away; an n behind a flag *)
(* becomes a newline, a t a tab.                                           *)
unescape(s, slash0) ==
  LET step(r, c) ==
        CASE c = "\\" -> [r EXCEPT !.slash = TRUE]
          [] c = "n" /\ r.slash -> [text |-> Append(r.text, "newline"), slash |-> FALSE]
          [] c = "t" /\ r.slash -> [text |-> Append(r.text, "tab"), slash |-> FALSE]
          [] OTHER -> [r EXCEPT !.text = Append(@, c)]
  IN  FoldLeft(step, [text |-> <<>>, slash |-> slash0], s).text

(* bl_fprintf, from the value of its uninitialised flag.  Arguments are    *)
(* texts; an empty one is written as (null).  One that is missing is a     *)
(* NULL, which bl_ser_naked_sexp and bl_hexdump dereference: the process   *)
(* ends, with the text that is written so far.  %x hands over bl_hexdump's *)
(* buffer, which is never written.                                         *)
bl_fprintf(format, args, flag0) ==
  LET converted(c, v) ==
        IF c = "x" THEN <<"garbage">> ELSE IF v = <<>> THEN <<"(null)">> ELSE v
      step(r, c) ==
        IF r.crash THEN r
        ELSE CASE c = "%" /\ r.flag -> [r EXCEPT !.text = Append(@, "%"), !.flag = FALSE]
               [] c = "%" /\ ~ r.flag -> [r EXCEPT !.flag = TRUE]
               [] c \in {"s", "x"} /\ r.flag ->
                    IF r.vars = <<>> THEN [r EXCEPT !.crash = TRUE]
                    ELSE [r EXCEPT !.text = @ \o converted(c, Head(r.vars)),
                                   !.vars = Tail(@), !.flag = FALSE]
               [] OTHER -> [r EXCEPT !.text = Append(@, c)]
      end == FoldLeft(step, [text |-> <<>>, vars |-> args, flag |-> flag0, crash |-> FALSE], format)
  IN  [text |-> end.text, crash |-> end.crash]

(* completion_hook and hint_hook of the prompt (bli/src/main.c), for a line *)
(* of len characters of which word is the part from bp on.  Slots are the  *)
(* arrays of the prompt's context and of the one around it: a slot holds a *)
(* name and the docstring of its value, or Unbound.  The loops also read   *)
(* the slot behind the last, taken to be the zeroed end of the block.  A   *)
(* documented name of the outer context is hinted at by its docstring from *)
(* len on, which may lie behind its end.                                   *)
Unbound == [name |-> <<>>, doc |-> <<>>]
Offered(slots, word) ==
  SelectSeq(Append(slots, Unbound), LAMBDA s : s # Unbound /\ IsPrefix(word, s.name))
completion_hook(own, outer, word) ==
  LET found == Offered(own, word) \o Offered(outer, word)
  IN  [i \in 1..Len(found) |-> found[i].name]
HintFrom(s, i) == [text |-> SubSeq(s, i + 1, Len(s)), outside |-> i > Len(s)]
hint_hook(own, outer, word, len) ==
  LET mine == Offered(own, word)
      theirs == Offered(outer, word)
  IN  IF word = <<>> THEN <<>>
      ELSE [i \in 1..Len(mine) |-> HintFrom(mine[i].name, Len(word))]
             \o [i \in 1..Len(theirs) |->
                  IF theirs[i].doc # <<>> THEN HintFrom(theirs[i].doc, len)
                  ELSE HintFrom(theirs[i].name, Len(word))]

(* xml_gen_oper, on a tag, its attributes and the texts of its contents.   *)
(* An element with attributes and no contents is left open.                *)
xml_gen_oper(tag, attrs, contents) ==
  LET open == <<<<"open", tag, attrs>>>>
  IN  IF contents = <<>>
      THEN IF attrs = <<>> THEN <<<<"empty", tag>>>> ELSE open
      ELSE open \o FlattenSeq(contents) \o <<<<"close", tag>>>>

xml_escape(s) == str_replace(str_replace(s, <<"<">>, <<"&lt;">>), <<">">>, <<"&gt;">>)
=============================================================================
