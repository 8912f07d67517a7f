------------------------------- MODULE Uploads -------------------------------
(***************************************************************************)
(* Multipart bodies in mongoose (mg_http.c in mongoose.c): the parts are   *)
(* cut out of the stream while it arrives, handed to the handler, and      *)
(* stored by mg_file_upload_handler; mg_parse_multipart does it for a body *)
(* that is all there.  A unit is a byte, except that the text of a header  *)
(* line (without its CR LF) is one unit: the name of the part for a        *)
(* Content-Disposition, OtherHeader for another one.                       *)
(***************************************************************************)
EXTENDS Integers, Sequences, SequencesExt

CONSTANTS
  Boundary,      (* the boundary parameter of the Content-Type, in bytes   *)
  PartNames,     (* the names that Content-Disposition headers give        *)
  OtherHeader

CR == "\r"
LF == "\n"

(* Positions count from 1; 0: not there.                                   *)
c_strnstr(buf, what) ==
  LET hits == {i \in 1..(Len(buf) - Len(what) + 1) : SubSeq(buf, i, i + Len(what) - 1) = what}
  IN  IF hits = {} THEN 0 ELSE CHOOSE i \in hits : \A j \in hits : i <= j

Dropped(buf, n) == IF n <= Len(buf) THEN SubSeq(buf, n + 1, Len(buf)) ELSE buf

(* The length of the line at position at, its LF included; 0 if there is   *)
(* no LF before the end of the buffer.                                     *)
mg_get_line_len(buf, at) ==
  LET hits == {i \in at..Len(buf) : buf[i] = LF}
  IN  IF hits = {} THEN 0 ELSE (CHOOSE i \in hits : \A j \in hits : i <= j) - at + 1

-----------------------------------------------------------------------------
(* mg_http_multipart_begin: the stream as it starts.                       *)
mg_http_multipart_begin ==
  [state |-> "begin", buf |-> <<>>, prev |-> 0, name |-> "none", count |-> 0, events |-> <<>>, err |-> FALSE]

mg_http_multipart_call_handler(mp, ev, data) ==
  [mp EXCEPT !.events = Append(@, [ev |-> ev, name |-> mp.name, data |-> data, cut |-> FALSE])]

(* mg_http_multipart_finalize.                                             *)
mg_http_multipart_finalize(mp) ==
  LET ended == mg_http_multipart_call_handler(mp, "part end", <<>>)
      over == mg_http_multipart_call_handler([ended EXCEPT !.name = "none"], "request end", <<>>)
  IN  [over EXCEPT !.state = "finished"]

(* mg_http_multipart_wait_for_boundary.                                    *)
mg_http_multipart_wait_for_boundary(mp) ==
  LET at == c_strnstr(mp.buf, Boundary)
      end == at + Len(Boundary) - 1
  IN  IF Len(mp.buf) < Len(Boundary) + 2 \/ at = 0 \/ Len(mp.buf) - end < 4 THEN <<FALSE, mp>>
      ELSE IF SubSeq(mp.buf, end + 1, end + 4) = <<"-", "-", CR, LF>>
      THEN <<TRUE, [mp EXCEPT !.state = "finalize", !.buf = Dropped(@, end + 4)]>>
      ELSE <<TRUE, [mp EXCEPT !.state = "got boundary"]>>

(* mg_http_multipart_process_boundary: the headers of the part.  at is     *)
(* where the next line starts; size, what the code takes for the rest of   *)
(* the buffer, does not count down for lines other than a                  *)
(* Content-Disposition, so that a line that is not all there is looked for *)
(* behind the end of the buffer (err).                                     *)
PartHeaders(mp) ==
  LET first == c_strnstr(mp.buf, Boundary) + Len(Boundary) + 2
      again(m) == <<FALSE, [m EXCEPT !.state = "waiting for boundary"]>>
      scan[t \in (1..Len(mp.buf) + 1) \X (0..Len(mp.buf)) \X (PartNames \cup {"none"})] ==
        LET at == t[1]
            slack == t[2]
            line == mg_get_line_len(mp.buf, at)
            ended == IF mp.count # 0 THEN mg_http_multipart_call_handler(mp, "part end", <<>>) ELSE mp
            begun == mg_http_multipart_call_handler([ended EXCEPT !.name = t[3]], "part begin", <<>>)
        IN  IF line = 0 THEN again(IF slack > 0 THEN [mp EXCEPT !.err = TRUE] ELSE mp)
            ELSE IF mp.buf[at] \in PartNames THEN scan[<<at + line, slack, mp.buf[at]>>]
            ELSE IF line = 2 /\ mp.buf[at] = CR
            THEN <<TRUE, [begun EXCEPT !.buf = Dropped(@, at + 1), !.count = @ + 1,
                                       !.state = "waiting for chunk"]>>
            ELSE scan[<<at + line, slack + line, t[3]>>]
  IN  IF first > Len(mp.buf) THEN again(mp) ELSE scan[<<first, 0, "none">>]
mg_http_multipart_process_boundary(mp) == PartHeaders(mp)

(* Mutant: what was there before is passed on as soon as more is there     *)
(* than a boundary is long.                                                *)
EnoughForBoundaryOnly(mp) == Len(mp.buf) > mp.prev + Len(Boundary)

(* The bytes that were there before cannot belong to a boundary any more.  *)
Enough(mp) == Len(mp.buf) > mp.prev + Len(Boundary) + 4

(* mg_http_multipart_continue_wait_for_chunk: the CR LF and the dashes     *)
(* before the boundary are not data.                                       *)
mg_http_multipart_continue_wait_for_chunk(mp) ==
  LET at == c_strnstr(mp.buf, Boundary)
      data == mg_http_multipart_call_handler(mp, "part data", SubSeq(mp.buf, 1, at - 5))
  IN  IF Len(mp.buf) < Len(Boundary) + 6 THEN <<FALSE, mp>>
      ELSE IF at # 0
      THEN <<TRUE, [data EXCEPT !.buf = Dropped(@, at - 1), !.prev = 0, !.state = "waiting for boundary"]>>
      ELSE IF mp.prev = 0 THEN <<FALSE, [mp EXCEPT !.prev = Len(mp.buf)]>>
      ELSE IF Enough(mp) THEN <<TRUE, [mp EXCEPT !.state = "got chunk"]>>
      ELSE <<FALSE, mp>>

(* mg_http_multipart_got_chunk.                                            *)
mg_http_multipart_got_chunk(mp) ==
  LET data == mg_http_multipart_call_handler(mp, "part data", SubSeq(mp.buf, 1, mp.prev))
  IN  <<FALSE, [data EXCEPT !.buf = Dropped(@, mp.prev), !.prev = 0, !.state = "waiting for chunk"]>>

(* mg_http_multipart_continue: on, until a state has nothing to do.        *)
RECURSIVE mg_http_multipart_continue(_)
mg_http_multipart_continue(mp) ==
  LET r == CASE mp.state = "begin" -> <<TRUE, [mp EXCEPT !.state = "waiting for boundary"]>>
             [] mp.state = "waiting for boundary" -> mg_http_multipart_wait_for_boundary(mp)
             [] mp.state = "got boundary" -> mg_http_multipart_process_boundary(mp)
             [] mp.state = "waiting for chunk" -> mg_http_multipart_continue_wait_for_chunk(mp)
             [] mp.state = "got chunk" -> mg_http_multipart_got_chunk(mp)
             [] mp.state = "finalize" -> <<TRUE, mg_http_multipart_finalize(mp)>>
             [] mp.state = "finished" -> <<FALSE, [mp EXCEPT !.buf = <<>>]>>
  IN  IF r[1] /\ ~ r[2].err THEN mg_http_multipart_continue(r[2]) ELSE r[2]

(* MG_EV_CLOSE in mg_http_handler while a multipart body is under way.     *)
MultipartClosed(mp) ==
  IF mp.state = "finished" THEN mp
  ELSE [mp EXCEPT !.events = @ \o
          <<[ev |-> "part end", name |-> mp.name, data |-> <<>>, cut |-> TRUE],
            [ev |-> "request end", name |-> "none", data |-> <<>>, cut |-> TRUE]>>]

-----------------------------------------------------------------------------
(* mg_file_upload_handler on the events.  A disk has the names that        *)
(* local_name_fn refuses, those that cannot be opened, and room for space  *)
(* bytes.  now is the state of the part, kept in its user_data; the end of *)
(* a stream that was cut carries none, so that the file stays open.        *)
NoUpload == [open |-> FALSE, here |-> FALSE, data |-> <<>>]
NewUploads == [now |-> NoUpload, files |-> [n \in PartNames |-> <<>>], replies |-> <<>>, close |-> FALSE]
Used(u) == Len(u.now.data) + Len(FlattenSeq([n \in 1..Len(SetToSeq(PartNames)) |-> u.files[SetToSeq(PartNames)[n]]]))

(* fclose and remove.                                                      *)
WriteFailed(u, n) == [u EXCEPT !.now.open = FALSE, !.now.data = <<>>, !.replies = Append(@, 413)]

mg_file_upload_handler(u, e, disk) ==
  CASE e.ev = "part begin" ->
         IF e.name \in disk.refused
         THEN [u EXCEPT !.now = NoUpload, !.replies = Append(@, 403), !.close = TRUE]
         ELSE IF e.name \in disk.broken
         THEN [u EXCEPT !.now = [NoUpload EXCEPT !.here = TRUE], !.replies = Append(@, 500)]
         ELSE [u EXCEPT !.now = [open |-> TRUE, here |-> TRUE, data |-> <<>>], !.files[e.name] = <<>>]
    [] e.ev = "part data" /\ u.now.open ->
         IF Used(u) + Len(e.data) > disk.space THEN WriteFailed(u, e.name)
         ELSE [u EXCEPT !.now.data = @ \o e.data]
    [] e.ev = "part end" /\ u.now.here /\ ~ e.cut ->
         LET kept == [u EXCEPT !.files[e.name] = u.now.data, !.replies = Append(@, 200)]
         IN  [(IF u.now.open THEN kept ELSE u) EXCEPT !.now = NoUpload, !.close = TRUE]
    [] OTHER -> u

-----------------------------------------------------------------------------
(* mg_parse_multipart, for a body that is all there: the first part (its   *)
(* name and data) and the length it takes, or nothing.                     *)
mg_parse_multipart(buf) ==
  LET blank == c_strnstr(buf, <<LF, CR, LF>>)
      hl == blank + 2
      bl == mg_get_line_len(buf, 1)
      names == {i \in bl + 1..hl : buf[i] \in PartNames}
      ends == {p \in hl + 1..Len(buf) - bl + 2 : SubSeq(buf, p, p + bl - 3) = SubSeq(buf, 1, bl - 2)}
      end == CHOOSE p \in ends : \A q \in ends : p <= q
  IN  IF buf = <<>> \/ blank = 0 THEN <<>>
      ELSE IF SubSeq(buf, 1, 2) # <<"-", "-">> \/ ends = {} THEN <<>>
      ELSE <<[name |-> IF names = {} THEN "none" ELSE buf[CHOOSE i \in names : \A j \in names : i >= j],
              data |-> SubSeq(buf, hl + 1, end - 3), used |-> end - 1]>>
=============================================================================
