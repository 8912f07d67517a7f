------------------------------- MODULE Codecs --------------------------------
(***************************************************************************)
(* The conversions of the web server's library that work on bytes          *)
(* (mongoose.c): base64 and basic authentication, url encoding and form    *)
(* variables, the feeding of the hash functions, and c_vsnprintf.  Bytes   *)
(* are their numbers.                                                      *)
(***************************************************************************)
EXTENDS Integers, Sequences, SequencesExt

CONSTANTS
  Block,      (* bytes in a block of the hash functions, 64 in the code    *)
  LenField,   (* bytes of the length in the last block, 8 in the code      *)
  DigestLen   (* bytes of a digest, 20 in the code                         *)

ASSUME BlockAssumption ==
  /\ Block \in Nat /\ LenField \in 1..(Block - 1) /\ DigestLen \in 1..Block

-----------------------------------------------------------------------------
(* base64.                                                                 *)
cs_base64_emit_code(v) ==
  CASE v < 26 -> v + 65
    [] v >= 26 /\ v < 52 -> v - 26 + 97
    [] v >= 52 /\ v < 62 -> v - 52 + 48
    [] OTHER -> IF v = 62 THEN 43 ELSE 47

Pad == 61

cs_base64_emit_chunk(chunk, size) ==
  LET code(i) ==
        cs_base64_emit_code(CASE i = 1 -> chunk[1] \div 4
                              [] i = 2 -> (chunk[1] % 4) * 16 + chunk[2] \div 16
                              [] i = 3 -> (chunk[2] % 16) * 4 + chunk[3] \div 64
                              [] OTHER -> chunk[3] % 64)
  IN  [i \in 1..(size + 1) |-> code(i)]

cs_base64_init == [chunk |-> <<>>, out |-> <<>>]

cs_base64_update(ctx, bytes) ==
  LET step(c, b) ==
        LET chunk == Append(c.chunk, b)
        IN  IF Len(chunk) < 3 THEN [c EXCEPT !.chunk = chunk]
            ELSE [chunk |-> <<>>, out |-> c.out \o cs_base64_emit_chunk(chunk, 3)]
  IN  FoldLeft(step, ctx, bytes)

cs_base64_finish(ctx) ==
  LET n == Len(ctx.chunk)
  IN  IF n = 0 THEN ctx.out
      ELSE ctx.out \o cs_base64_emit_chunk(ctx.chunk \o <<0, 0>>, n) \o [i \in 1..(3 - n) |-> Pad]

(* The other encoder, which has all of its input.                          *)
cs_base64_encode(src) ==
  LET n == Len(src)
      at(i) == IF i > n THEN 0 ELSE src[i]
      group(k) ==
        LET i == 3 * k - 2
        IN  cs_base64_emit_chunk(<<src[i], at(i + 1), at(i + 2)>>,
                                 IF i + 2 <= n THEN 3 ELSE n - i + 1)
      codes == FlattenSeq([k \in 1..((n + 2) \div 3) |-> group(k)])
  IN  codes \o [i \in 1..((4 - (Len(codes) % 4)) % 4) |-> Pad]

from_b64(byte) ==
  LET c == byte % 128
  IN  CASE c \in 65..90 -> c - 65
        [] c \in 97..122 -> c - 97 + 26
        [] c \in 48..57 -> c - 48 + 52
        [] c = 43 -> 62 [] c = 47 -> 63 [] c = Pad -> 200
        [] OTHER -> 255

(* Mutant: the bits of a byte that spans two codes are not masked.         *)
DecodeGroupUnmasked(a, b, c, d) == <<a * 4 + b \div 16, (b * 16 + c \div 4) % 128, (c * 64 + d) % 256>>

DecodeGroup(a, b, c, d) == <<a * 4 + b \div 16, (b * 16 + c \div 4) % 256, (c * 64 + d) % 256>>

(* cs_base64_decode of s from i on: groups of four, until one that is cut  *)
(* off, holds another character, or is padded.                             *)
RECURSIVE cs_base64_decode(_, _)
cs_base64_decode(s, i) ==
  IF i + 3 > Len(s) \/ \E j \in i..(i + 3) : from_b64(s[j]) = 255 THEN <<>>
  ELSE LET a == from_b64(s[i])  b == from_b64(s[i + 1])
           c == from_b64(s[i + 2])  d == from_b64(s[i + 3])
           bytes == DecodeGroup(a, b, c, d)
       IN  CASE a = 200 \/ b = 200 -> <<>>
             [] c = 200 -> <<bytes[1]>>
             [] d = 200 -> <<bytes[1], bytes[2]>>
             [] OTHER -> bytes \o cs_base64_decode(s, i + 4)

Colon == 58

(* mg_basic_auth_header, without the words around the code.                *)
mg_basic_auth_header(user, pass) ==
  LET ctx == cs_base64_update(cs_base64_init, user)
  IN  cs_base64_finish(IF pass = <<>> THEN ctx
                       ELSE cs_base64_update(cs_base64_update(ctx, <<Colon>>), pass))

(* mg_parse_http_basic_auth, of a value that is followed by the bytes rest.*)
(* The decoder is told the length of the header with its first word, and   *)
(* may read six bytes behind it.  sscanf then reads up to a colon, and     *)
(* from there to a newline.                                                *)
Unset == <<-1>>
Newline == 10
UpTo(s, c) ==
  LET at == {i \in 1..Len(s) : s[i] = c}
  IN  IF at = {} THEN s ELSE SubSeq(s, 1, (CHOOSE i \in at : \A j \in at : i <= j) - 1)
mg_parse_http_basic_auth(value, rest) ==
  LET s == cs_base64_decode(value \o SubSeq(rest, 1, 6), 1)
      user == UpTo(s, Colon)
      pass == UpTo(SubSeq(s, Len(user) + 2, Len(s)), Newline)
  IN  IF s # <<>> /\ user = <<>> THEN [ok |-> FALSE, user |-> Unset, pass |-> Unset]
      ELSE [ok |-> TRUE, user |-> IF s = <<>> THEN Unset ELSE user,
            pass |-> IF pass = <<>> THEN Unset ELSE pass]

-----------------------------------------------------------------------------
(* url encoding.                                                           *)
Percent == 37
Plus == 43
Amp == 38
Equals == 61
IsDigit(c) == c \in 48..57
Lower(c) == IF c \in 65..90 THEN c + 32 ELSE c
IsAlnum(c) == IsDigit(c) \/ Lower(c) \in 97..122
IsXDigit(c) == IsDigit(c) \/ Lower(c) \in 97..102
HEXTOI(c) == IF IsDigit(c) THEN c - 48 ELSE Lower(c) - 87
HexDigit(n) == IF n < 10 THEN n + 48 ELSE n + 87

(* NUL is found in dont_escape, as the byte that ends it.                  *)
DontEscape == {0, 46, 95, 45, 36, 44, 59, 126, 40, 41, 47}

mg_url_encode(src) ==
  FlattenSeq([i \in 1..Len(src) |->
    IF IsAlnum(src[i]) \/ src[i] \in DontEscape THEN <<src[i]>>
    ELSE <<Percent, HexDigit(src[i] \div 16), HexDigit(src[i] % 16)>>])

Failed == <<-1>>

(* mg_url_decode: the text, or Failed for a code that is no code and for a *)
(* text that does not fit in size bytes.                                   *)
RECURSIVE UrlDecodeFrom(_, _, _, _, _)
UrlDecodeFrom(src, i, dst, size, form) ==
  IF i > Len(src) THEN dst
  ELSE IF Len(dst) >= size - 1 THEN Failed
  ELSE IF src[i] = Percent
  THEN IF i + 2 <= Len(src) /\ IsXDigit(src[i + 1]) /\ IsXDigit(src[i + 2])
       THEN UrlDecodeFrom(src, i + 3, Append(dst, HEXTOI(src[i + 1]) * 16 + HEXTOI(src[i + 2])),
                          size, form)
       ELSE Failed
  ELSE UrlDecodeFrom(src, i + 1, Append(dst, IF form /\ src[i] = Plus THEN 32 ELSE src[i]), size, form)
mg_url_decode(src, size, form) == UrlDecodeFrom(src, 1, <<>>, size, form)

StartsVar(buf, i) == i = 1 \/ buf[i - 1] = Amp

(* mg_get_http_var: the value of the first variable of that name, whatever *)
(* its case, decoded; Failed stands for the codes of an error.             *)
mg_get_http_var(buf, name, size) ==
  LET n == Len(name)
      at == {i \in 1..(Len(buf) - n) :
               /\ StartsVar(buf, i) /\ buf[i + n] = Equals
               /\ \A j \in 1..n : Lower(buf[i + j - 1]) = Lower(name[j])}
      first == CHOOSE i \in at : \A j \in at : i <= j
  IN  IF size = 0 \/ at = {} THEN Failed
      ELSE mg_url_decode(UpTo(SubSeq(buf, first + n + 1, Len(buf)), Amp), size, TRUE)

cs_to_hex(bytes) ==
  FlattenSeq([i \in 1..Len(bytes) |-> <<HexDigit(bytes[i] \div 16), HexDigit(bytes[i] % 16)>>])
cs_from_hex(s) ==
  [i \in 1..(Len(s) \div 2) |-> HEXTOI(s[2 * i - 1]) * 16 + HEXTOI(s[2 * i])]

-----------------------------------------------------------------------------
(* The hash functions: what they hash is the sequence of blocks that are   *)
(* transformed.  A context counts the bytes it has been fed and buffers    *)
(* those of an unfinished block; the buffer keeps what it held before.     *)
Stale == -1
NewHash == [n |-> 0, in |-> [i \in 1..Block |-> Stale], blocks |-> <<>>]
Zeros(n) == [i \in 1..n |-> 0]
Mark == 128   (* 0x80, the byte that ends the message                       *)

(* The bytes of the length; the count as a whole, in the last of them.     *)
Length(n) == [i \in 1..LenField |-> IF i = LenField THEN n ELSE 0]

(* memcpy(&in[at], bytes, ...), at counted from 0.                          *)
memcpy(in, at, bytes) ==
  [i \in 1..Block |-> IF i > at /\ i <= at + Len(bytes) THEN bytes[i - at] ELSE in[i]]

Transform(ctx, block) == [ctx EXCEPT !.blocks = Append(@, block)]

(* The whole blocks at the head of the data are transformed, the rest is   *)
(* left for the buffer.                                                    *)
RECURSIVE WholeBlocks(_, _)
WholeBlocks(ctx, data) ==
  IF Len(data) < Block THEN [ctx EXCEPT !.in = memcpy(@, 0, data)]
  ELSE WholeBlocks(Transform([ctx EXCEPT !.in = SubSeq(data, 1, Block)], SubSeq(data, 1, Block)),
                   SubSeq(data, Block + 1, Len(data)))

cs_md5_update(ctx, data) ==
  LET t == ctx.n % Block
      fed == [ctx EXCEPT !.n = @ + Len(data)]
      room == Block - t
      full == memcpy(ctx.in, t, SubSeq(data, 1, room))
  IN  IF t = 0 THEN WholeBlocks(fed, data)
      ELSE IF Len(data) < room THEN [fed EXCEPT !.in = memcpy(@, t, data)]
      ELSE WholeBlocks(Transform([fed EXCEPT !.in = full], full),
                       SubSeq(data, room + 1, Len(data)))

(* Mutant: a block that is full but for the length is taken to have room.  *)
NoRoomLate(left) == left < LenField - 1

(* The rest of the block, behind the mark, cannot hold the length.         *)
NoRoom(left) == left < LenField

cs_md5_final(ctx) ==
  LET count == ctx.n % Block
      left == Block - 1 - count
      marked == memcpy(ctx.in, count, <<Mark>>)
      ended == IF NoRoom(left)
               THEN LET full == memcpy(marked, count + 1, Zeros(left))
                    IN  Transform([ctx EXCEPT !.in = memcpy(full, 0, Zeros(Block - LenField))], full)
               ELSE [ctx EXCEPT !.in = memcpy(marked, count + 1, Zeros(left - LenField))]
  IN  Transform(ended, memcpy(ended.in, Block - LenField, Length(ctx.n))).blocks

cs_sha1_update(ctx, data) ==
  LET j == ctx.n % Block
      fed == [ctx EXCEPT !.n = @ + Len(data)]
      i == Block - j
      full == memcpy(ctx.in, j, SubSeq(data, 1, i))
  IN  IF j + Len(data) > Block - 1
      THEN LET c == Transform([fed EXCEPT !.in = full], full)
               more == (Len(data) - i) \div Block
               at(k) == i + (k - 1) * Block
               whole == [k \in 1..more |-> SubSeq(data, at(k) + 1, at(k) + Block)]
           IN  [c EXCEPT !.blocks = @ \o whole,
                         !.in = memcpy(@, 0, SubSeq(data, at(more + 1) + 1, Len(data)))]
      ELSE [fed EXCEPT !.in = memcpy(@, j, data)]

(* cs_sha1_final feeds the mark, zeros and the length as if they were data.*)
RECURSIVE FeedZeros(_)
FeedZeros(ctx) ==
  IF ctx.n % Block = Block - LenField THEN ctx ELSE FeedZeros(cs_sha1_update(ctx, <<0>>))
cs_sha1_final(ctx) ==
  cs_sha1_update(FeedZeros(cs_sha1_update(ctx, <<Mark>>)), Length(ctx.n)).blocks

(* A digest, as bytes that differ when the blocks do.                      *)
Digest(blocks) == [i \in 1..DigestLen |-> <<"digest", i, blocks>>]
sha1(bytes) == Digest(cs_sha1_final(cs_sha1_update(NewHash, bytes)))

(* cs_hmac_sha1.                                                           *)
Xored(key, with) ==
  [i \in 1..Block |-> <<with, IF i <= Len(key) THEN key[i] ELSE 0>>]
cs_hmac_sha1(key, data) ==
  LET k == IF Len(key) > Block THEN sha1(key) ELSE key
      half(with, text) ==
        Digest(cs_sha1_final(cs_sha1_update(cs_sha1_update(NewHash, Xored(k, with)), text)))
  IN  half("5c", half("36", data))

-----------------------------------------------------------------------------
(* c_vsnprintf.  A format is a sequence of characters to be copied and of  *)
(* conversions [conv, zero, width, prec]; the arguments stand in them.     *)
(* What has been written is a function from places in the buffer; size is  *)
(* the size that the writer believes in, at its own offset.                *)
RECURSIVE Digits(_, _)
Digits(n, base) ==
  (IF n < base THEN <<>> ELSE Digits(n \div base, base)) \o <<HexDigit(n % base)>>

Spaces(n) == [i \in 1..n |-> 32]

(* The digits of an argument: %x takes it for an unsigned, 32 bits in two's*)
(* complement, which makes eight digits of a negative one.                 *)
DigitsOf(c) ==
  IF c.conv = "d" THEN Digits(IF c.arg < 0 THEN -c.arg ELSE c.arg, 10)
  ELSE IF c.arg < 0 THEN [k \in 1..8 |-> HexDigit((c.arg \div 16^(8 - k)) % 16)]
  ELSE Digits(c.arg, 16)

(* What c_itoa writes: padded to the width with zeros, the sign in front.  *)
Number(c) ==
  LET d == DigitsOf(c)
      pad == IF c.zero /\ c.width > Len(d) THEN Zeros(c.width - Len(d)) ELSE <<>>
  IN  (IF c.conv = "d" /\ c.arg < 0 THEN <<45>> ELSE <<>>) \o [i \in 1..Len(pad) |-> 48] \o d

(* What %s writes: the width is filled up as if the text were as long as   *)
(* the precision lets it be, and empty without one.                        *)
StringText(c) ==
  LET s == IF c.prec <= 0 \/ c.prec >= Len(c.arg) THEN c.arg ELSE SubSeq(c.arg, 1, c.prec)
      counted == IF c.prec > 0 THEN Len(s) ELSE 0
  IN  (IF c.width > counted THEN Spaces(c.width - counted) ELSE <<>>) \o s

(* C_SNPRINTF_APPEND_CHAR, for each of chars, at offset from on in a       *)
(* buffer that is taken to end after size more places.                     *)
AppendChars(out, from, size, chars) ==
  [out EXCEPT !.i = @ + Len(chars),
              !.written = [p \in DOMAIN @ \cup {from + k : k \in 0..(Len(chars) - 1) \cap 0..(size - 1)} |->
                             IF p \in DOMAIN @ THEN @[p] ELSE chars[p - from + 1]]]

(* The size c_itoa is given: buf_size - i, which as an int is negative     *)
(* once the output is longer than the buffer.                              *)
RoomLeft(out, size) == size - out.i

c_vsnprintf(size, format) ==
  LET step(out, c) ==
        CASE c.conv = "lit" -> AppendChars(out, out.i, size - out.i, <<c.arg>>)
          [] c.conv = "s" -> AppendChars(out, out.i, size - out.i, StringText(c))
          [] OTHER -> AppendChars(out, out.i, RoomLeft(out, size), Number(c))
      all == FoldLeft(step, [i |-> 0, written |-> <<>>], format)
      end == IF all.i < size THEN all.i ELSE size - 1
  IN  [all EXCEPT !.written = IF size > 0
                              THEN [p \in DOMAIN @ \cup {end} |-> IF p = end THEN 0 ELSE @[p]]
                              ELSE @]
=============================================================================
