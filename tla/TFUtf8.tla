------------------------------- MODULE TFUtf8 -------------------------------
(***************************************************************************)
(* tf_utf8_next of lib/src/tf_utf8.h.  A buffer is a sequence of bytes and *)
(* `at` an offset into it, counted from 0 as the code does; the result     *)
(* carries the code point and the bytes it spans.  A malformed sequence    *)
(* leaves the caller's length alone, and both callers preset it to 1.      *)
(***************************************************************************)
EXTENDS Integers, Sequences

Byte == 0 .. 255
TF_DECODE_ERROR == -1

Continues(b) == b \in 128 .. 191          \* (b & 0xC0) == 0x80

Malformed == [code_point |-> TF_DECODE_ERROR, length |-> 1]
Decoded(c, n) == [code_point |-> c, length |-> n]

(* Mutant: overlong and surrogate forms pass. *)
AnySecond(lead, b) == TRUE

(* The second byte a three- or four-byte lead cannot have, though it       *)
(* continues: E0 and F0 would be overlong, ED a surrogate, F4 too large.   *)
SecondFits(lead, b) ==
  /\ lead = 224 => b >= 160
  /\ lead = 237 => b <= 159
  /\ lead = 240 => b >= 144
  /\ lead = 244 => b <= 143

(* The leads of an n-byte character: C0 and C1 would be overlong, F5 and   *)
(* above too large.                                                        *)
Leads == <<0 .. 127, 194 .. 223, 224 .. 239, 240 .. 244>>

(* `n` bytes are readable at `at` and all but the first continue it.       *)
Available(s, at, n) ==
  /\ at + n <= Len(s)
  /\ \A k \in 2 .. n : Continues(s[at + k])

Formed(s, at, n) ==
  /\ s[at + 1] \in Leads[n]
  /\ Available(s, at, n)
  /\ n >= 3 => SecondFits(s[at + 1], s[at + 2])

(* The payload bits of an n-byte sequence, well-formed or not: the only    *)
(* value that could encode to it.                                          *)
Payload(s, at, n) ==
  LET lead    == s[at + 1]
      bits(k) == s[at + k] % 64
  IN  IF n = 1 THEN lead
      ELSE IF n = 2 THEN (lead % 32) * 64 + bits(2)
      ELSE IF n = 3 THEN (lead % 16) * 4096 + bits(2) * 64 + bits(3)
      ELSE (lead % 8) * 262144 + bits(2) * 4096 + bits(3) * 64 + bits(4)

tf_utf8_next(s, at) ==
  IF \E n \in 1 .. 4 : Formed(s, at, n)
  THEN LET n == CHOOSE n \in 1 .. 4 : Formed(s, at, n) IN Decoded(Payload(s, at, n), n)
  ELSE Malformed

-----------------------------------------------------------------------------
(* The reference: UTF-8 defined from the encoder's side.  A scalar value   *)
(* is a code point that is no surrogate, and Encode gives its one encoding.*)
MaxCodePoint == 1114111
FirstSurrogate == 55296
LastSurrogate == 57343
IsScalar(c) == c \in 0 .. MaxCodePoint /\ c \notin FirstSurrogate .. LastSurrogate

Encode(c) ==
  LET tail(unit) == 128 + ((c \div unit) % 64) IN
  IF c < 128 THEN <<c>>
  ELSE IF c < 2048 THEN <<192 + c \div 64, tail(1)>>
  ELSE IF c < 65536 THEN <<224 + c \div 4096, tail(64), tail(1)>>
  ELSE <<240 + c \div 262144, tail(4096), tail(64), tail(1)>>

(* The n bytes at `at` are the encoding of a scalar value. *)
WellFormed(s, at, n) ==
  /\ at + n <= Len(s)
  /\ IsScalar(Payload(s, at, n))
  /\ Encode(Payload(s, at, n)) = SubSeq(s, at + 1, at + n)

(* A character may start at `at`: no well-formed sequence reaches over it. *)
(* (UTF-8 is self-synchronising, so three bytes back are enough.)          *)
Boundary(s, at) ==
  \A n \in 2 .. 4 : \A back \in 1 .. n - 1 :
    at - back >= 0 => ~WellFormed(s, at - back, n)
=============================================================================
