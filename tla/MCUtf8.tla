------------------------------- MODULE MCUtf8 -------------------------------
(***************************************************************************)
(* tf_utf8_next against the encoder, over every buffer of up to MaxLength  *)
(* bytes on the edges of the ranges the decoder distinguishes.             *)
(***************************************************************************)
EXTENDS TFUtf8

CONSTANTS MaxLength, Edges
ASSUME EdgeAssumption == MaxLength \in Nat /\ Edges \subseteq Byte

VARIABLE buffer

BufferInit == buffer = <<>>
BufferGrows(b) == Len(buffer) < MaxLength /\ buffer' = Append(buffer, b)
BufferNext == \E b \in Edges : BufferGrows(b)
BufferSpec == BufferInit /\ [][BufferNext]_buffer

(* "to the same rules as ICU's U8_NEXT": tf_utf8_next returns a code point *)
(* just when the buffer starts with the encoding of that scalar value, and *)
(* the error just when no scalar value's encoding starts there -- for      *)
(* stray continuations, overlong forms, surrogates, values above U+10FFFF  *)
(* and sequences the end of the buffer cuts short.                         *)
DecodesExactly ==
  buffer # <<>> =>
    LET d == tf_utf8_next(buffer, 0)
        lengths == {n \in 1 .. 4 : WellFormed(buffer, 0, n)}
    IN  IF d.code_point = TF_DECODE_ERROR THEN lengths = {} /\ d.length = 1
        ELSE lengths = {d.length} /\ Encode(d.code_point) = SubSeq(buffer, 1, d.length)
=============================================================================
