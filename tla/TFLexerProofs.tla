---------------------------- MODULE TFLexerProofs ---------------------------
(***************************************************************************)
(* The lexer adapter keeps its lookahead and its positions true, and hands *)
(* out tokens that end where their lexer last accepted.                    *)
(*                                                                         *)
(* What is said of a position is restated here with the buffer as a        *)
(* parameter, so that it can be carried over a step.                       *)
(***************************************************************************)
EXTENDS TFLexer, TFUtf8Proofs, FiniteSetTheorems, WellFoundedInduction

Newlines(s, b) == {i \in 1 .. b : s[i] = NewLine}
LastOf(N) == IF N = {} THEN 0 ELSE CHOOSE i \in N : \A j \in N : j <= i
LineStart(s, b) == LastOf(Newlines(s, b))

(* p is a position, and a place in s. *)
Place(s, p) ==
  /\ p \in Position
  /\ p.byte <= Len(s) /\ p.row <= p.byte /\ p.column <= p.byte
  /\ p.row = Cardinality(Newlines(s, p.byte))
  /\ LineStart(s, p.byte) \in Nat /\ p.column = p.byte - LineStart(s, p.byte)
  /\ LineStart(s, p.byte) # 0 => s[LineStart(s, p.byte)] = NewLine
  /\ Boundary(s, p.byte)

Sight(s, b) == IF b >= Len(s) THEN Decoded(0, 1) ELSE tf_utf8_next(s, b)

-----------------------------------------------------------------------------
(* Places.                                                                 *)

(* A source is a buffer of bytes. *)
LEMMA SourceBytes ==
  ASSUME NEW s \in Sources
  PROVE  s \in Seq(Byte) /\ Len(s) \in Nat /\ Len(s) <= TF_NO_END /\ TF_NO_END \in Nat
  BY LexerAssumption, LenProperties

(* What Place says. *)
LEMMA Placed ==
  ASSUME NEW p
  PROVE  Place(source, p) => p \in Position /\ p.byte <= size /\ TruePosition(p)
  BY DEF Place, TruePosition, Newlines, LineStart, LastOf, size

(* A place is told by its byte. *)
LEMMA SamePlace ==
  ASSUME NEW s, NEW p, NEW q, Place(s, p), Place(s, q), p.byte = q.byte
  PROVE  p = q
  BY DEF Place, Position

(* The newlines before a place are finitely many. *)
LEMMA NewlinesFinite ==
  ASSUME NEW s, NEW b \in Nat
  PROVE  IsFiniteSet(Newlines(s, b)) /\ Cardinality(Newlines(s, b)) \in Nat
<1>1. IsFiniteSet(1 .. b)
  BY FS_Interval
<1>2. Newlines(s, b) \subseteq 1 .. b
  BY DEF Newlines
<1> QED BY <1>1, <1>2, FS_Subset, FS_CardinalityType

(* The buffer's first byte is a place. *)
LEMMA StartPlace ==
  ASSUME NEW s \in Sources
  PROVE  Place(s, Origin)
<1>1. Newlines(s, 0) = {}
  BY DEF Newlines
<1>2. Origin \in Position /\ Origin.byte = 0 /\ Origin.row = 0 /\ Origin.column = 0
  BY SourceBytes DEF Origin, Position
<1>3. LineStart(s, 0) = 0 /\ Cardinality(Newlines(s, 0)) = 0
  BY <1>1, FS_EmptySet DEF LineStart, LastOf
<1> QED BY <1>2, <1>3, SourceBytes, StartBoundary DEF Place

(* A character that is no newline adds none. *)
LEMMA NoNewline ==
  ASSUME NEW s \in Sources, NEW b \in Nat, b < Len(s), tf_utf8_next(s, b).code_point # NewLine
  PROVE  Newlines(s, b + tf_utf8_next(s, b).length) = Newlines(s, b)
<1> DEFINE d == tf_utf8_next(s, b)  n == d.length
<1>1. n \in 1 .. 4 /\ (\A k \in 2 .. n : Continues(s[b + k])) /\ (d.code_point = 10 <=> s[b + 1] = 10)
  BY SourceBytes, NextCharacter, Zenon
<1>2. s[b + 1] # NewLine
  BY <1>1 DEF NewLine
<1> HIDE DEF n
<1>3. ASSUME NEW i \in 1 .. b + n, i > b PROVE s[i] # NewLine
  <2>1. CASE i = b + 1
    BY <1>2, <2>1
  <2>2. CASE i # b + 1
    <3>1. i - b \in 2 .. n /\ b + (i - b) = i
      BY <1>1, <1>3, <2>2
    <3>2. Continues(s[i])
      BY <1>1, <3>1
    <3> QED BY <3>2, Bytes DEF NewLine
  <2> QED BY <2>1, <2>2
<1> QED BY <1>1, <1>3 DEF Newlines, n

(* A newline adds itself, the last one. *)
LEMMA OneNewline ==
  ASSUME NEW s \in Sources, NEW b \in Nat, b < Len(s), s[b + 1] = NewLine
  PROVE  /\ Cardinality(Newlines(s, b + 1)) = Cardinality(Newlines(s, b)) + 1
         /\ LineStart(s, b + 1) = b + 1
<1> DEFINE N == Newlines(s, b)  M == Newlines(s, b + 1)
<1>1. M = N \cup {b + 1} /\ b + 1 \notin N /\ \A i \in M : i \in Nat /\ i <= b + 1
  BY DEF Newlines
<1>2. Cardinality(M) = Cardinality(N) + 1
  BY <1>1, NewlinesFinite, FS_AddElement
<1> HIDE DEF N
<1>3. LineStart(s, b + 1) = CHOOSE i \in M : \A j \in M : j <= i
  BY <1>1, Zenon DEF LineStart, LastOf
<1> HIDE DEF M
<1>4. \A i \in M : (\A j \in M : j <= i) => i = b + 1
  BY <1>1
<1>5. b + 1 \in M /\ \A j \in M : j <= b + 1
  BY <1>1
<1>6. (CHOOSE i \in M : \A j \in M : j <= i) = b + 1
  BY <1>4, <1>5, Zenon
<1> QED BY <1>2, <1>3, <1>6 DEF N, M

(* The position behind a place's character. *)
Behind(p, d) ==
  [byte   |-> p.byte + d.length,
   row    |-> IF d.code_point = NewLine THEN p.row + 1 ELSE p.row,
   column |-> IF d.code_point = NewLine THEN 0 ELSE p.column + d.length]

(* Behind a place's character is a place: tf_lexer__do_advance keeps byte  *)
(* and point together.                                                     *)
LEMMA NextPlace ==
  ASSUME NEW s \in Sources, NEW p, Place(s, p), p.byte < Len(s)
  PROVE  Place(s, Behind(p, tf_utf8_next(s, p.byte)))
<1> DEFINE b == p.byte  d == tf_utf8_next(s, b)  q == Behind(p, d)
<1>1. /\ s \in Seq(Byte) /\ Len(s) \in Nat /\ Len(s) <= TF_NO_END /\ TF_NO_END \in Nat
      /\ b \in Nat /\ b < Len(s)
  BY SourceBytes DEF Place, Position
<1>2. /\ d.length \in 1 .. 4 /\ b + d.length <= Len(s)
      /\ d.code_point = 10 <=> s[b + 1] = 10
      /\ d.code_point = 10 => d.length = 1
  BY <1>1, NextCharacter, Zenon
<1>3. Boundary(s, b + d.length)
  BY <1>1, NextBoundary, Zenon DEF Place
<1>4. /\ p.row \in Nat /\ p.column \in Nat /\ p.row <= b /\ p.column <= b
      /\ p.row = Cardinality(Newlines(s, b))
      /\ LineStart(s, b) \in Nat /\ p.column = b - LineStart(s, b)
      /\ LineStart(s, b) # 0 => s[LineStart(s, b)] = NewLine
  BY DEF Place, Position
<1>5. CASE d.code_point = NewLine
  <2>1. s[b + 1] = NewLine /\ d.length = 1
    BY <1>2, <1>5 DEF NewLine
  <2>2. Cardinality(Newlines(s, b + 1)) = p.row + 1 /\ LineStart(s, b + 1) = b + 1
    BY <1>1, <1>4, <2>1, OneNewline
  <2> HIDE DEF d, b
  <2>3. q.byte = b + 1 /\ q.row = p.row + 1 /\ q.column = 0
    BY <1>5, <2>1 DEF Behind, b
  <2>4. q = [byte |-> q.byte, row |-> q.row, column |-> q.column]
    BY DEF Behind
  <2> HIDE DEF q
  <2>5. q \in Position
    BY <1>1, <1>4, <2>3, <2>4 DEF Position
  <2> SUFFICES Place(s, q)
    BY DEF q, d, b
  <2>6. LineStart(s, q.byte) # 0 => s[LineStart(s, q.byte)] = NewLine
    BY <2>1, <2>2, <2>3
  <2> QED BY <1>1, <1>3, <1>4, <2>1, <2>2, <2>3, <2>5, <2>6 DEF Place
<1>6. CASE d.code_point # NewLine
  <2>1. Newlines(s, b + d.length) = Newlines(s, b)
    BY <1>1, <1>6, NoNewline, Zenon
  <2>2. LineStart(s, b + d.length) = LineStart(s, b)
    BY <2>1, Zenon DEF LineStart
  <2> HIDE DEF d, b
  <2>3. q.byte = b + d.length /\ q.row = p.row /\ q.column = p.column + d.length
    BY <1>6 DEF Behind, b
  <2>4. q = [byte |-> q.byte, row |-> q.row, column |-> q.column]
    BY DEF Behind
  <2> HIDE DEF q
  <2>5. /\ q.byte \in Nat /\ q.row \in Nat /\ q.column \in Nat
        /\ q.byte <= Len(s) /\ q.row <= q.byte /\ q.column <= q.byte
    <3> DEFINE n == d.length  x == p.row  y == p.column
    <3>1. n \in Nat /\ b + n <= Len(s) /\ b \in Nat /\ Len(s) \in Nat
      BY <1>1, <1>2
    <3>2. x \in Nat /\ y \in Nat /\ x <= b /\ y <= b
      BY <1>4
    <3>3. q.byte = b + n /\ q.row = x /\ q.column = y + n
      BY <2>3
    <3> HIDE DEF n, x, y
    <3> QED BY <3>1, <3>2, <3>3
  <2>6. q \in Position
    BY <1>1, <2>4, <2>5 DEF Position
  <2>7. q.row = Cardinality(Newlines(s, q.byte))
    BY <1>4, <2>1, <2>3, Zenon
  <2>8. LineStart(s, q.byte) = LineStart(s, b)
    BY <2>2, <2>3, Zenon
  <2>9. /\ LineStart(s, q.byte) \in Nat /\ q.column = q.byte - LineStart(s, q.byte)
        /\ LineStart(s, q.byte) # 0 => s[LineStart(s, q.byte)] = NewLine
    BY <1>1, <1>2, <1>4, <2>3, <2>8
  <2>10. Boundary(s, q.byte)
    BY <1>3, <2>3, Zenon
  <2> SUFFICES Place(s, q)
    BY DEF q, d, b
  <2> QED BY <2>5, <2>6, <2>7, <2>9, <2>10 DEF Place
<1> QED BY <1>5, <1>6

-----------------------------------------------------------------------------
(* The invariant.                                                          *)

(* Every position kept is a place in the source; what mark_end has not set *)
(* yet is TF_NO_END.                                                       *)
Placement ==
  /\ source \in Sources
  /\ Place(source, at) /\ Place(source, token_start) /\ Place(source, mark)
  /\ Place(source, out.start) /\ Place(source, out.end)
  /\ token_end \in Position /\ (token_end.byte # TF_NO_END => Place(source, token_end))
  /\ accepted = Nowhere \/ Place(source, accepted)
  /\ from \in Position

(* The lookahead is the current position's. *)
Sighting ==
  /\ lookahead = Sight(source, at.byte).code_point
  /\ lookahead_size = Sight(source, at.byte).length

Kinds ==
  /\ result_symbol \in Symbol
  /\ token_is_keyword \in BOOLEAN /\ token_lex_state \in ParseState
  /\ out \in Token
  /\ phase \in {"ready", "main", "keyword", "returned", "failed"}
  /\ skipping \in BOOLEAN

(* A running lexer: its token starts where it was looked for or later, not *)
(* behind the position, and ends where it last accepted.                   *)
Acceptance ==
  Running =>
    /\ ~token_is_keyword
    /\ skipping => accepted = Nowhere
    /\ from.byte <= token_start.byte /\ token_start.byte <= at.byte
    /\ from.byte = 0 /\ Sight(source, 0).code_point = TF_BOM => token_start.byte >= 3
    /\ accepted # Nowhere =>
         /\ token_end = accepted
         /\ token_start.byte <= accepted.byte /\ accepted.byte <= at.byte
         /\ result_symbol = End <=> token_start.byte = accepted.byte
         /\ phase = "keyword" => result_symbol \in Keywords
    /\ phase = "keyword" => out.symbol = Word

IInv == Placement /\ Sighting /\ Kinds /\ Acceptance /\ TokensAhead /\ KeywordsJudged

(* What a step can see of a place. *)
LEMMA PlaceNat ==
  ASSUME NEW s, NEW p, Place(s, p)
  PROVE  p \in Position /\ p.byte \in Nat /\ p.byte <= Len(s) /\ p # Nowhere
  BY LexerAssumption DEF Place, Position, Nowhere

(* Looking is seeing. *)
LEMMA LookingIsSight == ASSUME NEW b PROVE Looking(b) = Sight(source, b)
  BY Zenon DEF Looking, Sight, size

(* What is seen is a character, an error, or nothing. *)
LEMMA SightTyped ==
  ASSUME NEW s \in Sources, NEW b \in Nat
  PROVE  LET d == Sight(s, b) IN
         /\ d = Decoded(d.code_point, d.length)
         /\ d.code_point \in -1 .. MaxCodePoint /\ d.length \in 1 .. 4
<1>1. CASE b >= Len(s)
  <2>1. Sight(s, b) = Decoded(0, 1)
    BY <1>1, Zenon DEF Sight
  <2>2. 0 \in -1 .. MaxCodePoint
    BY Limits, SMT
  <2> QED BY <2>1, <2>2 DEF Decoded
<1>2. CASE ~(b >= Len(s))
  <2>1. Sight(s, b) = tf_utf8_next(s, b)
    BY <1>2, Zenon DEF Sight
  <2>2. b < Len(s)
    BY <1>2, SourceBytes
  <2> QED BY <2>1, <2>2, SourceBytes, NextCharacter, Zenon
<1> QED BY <1>1, <1>2

(* The byte order mark is a character of three bytes, no newline and not   *)
(* the end.                                                                *)
LEMMA MarkSeen ==
  ASSUME NEW s \in Sources, NEW b \in Nat, Sight(s, b).code_point = TF_BOM
  PROVE  b < Len(s) /\ Sight(s, b) = tf_utf8_next(s, b) /\ Sight(s, b).length = 3
         /\ TF_BOM # NewLine
<1>1. b < Len(s)
  <2>1. b >= Len(s) => Sight(s, b).code_point = 0
    BY SMT DEF Sight, Decoded
  <2> QED BY <2>1, SourceBytes, SMT DEF TF_BOM
<1>2. Sight(s, b) = tf_utf8_next(s, b)
  BY <1>1, SourceBytes DEF Sight
<1>3. tf_utf8_next(s, b).length = 3
  BY <1>2, SourceBytes, MarkIsThree, SMT DEF TF_BOM
<1> QED BY <1>1, <1>2, <1>3, SMT DEF TF_BOM, NewLine

(* Skipping and reading go to the next place. *)
LEMMA AheadPlace ==
  ASSUME IInv, ~tf_lexer__eof
  PROVE  Place(source, Ahead) /\ Ahead.byte > at.byte
<1>1. source \in Sources /\ Place(source, at) /\ at.byte \in Nat /\ Len(source) \in Nat
  BY PlaceNat, SourceBytes DEF IInv, Placement
<1>2. at.byte < Len(source)
  BY <1>1 DEF tf_lexer__eof, size
<1>3. Sight(source, at.byte) = tf_utf8_next(source, at.byte)
  BY <1>1, <1>2 DEF Sight
<1>4. Ahead = Behind(at, tf_utf8_next(source, at.byte))
  BY <1>3 DEF Ahead, Behind, IInv, Sighting
<1>5. Ahead.byte = at.byte + Sight(source, at.byte).length
  BY DEF Ahead, IInv, Sighting
<1>6. Sight(source, at.byte).length \in 1 .. 4
  BY <1>1, SightTyped
<1> QED BY <1>1, <1>2, <1>4, <1>5, <1>6, NextPlace

(* tf_lexer__start, given the lookahead of its place: the token starts     *)
(* there, or behind a byte order mark that starts the source.              *)
LEMMA Starts ==
  ASSUME source \in Sources, source' = source, NEW p, Place(source, p),
         tf_lexer__start(p, Sight(source, p.byte))
  PROVE  /\ token_end' = Unmarked /\ result_symbol' = End
         /\ at' = token_start' /\ Place(source, at') /\ p.byte <= at'.byte
         /\ Sighting'
         /\ p.byte = 0 /\ Sight(source, 0).code_point = TF_BOM => at'.byte >= 3
<1> DEFINE seen == Sight(source, p.byte)
           past == [byte |-> p.byte + seen.length, row |-> p.row, column |-> p.column + seen.length]
<1>1. token_end' = Unmarked /\ result_symbol' = End
  BY DEF tf_lexer__start
<1>2. p \in Position /\ p.byte \in Nat /\ Len(source) \in Nat
  BY PlaceNat, SourceBytes
<1>3. CASE p.byte = 0 /\ seen.code_point = TF_BOM
  <2>1. 0 < Len(source) /\ seen = tf_utf8_next(source, 0) /\ seen.length = 3 /\ TF_BOM # NewLine
    BY <1>2, <1>3, MarkSeen
  <2>2. past = Behind(p, tf_utf8_next(source, p.byte))
    <3> DEFINE d == tf_utf8_next(source, 0)
    <3>1. d.length = 3 /\ d.code_point # NewLine /\ seen = d
      BY <1>3, <2>1
    <3> HIDE DEF d, seen
    <3>2. past = [byte |-> p.byte + 3, row |-> p.row, column |-> p.column + 3]
      BY <3>1
    <3>3. Behind(p, d) = [byte |-> p.byte + 3, row |-> p.row, column |-> p.column + 3]
      BY <3>1 DEF Behind
    <3> HIDE DEF past
    <3> QED BY <1>3, <3>2, <3>3 DEF d
  <2>3. Place(source, past)
    BY <1>2, <1>3, <2>1, <2>2, NextPlace
  <2>4. past.byte = 3
    BY <1>2, <1>3, <2>1 DEF Position
  <2>5. token_start' = past /\ tf_lexer_seek(past)
    BY <1>3, <2>1 DEF tf_lexer__start, size
  <2>6. at' = past /\ Sighting'
    BY <2>5, LookingIsSight DEF tf_lexer_seek, tf_lexer__get_lookahead, Sighting
  <2> HIDE DEF past, seen
  <2> QED BY <1>1, <1>2, <1>3, <2>3, <2>4, <2>5, <2>6
<1>4. CASE ~(p.byte = 0 /\ seen.code_point = TF_BOM)
  <2>1. token_start' = p /\ at' = p /\ lookahead' = seen.code_point /\ lookahead_size' = seen.length
    BY <1>4 DEF tf_lexer__start
  <2>2. Sighting'
    BY <2>1 DEF Sighting
  <2> QED BY <1>1, <1>2, <1>4, <2>1, <2>2
<1> QED BY <1>3, <1>4

(* tf_lexer__finish: the token ends where its lexer last accepted, whether *)
(* or not that is as far as TF_NO_END.                                     *)
LEMMA Finishes ==
  ASSUME IInv, Running, accepted # Nowhere
  PROVE  tf_lexer__finish(token_end) = accepted
<1>1. /\ token_end = accepted /\ accepted.byte <= at.byte /\ Place(source, accepted)
      /\ Place(source, at) /\ source \in Sources
  BY DEF IInv, Placement, Acceptance
<1>2. CASE accepted.byte = TF_NO_END
  <2>1. at.byte = accepted.byte
    BY <1>1, <1>2, PlaceNat, SourceBytes
  <2> QED BY <1>1, <1>2, <2>1, SamePlace DEF tf_lexer__finish
<1>3. CASE accepted.byte # TF_NO_END
  BY <1>1, <1>3 DEF tf_lexer__finish
<1> QED BY <1>2, <1>3

-----------------------------------------------------------------------------
(* The steps.                                                              *)

(* tf_lexer_init. *)
LEMMA InitIInv == Init => IInv
<1> SUFFICES ASSUME Init PROVE IInv
  OBVIOUS
<1>1. source \in Sources /\ Place(source, Origin)
  BY StartPlace DEF Init
<1>2. Placement
  BY <1>1, PlaceNat DEF Init, Placement, NoToken
<1>3. Sighting
  BY LookingIsSight DEF Init, Sighting, Origin
<1>4. Kinds
  BY <1>1, PlaceNat, LexerAssumption DEF Init, Kinds, NoToken, Token
<1> QED BY <1>2, <1>3, <1>4 DEF Init, IInv, Acceptance, Running, TokensAhead, KeywordsJudged

(* Nothing changes. *)
LEMMA Stutters == ASSUME IInv, UNCHANGED vars PROVE IInv'
<1> USE DEF vars, lookvars, tokenvars, outvars, envvars
<1>1. Placement'
  BY DEF IInv, Placement
<1>2. Sighting' /\ Kinds'
  BY DEF IInv, Sighting, Kinds
<1>3. Acceptance'
  BY DEF IInv, Acceptance, Running
<1>4. TokensAhead' /\ KeywordsJudged'
  <2>1. \A b : Looking(b)' = Looking(b)
    BY DEF Looking, size
  <2> QED BY <2>1 DEF IInv, TokensAhead, KeywordsJudged
<1> QED BY <1>1, <1>2, <1>3, <1>4 DEF IInv

(* tf_lexer_next. *)
LEMMA NextIInv ==
  ASSUME IInv, NEW state \in ParseState \ {0}, tf_lexer_next(state) PROVE IInv'
<1>1. /\ source \in Sources /\ source' = source /\ Place(source, at) /\ at.byte \in Nat
      /\ at.byte <= Len(source) /\ TF_NO_END \in Nat
  BY PlaceNat, SourceBytes DEF IInv, Placement, tf_lexer_next
<1>2. Decoded(lookahead, lookahead_size) = Sight(source, at.byte)
  BY <1>1, SightTyped DEF IInv, Sighting
<1>3. tf_lexer__start(at, Sight(source, at.byte))
  BY <1>2 DEF tf_lexer_next
<1>4. /\ token_end' = Unmarked /\ result_symbol' = End
      /\ at' = token_start' /\ Place(source, at') /\ at.byte <= at'.byte
      /\ Sighting'
      /\ at.byte = 0 /\ Sight(source, 0).code_point = TF_BOM => at'.byte >= 3
  BY <1>1, <1>3, Starts
<1>5. Unmarked \in Position /\ Unmarked.byte = TF_NO_END
  BY <1>1 DEF Unmarked, Position
<1>6. /\ token_is_keyword' = FALSE /\ token_lex_state' = state /\ phase' = "main" /\ skipping' = TRUE
      /\ accepted' = Nowhere /\ from' = at /\ out' = out /\ mark' = mark
  BY DEF tf_lexer_next
<1>7. Placement'
  BY <1>1, <1>4, <1>5, <1>6, PlaceNat DEF IInv, Placement
<1>8. Kinds'
  BY <1>4, <1>6, LexerAssumption DEF IInv, Kinds
<1>9. Acceptance'
  BY <1>1, <1>4, <1>6, PlaceNat DEF Acceptance, Running
<1>10. TokensAhead' /\ KeywordsJudged'
  BY <1>6 DEF TokensAhead, KeywordsJudged
<1> QED BY <1>4, <1>7, <1>8, <1>9, <1>10 DEF IInv

(* SKIP and ADVANCE, off the end of the buffer. *)
LEMMA AdvanceIInv ==
  ASSUME IInv, Running, NEW skip \in BOOLEAN, skip => skipping, ~tf_lexer__eof,
         tf_lexer__do_advance(skip), skipping' \in BOOLEAN, skipping' => skipping,
         UNCHANGED <<source, token_end, result_symbol, outvars, phase, accepted, from, mark>>
  PROVE  IInv'
<1>1. /\ Place(source, Ahead) /\ Ahead.byte > at.byte /\ source \in Sources /\ at.byte \in Nat
      /\ token_start.byte \in Nat /\ Ahead.byte \in Nat /\ from.byte \in Nat
  BY AheadPlace, PlaceNat DEF IInv, Placement, Position
<1>2. at' = Ahead /\ token_start' = (IF skip THEN Ahead ELSE token_start) /\ Sighting'
  BY LookingIsSight
     DEF tf_lexer__do_advance, tf_lexer_seek, tf_lexer__get_lookahead, Sighting
<1> HIDE DEF Ahead
<1>3. Placement'
  BY <1>1, <1>2 DEF IInv, Placement, outvars
<1>4. Kinds'
  BY DEF IInv, Kinds, outvars
<1>5. Acceptance'
  <2>1. phase \in {"main", "keyword"} /\ ~token_is_keyword
        /\ from.byte <= token_start.byte /\ token_start.byte <= at.byte
    BY DEF IInv, Acceptance, Running
  <2>2. CASE skip
    <3>1. accepted = Nowhere
      BY <2>2 DEF IInv, Acceptance
    <3> QED BY <1>1, <1>2, <2>1, <2>2, <3>1 DEF IInv, Acceptance, Running, outvars
  <2>3. CASE ~skip
    <3>1. accepted = Nowhere \/ accepted.byte \in Nat
      BY PlaceNat DEF IInv, Placement
    <3> QED BY <1>1, <1>2, <2>1, <2>3, <3>1 DEF IInv, Acceptance, Running, outvars
  <2> QED BY <2>2, <2>3
<1>6. TokensAhead' /\ KeywordsJudged'
  <2>1. phase \in {"main", "keyword"}
    BY DEF Running
  <2>2. \A b : Looking(b)' = Looking(b)
    BY DEF Looking, size
  <2> QED BY <2>1, <2>2 DEF IInv, TokensAhead, KeywordsJudged, outvars
<1> QED BY <1>2, <1>3, <1>4, <1>5, <1>6 DEF IInv

(* SKIP. *)
LEMMA SkipIInv == ASSUME IInv, Skip PROVE IInv'
<1>1. CASE tf_lexer__eof /\ UNCHANGED <<at, token_start, lookvars>>
  BY <1>1, Stutters DEF Skip, vars, tokenvars
<1>2. CASE ~tf_lexer__eof /\ tf_lexer__do_advance(TRUE)
  <2>1. Running /\ skipping /\ skipping' = skipping /\ skipping \in BOOLEAN
        /\ UNCHANGED <<source, token_end, result_symbol, outvars, phase, accepted, from, mark>>
    BY DEF Skip, envvars, IInv, Kinds
  <2> QED BY <1>2, <2>1, AdvanceIInv
<1> QED BY <1>1, <1>2 DEF Skip, tf_lexer__advance

(* ADVANCE. *)
LEMMA ReadIInv == ASSUME IInv, Read PROVE IInv'
<1>1. CASE tf_lexer__eof /\ UNCHANGED <<at, token_start, lookvars>>
  <2>1. /\ UNCHANGED <<source, at, token_start, lookvars, token_end, result_symbol, outvars,
                       phase, accepted, from, mark>>
        /\ skipping' = FALSE
    BY <1>1 DEF Read
  <2> USE DEF lookvars, outvars
  <2>2. Placement' /\ Sighting' /\ Kinds'
    BY <2>1 DEF IInv, Placement, Sighting, Kinds
  <2>3. Acceptance'
    BY <2>1 DEF IInv, Acceptance, Running
  <2>4. TokensAhead' /\ KeywordsJudged'
    <3>1. \A b : Looking(b)' = Looking(b)
      BY <2>1 DEF Looking, size
    <3> QED BY <2>1, <3>1 DEF IInv, TokensAhead, KeywordsJudged
  <2> QED BY <2>2, <2>3, <2>4 DEF IInv
<1>2. CASE ~tf_lexer__eof /\ tf_lexer__do_advance(FALSE)
  <2>1. Running /\ skipping' = FALSE
        /\ UNCHANGED <<source, token_end, result_symbol, outvars, phase, accepted, from, mark>>
    BY DEF Read
  <2> QED BY <1>2, <2>1, AdvanceIInv
<1> QED BY <1>1, <1>2 DEF Read, tf_lexer__advance

(* ACCEPT_TOKEN and mark_end. *)
LEMMA AcceptIInv == ASSUME IInv, NEW symbol \in Symbol, AcceptToken(symbol) PROVE IInv'
<1>1. /\ Running /\ (phase = "keyword" => symbol \in Keywords)
      /\ (symbol = End <=> at.byte = token_start.byte)
      /\ result_symbol' = symbol /\ token_end' = at /\ skipping' = FALSE /\ accepted' = at
      /\ UNCHANGED <<source, at, lookvars, token_start, outvars, phase, from, mark>>
  BY DEF AcceptToken
<1>2. at \in Position /\ at.byte \in Nat /\ at # Nowhere /\ token_start.byte \in Nat
  BY PlaceNat DEF IInv, Placement
<1> USE DEF lookvars, outvars
<1>3. Placement' /\ Sighting' /\ Kinds'
  BY <1>1, <1>2 DEF IInv, Placement, Sighting, Kinds
<1>4. Acceptance'
  BY <1>1, <1>2 DEF IInv, Acceptance, Running
<1>5. TokensAhead' /\ KeywordsJudged'
  <2>1. \A b : Looking(b)' = Looking(b)
    BY <1>1 DEF Looking, size
  <2> QED BY <1>1, <2>1 DEF IInv, TokensAhead, KeywordsJudged, Running
<1> QED BY <1>3, <1>4, <1>5 DEF IInv

(* lex_fn returns without a token. *)
LEMMA FailsIInv == ASSUME IInv, MainFails PROVE IInv'
<1>1. /\ phase = "main" /\ phase' = "failed" /\ skipping' = FALSE
      /\ token_end' = IF token_end.byte = TF_NO_END THEN at ELSE token_end
      /\ UNCHANGED <<source, at, lookvars, token_start, result_symbol, outvars, accepted, from, mark>>
  BY DEF MainFails, tf_lexer__finish
<1>2. at \in Position /\ at.byte \in Nat /\ token_start.byte \in Nat /\ from.byte \in Nat
  BY PlaceNat DEF IInv, Placement, Position
<1> USE DEF lookvars, outvars
<1>3. Placement' /\ Sighting' /\ Kinds'
  BY <1>1, <1>2 DEF IInv, Placement, Sighting, Kinds
<1>4. Acceptance'
  BY <1>1 DEF Acceptance, Running
<1>5. TokensAhead' /\ KeywordsJudged'
  <2>1. from.byte <= at.byte
    BY <1>1, <1>2 DEF IInv, Acceptance, Running
  <2> QED BY <1>1, <2>1 DEF TokensAhead, KeywordsJudged
<1> QED BY <1>3, <1>4, <1>5 DEF IInv

(* What lex_fn returns: a token ahead, without a byte order mark, and empty *)
(* at the end only.                                                        *)
LEMMA MainToken ==
  ASSUME IInv, phase = "main", accepted # Nowhere, MainReturns
  PROVE  /\ out' = [symbol |-> result_symbol, start |-> token_start, end |-> accepted]
         /\ out' \in Token
         /\ Place(source, out'.start) /\ Place(source, out'.end)
         /\ from.byte <= out'.start.byte /\ out'.start.byte <= out'.end.byte
         /\ out'.start.byte = out'.end.byte <=> out'.symbol = End
         /\ from.byte = 0 /\ Sight(source, 0).code_point = TF_BOM => out'.start.byte >= 3
<1>1. out' = [symbol |-> result_symbol, start |-> token_start, end |-> accepted]
  BY Finishes DEF MainReturns, Running
<1>2. Place(source, token_start) /\ Place(source, accepted) /\ result_symbol \in Symbol
  BY DEF IInv, Placement, Kinds
<1>3. token_start \in Position /\ accepted \in Position
  BY <1>2, PlaceNat
<1>4. /\ from.byte <= token_start.byte /\ token_start.byte <= accepted.byte
      /\ result_symbol = End <=> token_start.byte = accepted.byte
      /\ from.byte = 0 /\ Sight(source, 0).code_point = TF_BOM => token_start.byte >= 3
  BY DEF IInv, Acceptance, Running
<1> QED BY <1>1, <1>2, <1>3, <1>4 DEF Token

(* lex_fn returns with a token. *)
LEMMA ReturnsIInv == ASSUME IInv, MainReturns PROVE IInv'
<1> DEFINE token == [symbol |-> result_symbol, start |-> token_start, end |-> accepted]
<1>1. phase = "main" /\ accepted # Nowhere
  BY DEF MainReturns
<1>2. /\ out' = token /\ out' \in Token
      /\ Place(source, out'.start) /\ Place(source, out'.end)
      /\ from.byte <= out'.start.byte /\ out'.start.byte <= out'.end.byte
      /\ out'.start.byte = out'.end.byte <=> out'.symbol = End
      /\ from.byte = 0 /\ Sight(source, 0).code_point = TF_BOM => out'.start.byte >= 3
  BY <1>1, MainToken
<1>3. tf_lexer__finish(token_end) = accepted /\ ~token_is_keyword /\ token_end = accepted
  BY <1>1, Finishes DEF Running, IInv, Acceptance
<1>4. UNCHANGED <<source, token_is_keyword, token_lex_state, from>>
  BY DEF MainReturns
<1>5. \A b : Looking(b)' = Sight(source, b)
  BY <1>4, LookingIsSight DEF Looking, size, Sight
<1>6. source \in Sources /\ TF_NO_END \in Nat /\ Place(source, mark) /\ from \in Position
      /\ from.byte \in Nat
  BY SourceBytes DEF IInv, Placement, Position
<1>7. token.symbol = result_symbol /\ token.start = token_start /\ token.end = accepted
  OBVIOUS
<1>8. CASE result_symbol = Word
  <2>1. /\ tf_lexer__start(token_start, Looking(token_start.byte))
        /\ phase' = "keyword" /\ skipping' = TRUE /\ accepted' = Nowhere /\ mark' = mark
    BY <1>3, <1>8 DEF MainReturns
  <2>2. /\ token_end' = Unmarked /\ result_symbol' = End
        /\ at' = token_start' /\ Place(source, at') /\ token_start.byte <= at'.byte
        /\ Sighting'
    BY <1>2, <1>4, <1>6, <1>7, <2>1, LookingIsSight, Starts
  <2>3. Unmarked \in Position /\ Unmarked.byte = TF_NO_END
    BY <1>6 DEF Unmarked, Position
  <2>4. at'.byte \in Nat /\ token_start.byte \in Nat
    BY <1>2, <1>7, <2>2, PlaceNat
  <2>5. Placement'
    BY <1>2, <1>4, <1>6, <2>1, <2>2, <2>3 DEF Placement
  <2>6. Kinds'
    BY <1>2, <1>4, <2>1, <2>2, LexerAssumption DEF IInv, Kinds
  <2>7. Acceptance'
    <3>1. from.byte <= token_start'.byte /\ token_start'.byte <= at'.byte
      BY <1>2, <1>6, <1>7, <2>2, <2>4
    <3>2. from.byte = 0 /\ Sight(source, 0).code_point = TF_BOM => token_start'.byte >= 3
      BY <1>2, <1>7, <2>2, <2>4
    <3>3. out'.symbol = Word
      BY <1>2, <1>7, <1>8
    <3> QED BY <1>3, <1>4, <2>1, <3>1, <3>2, <3>3 DEF Acceptance, Running
  <2>8. TokensAhead'
    BY <1>2, <1>4, <1>5, <2>1 DEF TokensAhead
  <2>9. KeywordsJudged'
    BY <2>1 DEF KeywordsJudged
  <2> QED BY <2>2, <2>5, <2>6, <2>7, <2>8, <2>9 DEF IInv
<1>9. CASE result_symbol # Word
  <2>1. /\ token_end' = accepted /\ tf_lexer_seek(accepted)
        /\ phase' = "returned" /\ skipping' = FALSE /\ mark' \in {mark, accepted}
        /\ UNCHANGED <<token_start, result_symbol, accepted>>
    BY <1>3, <1>9 DEF MainReturns
  <2>2. at' = accepted /\ Sighting'
    BY <1>4, <2>1, LookingIsSight
       DEF tf_lexer_seek, tf_lexer__get_lookahead, Sighting
  <2>3. Place(source, accepted) /\ accepted \in Position
    BY <1>1, PlaceNat DEF IInv, Placement
  <2>4. Placement'
    BY <1>2, <1>4, <1>6, <2>1, <2>2, <2>3 DEF IInv, Placement
  <2>5. Kinds'
    BY <1>2, <1>4, <2>1 DEF IInv, Kinds
  <2>6. Acceptance'
    BY <2>1 DEF Acceptance, Running
  <2>7. at' = out'.end
    BY <1>2, <1>7, <2>2
  <2>8. TokensAhead'
    BY <1>2, <1>4, <1>5, <2>1, <2>7 DEF TokensAhead
  <2>9. KeywordsJudged'
    BY <1>3, <1>4 DEF KeywordsJudged
  <2> QED BY <2>2, <2>4, <2>5, <2>6, <2>8, <2>9 DEF IInv
<1> QED BY <1>8, <1>9

(* The keyword lexer returns. *)
LEMMA KeywordIInv == ASSUME IInv, KeywordReturns PROVE IInv'
<1> DEFINE end == tf_lexer__finish(token_end)
<1>1. /\ phase = "keyword" /\ phase' = "returned" /\ skipping' = FALSE
      /\ token_end' = end /\ token_is_keyword' = IsKeyword(end) /\ tf_lexer_seek(out.end)
      /\ out' = (IF IsKeyword(end) THEN [out EXCEPT !.symbol = result_symbol] ELSE out)
      /\ mark' \in {mark, out.end}
      /\ UNCHANGED <<source, token_start, result_symbol, token_lex_state, accepted, from>>
  BY DEF KeywordReturns, Reposition
<1>2. /\ out \in Token /\ out.symbol = Word /\ Word # End /\ Word \in Symbol
      /\ source \in Sources /\ Place(source, at) /\ Place(source, out.start) /\ Place(source, out.end)
      /\ result_symbol \in Symbol /\ TF_NO_END \in Nat
  BY <1>1, SourceBytes, LexerAssumption DEF IInv, Kinds, Acceptance, Running, Placement
<1>3. accepted # Nowhere => end = accepted /\ Place(source, accepted) /\ result_symbol \in Keywords
  BY <1>1, Finishes DEF IInv, Placement, Acceptance, Running
<1>4. end \in Position /\ (end.byte # TF_NO_END => Place(source, end))
  BY <1>2, PlaceNat DEF tf_lexer__finish, IInv, Placement
<1> HIDE DEF end
<1>5. /\ out' \in Token /\ out'.start = out.start /\ out'.end = out.end
      /\ IsKeyword(end) => out'.symbol = result_symbol
      /\ out'.symbol # End
  <2>1. CASE IsKeyword(end)
    <3>1. result_symbol # End
      BY <1>3, <2>1, LexerAssumption DEF IsKeyword
    <3> QED BY <1>1, <1>2, <2>1, <3>1 DEF Token
  <2>2. CASE ~IsKeyword(end)
    BY <1>1, <1>2, <2>2
  <2> QED BY <2>1, <2>2
<1>6. at' = out.end /\ Sighting'
  BY <1>1, LookingIsSight DEF tf_lexer_seek, tf_lexer__get_lookahead, Sighting
<1>7. Placement'
  BY <1>1, <1>2, <1>4, <1>5, <1>6 DEF IInv, Placement
<1>8. Kinds'
  BY <1>1, <1>5 DEF IInv, Kinds, IsKeyword
<1>9. Acceptance'
  BY <1>1 DEF Acceptance, Running
<1>10. TokensAhead'
  <2>1. \A b : Looking(b)' = Looking(b)
    BY <1>1 DEF Looking, size
  <2>2. /\ from.byte <= out.start.byte /\ out.start.byte <= out.end.byte
        /\ out.start.byte = out.end.byte <=> out.symbol = End
        /\ from.byte = 0 /\ Looking(0).code_point = TF_BOM => out.start.byte >= 3
    BY <1>1 DEF IInv, TokensAhead
  <2> QED BY <1>1, <1>2, <1>5, <1>6, <2>1, <2>2 DEF TokensAhead
<1>11. KeywordsJudged'
  <2> SUFFICES ASSUME IsKeyword(end)
               PROVE  accepted = out.end /\ result_symbol \in Usable[token_lex_state]
    BY <1>1, <1>5 DEF KeywordsJudged
  <2>1. accepted # Nowhere /\ end.byte = out.end.byte /\ result_symbol \in Usable[token_lex_state]
    BY DEF IsKeyword
  <2> QED BY <1>2, <1>3, <2>1, SamePlace
<1> QED BY <1>6, <1>7, <1>8, <1>9, <1>10, <1>11 DEF IInv

(* tf_lexer_seek, by tf_parser_spec.h. *)
LEMMA SeekIInv == ASSUME IInv, SpecSeek PROVE IInv'
<1>1. /\ tf_lexer_seek(mark) /\ phase' = "ready"
      /\ UNCHANGED <<source, tokenvars, outvars, skipping, accepted, from, mark>>
  BY DEF SpecSeek
<1>2. at' = mark /\ Sighting'
  BY <1>1, LookingIsSight DEF tf_lexer_seek, tf_lexer__get_lookahead, Sighting
<1> USE DEF tokenvars, outvars
<1>3. Placement'
  BY <1>1, <1>2 DEF IInv, Placement
<1>4. Kinds'
  BY <1>1 DEF IInv, Kinds
<1>5. Acceptance' /\ TokensAhead' /\ KeywordsJudged'
  BY <1>1 DEF Acceptance, Running, TokensAhead, KeywordsJudged
<1> QED BY <1>2, <1>3, <1>4, <1>5 DEF IInv

-----------------------------------------------------------------------------
(* IInv is inductive. *)
LEMMA StepIInv == IInv /\ [Next]_vars => IInv'
<1> SUFFICES ASSUME IInv, [Next]_vars PROVE IInv'
  OBVIOUS
<1>1. CASE UNCHANGED vars
  BY <1>1, Stutters
<1>2. CASE Next
  BY <1>2, NextIInv, SkipIInv, ReadIInv, AcceptIInv, FailsIInv, ReturnsIInv, KeywordIInv, SeekIInv
     DEF Next
<1> QED BY <1>1, <1>2

(* IInv says all that is wanted of a state. *)
LEMMA IInvSays == IInv => LookaheadFresh /\ PositionsTrue /\ TokensAhead /\ KeywordsJudged
<1> SUFFICES ASSUME IInv PROVE LookaheadFresh /\ PositionsTrue
  BY DEF IInv
<1>1. /\ source \in Sources /\ at.byte \in Nat
      /\ \A p \in {at, token_start, out.start, out.end, mark} : Place(source, p)
  BY PlaceNat DEF IInv, Placement
<1>2. LookaheadFresh
  BY <1>1, SightTyped, LookingIsSight DEF IInv, Sighting, LookaheadFresh
<1>3. lookahead \in -1 .. MaxCodePoint /\ lookahead_size \in 1 .. 4
  BY <1>1, SightTyped DEF IInv, Sighting
<1>4. accepted \in Position \cup {Nowhere}
  BY PlaceNat DEF IInv, Placement
<1>5. TypeOK
  BY <1>1, <1>3, <1>4, Placed DEF IInv, Placement, Kinds, TypeOK
<1>6. PositionsTrue
  BY <1>1, <1>5, Placed DEF IInv, Placement, PositionsTrue
<1> QED BY <1>2, <1>6

(* The invariant, in every reachable state. *)
THEOREM LexerInvariance == Spec => []IInv
  BY InitIInv, StepIInv, PTL DEF Spec

(* The lookahead is that of the current position after every skip, read,   *)
(* re-lex and seek, though tf_lexer__start never decodes it.               *)
THEOREM LexerSeesWhereItIs == Spec => []LookaheadFresh
  BY LexerInvariance, IInvSays, PTL

(* Byte and point of every position kept or handed out agree with the      *)
(* source, and no position splits a character, for buffers of any bytes    *)
(* and of any length a 32-bit offset can have.                             *)
THEOREM LexerKeepsPlaces == Spec => []PositionsTrue
  BY LexerInvariance, IInvSays, PTL

(* Tokens lie ahead, are empty at the end of the file only, never hold the *)
(* byte order mark, and lexing goes on where the last one ended.           *)
THEOREM LexerMovesAhead == Spec => []TokensAhead
  BY LexerInvariance, IInvSays, PTL

(* A word is reclassified only over exactly its bytes and only to a symbol *)
(* its state has a use for.                                                *)
THEOREM LexerJudgesKeywords == Spec => []KeywordsJudged
  BY LexerInvariance, IInvSays, PTL

(* A token ends where its lexer last accepted, also at TF_NO_END, and the  *)
(* keyword lexer does not move it.                                         *)
THEOREM LexerEndsAtAccept == Spec => EndsAtAccept
<1> DEFINE A == /\ phase = "main" /\ phase' \in {"keyword", "returned"} => out'.end = accepted
                /\ phase = "keyword" => out'.start = out.start /\ out'.end = out.end
<1>1. IInv /\ [Next]_vars => [A]_vars
  <2> SUFFICES ASSUME IInv, Next PROVE A
    BY Zenon
  <2>1. CASE phase = "main"
    <3> SUFFICES ASSUME phase' \in {"keyword", "returned"} PROVE out'.end = accepted
      BY <2>1
    <3>1. MainReturns
      BY <2>1 DEF Next, tf_lexer_next, Skip, Read, AcceptToken, MainFails, KeywordReturns, SpecSeek,
                  envvars
    <3>2. accepted # Nowhere
      BY <3>1 DEF MainReturns
    <3> QED BY <2>1, <3>1, <3>2, MainToken
  <2>2. CASE phase = "keyword"
    <3>1. KeywordReturns \/ out' = out
      BY <2>2 DEF Next, tf_lexer_next, Skip, Read, AcceptToken, MainFails, MainReturns, SpecSeek,
                  outvars
    <3>2. KeywordReturns => out'.start = out.start /\ out'.end = out.end
      BY DEF KeywordReturns, IInv, Kinds, Token
    <3> QED BY <2>2, <3>1, <3>2
  <2> QED BY <2>1, <2>2
<1> QED BY <1>1, LexerInvariance, PTL DEF EndsAtAccept, Spec

-----------------------------------------------------------------------------
(* tf_lexer__get_column: the scan of a line, from i to e.                  *)

(* No character starts inside another.                                     *)
LEMMA InsideStartsNone ==
  ASSUME NEW s \in Seq(Byte), NEW i \in Nat, Len(s) \in Nat, i < Len(s),
         NEW k \in 1 .. tf_utf8_next(s, i).length - 1
  PROVE  ~Boundary(s, i + k)
<1> DEFINE d == tf_utf8_next(s, i)
<1>1. d.length \in 1 .. 4
  BY NextCharacter, Zenon
<1>2. d # Malformed
  <2>1. Malformed.length = 1
    BY DEF Malformed
  <2> HIDE DEF d
  <2>2. d.length # 1
    BY <1>1 DEF d
  <2> QED BY <2>1, <2>2
<1>3. 1 \in 1 .. 4
  OBVIOUS
<1>4. PICK n \in 1 .. 4 : d = Decoded(Payload(s, i, n), n) /\ WellFormed(s, i, n)
  BY <1>2, <1>3, NextExact, Zenon
<1>5. d.length = n
  <2> HIDE DEF d
  <2> QED BY <1>4, SMT DEF Decoded
<1> HIDE DEF d
<1>6. n \in 2 .. 4 /\ k \in 1 .. n - 1 /\ (i + k) - k = i /\ i >= 0
  BY <1>1, <1>5 DEF d
<1> QED BY <1>4, <1>6 DEF Boundary

(* A line starts where a character does.                                   *)
LEMMA LineStartsWhole ==
  ASSUME NEW s \in Sources, NEW p, Place(s, p)
  PROVE  /\ p.byte - p.column = LineStart(s, p.byte)
         /\ LineStart(s, p.byte) \in 0 .. p.byte /\ Boundary(s, LineStart(s, p.byte))
<1> DEFINE b == LineStart(s, p.byte)
<1>1. /\ b \in Nat /\ p.byte \in Nat /\ p.column \in Nat /\ p.column = p.byte - b
      /\ b # 0 => s[b] = NewLine
  BY SourceBytes DEF Place, Position
<1> HIDE DEF b
<1>2. p.byte - p.column = b /\ b \in 0 .. p.byte
  BY <1>1
<1>3. Boundary(s, b)
  <2> SUFFICES ASSUME b # 0, NEW n \in 2 .. 4, NEW back \in 1 .. n - 1, b - back >= 0, WellFormed(s, b - back, n)
               PROVE  FALSE
    BY StartBoundary, Zenon DEF Boundary
  <2> DEFINE q == b - back
  <2>1. q \in Nat /\ n \in 1 .. 4 /\ n # 1 /\ q < b /\ b < q + n
    BY <1>1, SMT
  <2>2. Formed(s, q, n)
    BY <2>1, SourceBytes, WellFormedIsFormed, Zenon
  <2> HIDE DEF q
  <2>3. s[q + 1] \in Leads[n] /\ \A k \in 2 .. n : Continues(s[q + k])
    BY <2>2 DEF Formed, Available
  <2>4. CASE b = q + 1
    BY <1>1, <2>1, <2>3, <2>4, LeadStops DEF NewLine
  <2>5. CASE b # q + 1
    <3>1. b - q \in 2 .. n /\ q + (b - q) = b
      BY <1>1, <2>1, <2>5
    <3>2. Continues(s[b])
      BY <2>3, <3>1
    <3> QED BY <1>1, <3>2, Bytes DEF NewLine
  <2> QED BY <2>4, <2>5
<1> QED BY <1>2, <1>3 DEF b

(* What the scan counts: every character but a byte order mark that starts *)
(* the buffer.                                                             *)
Counted(s, i) == i # 0 \/ tf_utf8_next(s, i).code_point # TF_BOM
Chars(s, i, e) == {j \in i .. e - 1 : Boundary(s, j) /\ Counted(s, j)}
ScanStep(s, e, f, i) ==
  IF i >= e THEN 0
  ELSE (IF Counted(s, i) THEN 1 ELSE 0) + f[i + tf_utf8_next(s, i).length]

(* There is a scan: from the end of the buffer back, one offset at a time. *)
LEMMA ScanExists ==
  ASSUME NEW s \in Sources, NEW e \in 0 .. Len(s)
  PROVE  \E f : f = [i \in 0 .. Len(s) |-> ScanStep(s, e, f, i)]
<1> DEFINE n == Len(s)
           Scans(j) == \E f : f = [i \in n - j .. n |-> ScanStep(s, e, f, i)]
<1>1. n \in Nat /\ s \in Seq(Byte)
  BY SourceBytes
<1>2. \A i \in 0 .. n - 1 : tf_utf8_next(s, i).length \in Nat \ {0} /\ i + tf_utf8_next(s, i).length <= n
  <2> SUFFICES ASSUME NEW i \in 0 .. n - 1
               PROVE  tf_utf8_next(s, i).length \in Nat \ {0} /\ i + tf_utf8_next(s, i).length <= n
    OBVIOUS
  <2>1. i \in Nat /\ i < n
    BY <1>1
  <2>2. tf_utf8_next(s, i).length \in 1 .. 4 /\ i + tf_utf8_next(s, i).length <= n
    BY <1>1, <2>1, NextCharacter, Zenon
  <2> QED BY <2>2
<1> HIDE DEF n
<1>3. ASSUME ~Scans(n)
      PROVE  FALSE
  <2> DEFINE Lacking == {j \in Nat : j <= n /\ ~Scans(j)}
  <2>1. PICK j \in Lacking : \A h \in Lacking : <<h, j>> \notin OpToRel(<, Nat)
    <3>1. Lacking \subseteq Nat /\ Lacking # {}
      <4> HIDE DEF Scans
      <4> QED BY <1>1, <1>3
    <3> HIDE DEF Lacking
    <3> QED BY <3>1, WFMin, NatLessThanWellFounded, Zenon
  <2>2. \A h \in Lacking : ~(h < j)
    BY <2>1 DEF OpToRel
  <2>3. CASE j = 0
    <3> DEFINE f == [i \in n .. n |-> 0]
    <3>1. \A i \in n .. n : ScanStep(s, e, f, i) = 0
      BY <1>1 DEF ScanStep, n
    <3>2. f = [i \in n .. n |-> ScanStep(s, e, f, i)]
      BY <3>1
    <3>3. n - j = n
      BY <1>1, <2>3
    <3> HIDE DEF f
    <3>4. Scans(j)
      BY <3>2, <3>3
    <3> QED BY <3>4
  <2>4. CASE j # 0
    <3>1. j - 1 \in Nat /\ j - 1 <= n /\ j - 1 < j
      BY <1>1, <2>4
    <3>2. Scans(j - 1)
      <4> HIDE DEF Scans
      <4> QED BY <3>1, <2>2
    <3>3. PICK f : f = [i \in n - (j - 1) .. n |-> ScanStep(s, e, f, i)]
      BY <3>2
    <3> DEFINE a == n - j
               g == [i \in a .. n |-> IF i = a THEN ScanStep(s, e, f, a) ELSE f[i]]
    <3>4. a \in 0 .. n - 1 /\ n - (j - 1) = a + 1
      BY <1>1, <3>1
    <3> HIDE DEF a
    <3>5. \A i \in a + 1 .. n : f[i] = ScanStep(s, e, f, i) /\ g[i] = f[i]
      <4>1. f = [i \in a + 1 .. n |-> ScanStep(s, e, f, i)]
        BY <3>3, <3>4, Zenon
      <4>2. \A i \in a + 1 .. n : i \in a .. n /\ i # a
        BY <1>1, <3>4
      <4>3. \A i \in a + 1 .. n : f[i] = ScanStep(s, e, f, i)
        BY <4>1, Zenon
      <4> QED BY <4>2, <4>3
    <3>6. ASSUME NEW i \in a .. n
          PROVE  g[i] = ScanStep(s, e, g, i)
      <4>1. g[i] = ScanStep(s, e, f, i)
        <5>1. CASE i = a
          BY <5>1, <1>1, <3>4
        <5>2. CASE i # a
          <6>1. i \in a + 1 .. n
            BY <5>2, <1>1, <3>4
          <6> HIDE DEF g
          <6> QED BY <6>1, <3>5
        <5> QED BY <5>1, <5>2
      <4>2. CASE i >= e
        <5> HIDE DEF g
        <5> QED BY <4>1, <4>2 DEF ScanStep
      <4>3. CASE ~(i >= e)
        <5> DEFINE z == i + tf_utf8_next(s, i).length
        <5>1. i \in 0 .. n - 1 /\ i >= a
          BY <1>1, <3>4, <4>3 DEF n
        <5>2. z \in a + 1 .. n
          BY <1>1, <1>2, <3>4, <5>1
        <5>3. g[z] = f[z]
          <6> HIDE DEF z, g
          <6> QED BY <5>2, <3>5
        <5> HIDE DEF g
        <5> QED BY <4>1, <5>3 DEF ScanStep
      <4> QED BY <4>2, <4>3
    <3>7. g = [i \in a .. n |-> ScanStep(s, e, g, i)]
      <4>1. g = [i \in a .. n |-> g[i]]
        OBVIOUS
      <4> HIDE DEF g
      <4> QED BY <3>6, <4>1
    <3> HIDE DEF g
    <3>8. Scans(j)
      BY <3>7 DEF a
    <3> QED BY <3>8
  <2> QED BY <2>3, <2>4
<1>4. n - n = 0
  BY <1>1
<1> QED BY <1>3, <1>4 DEF n

(* What a scan finds between a place where a character starts and e, where *)
(* one does: it steps from each to the next, and stops at e.               *)
LEMMA ScanCounts ==
  ASSUME NEW s \in Sources, NEW e \in 0 .. Len(s), Boundary(s, e),
         NEW f, f = [i \in 0 .. Len(s) |-> ScanStep(s, e, f, i)],
         NEW b \in 0 .. e, Boundary(s, b)
  PROVE  f[b] = Cardinality(Chars(s, b, e))
<1> DEFINE n == Len(s)
           Right(i) == f[i] = Cardinality(Chars(s, i, e))
<1>1. n \in Nat /\ s \in Seq(Byte) /\ e \in Nat /\ b \in Nat /\ e <= n
  BY SourceBytes
<1>2. \A i \in 0 .. n : f[i] = ScanStep(s, e, f, i)
  BY Zenon DEF n
<1> HIDE DEF n
<1>3. ASSUME ~Right(b)
      PROVE  FALSE
  <2> DEFINE Wrong == {k \in Nat : k <= e /\ Boundary(s, e - k) /\ ~Right(e - k)}
  <2>1. PICK k \in Wrong : \A h \in Wrong : <<h, k>> \notin OpToRel(<, Nat)
    <3>1. Wrong \subseteq Nat /\ Wrong # {}
      <4>1. e - b \in Nat /\ e - b <= e /\ e - (e - b) = b
        BY <1>1
      <4>2. e - b \in Wrong
        <5> HIDE DEF Right
        <5> QED BY <4>1, <1>3
      <4> QED BY <4>2
    <3> HIDE DEF Wrong
    <3> QED BY <3>1, WFMin, NatLessThanWellFounded, Zenon
  <2>2. \A h \in Wrong : ~(h < k)
    BY <2>1 DEF OpToRel
  <2> DEFINE i == e - k
  <2>3. i \in 0 .. n /\ i <= e /\ Boundary(s, i) /\ ~Right(i) /\ k = e - i /\ k \in Nat
    <3> HIDE DEF Right
    <3>1. k \in Nat /\ k <= e /\ Boundary(s, i) /\ ~Right(i)
      OBVIOUS
    <3> QED BY <1>1, <3>1
  <2> HIDE DEF Wrong, i, Right
  <2>4. f[i] = ScanStep(s, e, f, i)
    BY <1>2, <2>3
  <2>5. CASE i = e
    <3>1. Chars(s, i, e) = {}
      BY <1>1, <2>5 DEF Chars
    <3>2. f[i] = 0
      BY <1>1, <2>4, <2>5 DEF ScanStep
    <3> QED BY <2>3, <3>1, <3>2, FS_EmptySet DEF Right
  <2>6. CASE i # e
    <3> DEFINE l == tf_utf8_next(s, i).length
               z == i + l
    <3>1. i \in Nat /\ i < e /\ i < n
      BY <1>1, <2>3, <2>6
    <3>2. l \in 1 .. 4 /\ z <= n
      BY <1>1, <3>1, NextCharacter, Zenon DEF n
    <3>3. Boundary(s, z)
      BY <1>1, <2>3, <3>1, NextBoundary, Zenon DEF n
    <3>4. \A h \in 1 .. l - 1 : ~Boundary(s, i + h)
      BY <1>1, <3>1, InsideStartsNone, Zenon DEF n
    <3>5. f[i] = (IF Counted(s, i) THEN 1 ELSE 0) + f[z]
      BY <1>1, <2>4, <3>1 DEF ScanStep
    <3> HIDE DEF l, z
    <3>6. z <= e
      <4> SUFFICES ASSUME e < z PROVE FALSE
        BY <1>1, <3>1, <3>2 DEF z
      <4>1. e - i \in 1 .. l - 1 /\ i + (e - i) = e
        BY <1>1, <3>1, <3>2 DEF z
      <4> QED BY <3>4, <4>1
    <3>7. Right(z)
      <4>1. e - z \in Nat /\ e - z < k /\ e - z <= e /\ e - (e - z) = z
        BY <1>1, <2>3, <3>1, <3>2, <3>6 DEF z
      <4>2. e - z \notin Wrong
        BY <2>2, <4>1
      <4> QED BY <3>3, <4>1, <4>2 DEF Wrong
    <3>8. Chars(s, i, e) = Chars(s, z, e) \cup {j \in {i} : Counted(s, j)}
      <4>1. ASSUME NEW j \in i .. e - 1, Boundary(s, j), j # i
            PROVE  j \in z .. e - 1
        <5> SUFFICES ASSUME j < z PROVE FALSE
          BY <1>1, <3>1, <3>2 DEF z
        <5>1. j - i \in 1 .. l - 1 /\ i + (j - i) = j
          BY <1>1, <3>1, <3>2, <4>1 DEF z
        <5> QED BY <3>4, <4>1, <5>1
      <4>2. z .. e - 1 \subseteq i .. e - 1 /\ i \in i .. e - 1
        BY <1>1, <3>1, <3>2 DEF z
      <4> QED BY <2>3, <4>1, <4>2 DEF Chars
    <3>9. IsFiniteSet(Chars(s, z, e)) /\ i \notin Chars(s, z, e)
      <4>1. z \in Int /\ e - 1 \in Int /\ i < z
        BY <1>1, <3>1, <3>2 DEF z
      <4>2. IsFiniteSet(z .. e - 1)
        BY <4>1, FS_Interval
      <4>3. Chars(s, z, e) \in SUBSET (z .. e - 1)
        BY DEF Chars
      <4> QED BY <3>1, <4>1, <4>2, <4>3, FS_Subset
    <3>10. Cardinality(Chars(s, z, e)) \in Nat
      BY <3>9, FS_CardinalityType
    <3>11. CASE Counted(s, i)
      <4>1. Chars(s, i, e) = Chars(s, z, e) \cup {i}
        BY <3>8, <3>11
      <4>2. Cardinality(Chars(s, i, e)) = Cardinality(Chars(s, z, e)) + 1
        BY <3>9, <4>1, FS_AddElement
      <4> QED BY <2>3, <3>5, <3>7, <3>10, <3>11, <4>2 DEF Right
    <3>12. CASE ~Counted(s, i)
      <4>1. Chars(s, i, e) = Chars(s, z, e)
        BY <3>8, <3>12
      <4> QED BY <2>3, <3>5, <3>7, <3>10, <3>12, <4>1 DEF Right
    <3> QED BY <3>11, <3>12
  <2> QED BY <2>5, <2>6
<1> QED BY <1>3

(* The byte order mark is told by its code point.                          *)
LEMMA CountedExactly ==
  ASSUME NEW s \in Sources, NEW i \in Nat, i < Len(s)
  PROVE  Counted(s, i) <=>
           ~(i = 0 /\ WellFormed(s, 0, 3) /\ Payload(s, 0, 3) = TF_BOM)
<1>1. s \in Seq(Byte) /\ Len(s) \in Nat /\ 0 \in Nat /\ 3 \in 1 .. 4
  BY SourceBytes
<1> DEFINE d == tf_utf8_next(s, 0)
<1>2. /\ WellFormed(s, 0, 3) <=> d.code_point # TF_DECODE_ERROR /\ d.length = 3
      /\ WellFormed(s, 0, 3) => d = Decoded(Payload(s, 0, 3), 3)
  BY <1>1, NextExact, Zenon
<1>3. d.code_point = TF_BOM => d.length = 3
  BY <1>1, MarkIsThree, SMT DEF TF_BOM
<1> HIDE DEF d
<1>4. WellFormed(s, 0, 3) => d.code_point = Payload(s, 0, 3)
  BY <1>2, SMT DEF Decoded
<1>5. TF_BOM # TF_DECODE_ERROR
  BY SMT DEF TF_BOM, TF_DECODE_ERROR
<1>6. d.code_point = TF_BOM <=> WellFormed(s, 0, 3) /\ Payload(s, 0, 3) = TF_BOM
  BY <1>2, <1>3, <1>4, <1>5, Zenon
<1> QED BY <1>6, Zenon DEF Counted, d

(* "Unlike TFPoint.column this counts codepoints, and skips a byte order   *)
(* mark at offset 0": wherever the lexer stands, in any buffer,            *)
(* tf_lexer__get_column is the number of characters, well-formed or single *)
(* malformed bytes, since the line began.                                  *)
THEOREM LexerCountsCharacters == Spec => []ColumnCountsCharacters
<1>1. IInv => ColumnCountsCharacters
  <2> SUFFICES ASSUME IInv PROVE ColumnCountsCharacters
    OBVIOUS
  <2> DEFINE s == source
             e == at.byte
             b == at.byte - at.column
             count == CHOOSE f : f = [i \in 0 .. Len(s) |-> ScanStep(s, e, f, i)]
  <2>1. s \in Sources /\ Place(s, at)
    BY DEF IInv, Placement
  <2>2. e \in 0 .. Len(s) /\ Boundary(s, e)
    BY <2>1, SourceBytes, PlaceNat DEF Place
  <2>3. b \in 0 .. e /\ Boundary(s, b)
    BY <2>1, LineStartsWhole
  <2>4. count = [i \in 0 .. Len(s) |-> ScanStep(s, e, count, i)]
    <3> HIDE DEF s, e
    <3> QED BY <2>1, <2>2, ScanExists
  <2>5. tf_lexer__get_column = count[b]
    BY Zenon DEF tf_lexer__get_column, ScanStep, Counted, size
  <2> HIDE DEF count
  <2>6. count[b] = Cardinality(Chars(s, b, e))
    <3> HIDE DEF s, e, b
    <3> QED BY <2>1, <2>2, <2>3, <2>4, ScanCounts
  <2>7. \A i \in b .. e - 1 : Counted(s, i) <=>
          ~(i = 0 /\ WellFormed(source, 0, 3) /\ Payload(source, 0, 3) = TF_BOM)
    <3>1. \A i \in b .. e - 1 : i \in Nat /\ i < Len(s)
      <4>1. Len(s) \in Nat
        BY <2>1, SourceBytes
      <4> HIDE DEF s, e, b
      <4> QED BY <2>2, <2>3, <4>1
    <3> HIDE DEF e, b
    <3> QED BY <2>1, <3>1, CountedExactly
  <2> DEFINE Columns == {i \in b .. e - 1 :
               /\ Boundary(source, i)
               /\ ~(i = 0 /\ WellFormed(source, 0, 3) /\ Payload(source, 0, 3) = TF_BOM)}
  <2>8. Chars(s, b, e) = Columns
    <3> HIDE DEF b, e
    <3> QED BY <2>7, Zenon DEF Chars
  <2>9. ColumnCountsCharacters <=> tf_lexer__get_column = Cardinality(Columns)
    BY Zenon DEF ColumnCountsCharacters
  <2> HIDE DEF Columns, b, e, s
  <2> QED BY <2>5, <2>6, <2>8, <2>9
<1> QED BY <1>1, LexerInvariance, PTL
=============================================================================
