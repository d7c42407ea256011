------------------------------- MODULE TFLexer ------------------------------
(***************************************************************************)
(* The lexer adapter of lib/src/tf_lexer.c: the callbacks a generated      *)
(* lex_fn drives, and tf_lexer_next, which runs it once for a token and    *)
(* once more, as the keyword lexer, over a token that is the word token.   *)
(*                                                                         *)
(* The generated lexers are the environment.  One skips separators, reads  *)
(* characters, accepts (result_symbol and mark_end) any number of times    *)
(* and returns; it skips before anything else only, and accepts nothing    *)
(* empty but the end of the file.  tf_parser_spec.h calls tf_lexer_seek to *)
(* go back to the end of an earlier token.                                 *)
(***************************************************************************)
EXTENDS TFUtf8, FiniteSets

CONSTANTS
  Sources,      \* the buffers considered
  TF_NO_END,    \* UINT32_MAX in the code, which a buffer may be as long as
  ParseState,   \* 0 is ERROR_STATE, which nothing is lexed in
  Symbol,
  End,          \* ts_builtin_sym_end
  Word,         \* keyword_capture_token
  Keywords,     \* what keyword_lex_fn accepts
  Usable        \* per parse state, the symbols with an entry or reserved there

ASSUME LexerAssumption ==
  /\ \A s \in Sources : s \in Seq(Byte) /\ Len(s) <= TF_NO_END
  /\ TF_NO_END \in Nat /\ 0 \in ParseState
  /\ {End, Word} \subseteq Symbol /\ Keywords \subseteq Symbol \ {End, Word}
  /\ End # Word
  /\ Usable \in [ParseState -> SUBSET Symbol]

VARIABLES
  source,
  at,               \* byte and point
  lookahead, lookahead_size,
  token_start,
  token_end,        \* byte TF_NO_END until mark_end
  result_symbol,
  token_is_keyword, token_lex_state,
  out,              \* *out of the last tf_lexer_next
  phase,            \* "ready", a lexer running ("main", "keyword"), "returned" or "failed"
  skipping,         \* environment: the lexer has done nothing but skip
  accepted,         \* history: where the running lexer last accepted
  from,             \* history: where the last tf_lexer_next began
  mark              \* history: where one of the tokens so far ended, or the start

lookvars  == <<lookahead, lookahead_size>>
tokenvars == <<token_start, token_end, result_symbol>>
outvars   == <<token_is_keyword, token_lex_state, out>>
envvars   == <<phase, skipping, accepted, from, mark>>
vars == <<source, at, lookvars, tokenvars, outvars, envvars>>

size == Len(source)
TF_BOM == 65279
NewLine == 10

Position == [byte : 0 .. TF_NO_END, row : 0 .. TF_NO_END, column : 0 .. TF_NO_END]
Origin == [byte |-> 0, row |-> 0, column |-> 0]
Unmarked == [byte |-> TF_NO_END, row |-> 0, column |-> 0]
Nowhere == [byte |-> -1, row |-> 0, column |-> 0]
NoToken == [symbol |-> End, start |-> Origin, end |-> Origin]

tf_lexer__eof == at.byte >= size

(* tf_lexer__get_lookahead: what is seen at offset b.                      *)
Looking(b) ==
  IF b >= size THEN Decoded(0, 1) ELSE tf_utf8_next(source, b)

tf_lexer__get_lookahead(b) ==
  /\ lookahead' = Looking(b).code_point
  /\ lookahead_size' = Looking(b).length

(* Mutant: moves and keeps the old lookahead. *)
SeekStale(p) == at' = p /\ UNCHANGED <<lookahead, lookahead_size>>

tf_lexer_seek(p) == at' = p /\ tf_lexer__get_lookahead(p.byte)

(* Mutant: the column counts characters. *)
AheadByCharacter ==
  [byte   |-> at.byte + lookahead_size,
   row    |-> IF lookahead = NewLine THEN at.row + 1 ELSE at.row,
   column |-> IF lookahead = NewLine THEN 0 ELSE at.column + 1]

(* The position behind the lookahead: only a newline advances the row, and *)
(* the column counts bytes.                                                *)
Ahead ==
  [byte   |-> at.byte + lookahead_size,
   row    |-> IF lookahead = NewLine THEN at.row + 1 ELSE at.row,
   column |-> IF lookahead = NewLine THEN 0 ELSE at.column + lookahead_size]

tf_lexer__do_advance(skip) ==
  /\ tf_lexer_seek(Ahead)
  /\ token_start' = IF skip THEN Ahead ELSE token_start

tf_lexer__advance(skip) ==
  \/ tf_lexer__eof /\ UNCHANGED <<at, token_start, lookvars>>
  \/ ~tf_lexer__eof /\ tf_lexer__do_advance(skip)

(* tf_lexer__start at position p with lookahead `seen`, which it does not  *)
(* decode again.  A byte order mark that starts the buffer is skipped.     *)
tf_lexer__start(p, seen) ==
  LET past == [byte   |-> p.byte + seen.length,
               row    |-> p.row,
               column |-> p.column + seen.length]
  IN
  /\ token_end' = Unmarked
  /\ result_symbol' = End
  /\ \/ /\ p.byte = 0 /\ size > 0 /\ seen.code_point = TF_BOM
        /\ token_start' = past
        /\ tf_lexer_seek(past)
     \/ /\ ~(p.byte = 0 /\ size > 0 /\ seen.code_point = TF_BOM)
        /\ token_start' = p
        /\ at' = p /\ lookahead' = seen.code_point /\ lookahead_size' = seen.length

(* Mutant: the token always ends where the lexer stopped. *)
FinishHere(e) == at

(* tf_lexer__finish: the end of the token, once the lexer returned.        *)
tf_lexer__finish(e) == IF e.byte = TF_NO_END THEN at ELSE e

(* Mutant: a byte order mark counts. *)
get_column_marked ==
  LET count[i \in 0 .. size] ==
        IF i >= at.byte THEN 0 ELSE 1 + count[i + tf_utf8_next(source, i).length]
  IN  count[at.byte - at.column]

(* tf_lexer__get_column: rescans the line.                                 *)
tf_lexer__get_column ==
  LET count[i \in 0 .. size] ==
        IF i >= at.byte THEN 0
        ELSE LET d == tf_utf8_next(source, i)
             IN  (IF i # 0 \/ d.code_point # TF_BOM THEN 1 ELSE 0) + count[i + d.length]
  IN  count[at.byte - at.column]

-----------------------------------------------------------------------------
(* tf_lexer_init. *)
Init ==
  /\ source \in Sources
  /\ at = Origin
  /\ lookahead = Looking(0).code_point
  /\ lookahead_size = Looking(0).length
  /\ token_start = Origin /\ token_end = Origin /\ result_symbol = End
  /\ token_is_keyword = FALSE
  /\ token_lex_state = 0
  /\ out = NoToken
  /\ phase = "ready" /\ skipping = FALSE
  /\ accepted = Nowhere /\ from = Origin /\ mark = Origin

(* tf_lexer_next, up to the call of lex_fn. *)
tf_lexer_next(state) ==
  /\ phase \in {"ready", "returned"}
  /\ token_is_keyword' = FALSE
  /\ token_lex_state' = state
  /\ tf_lexer__start(at, Decoded(lookahead, lookahead_size))
  /\ phase' = "main" /\ skipping' = TRUE /\ accepted' = Nowhere /\ from' = at
  /\ UNCHANGED <<source, out, mark>>

Running == phase \in {"main", "keyword"}

(* SKIP, ADVANCE and ACCEPT_TOKEN of a generated lexer. *)
Skip ==
  /\ Running /\ skipping
  /\ tf_lexer__advance(TRUE)
  /\ UNCHANGED <<source, token_end, result_symbol, outvars, envvars>>

Read ==
  /\ Running
  /\ tf_lexer__advance(FALSE)
  /\ skipping' = FALSE
  /\ UNCHANGED <<source, token_end, result_symbol, outvars, phase, accepted, from, mark>>

(* With it tf_lexer__mark_end. *)
AcceptToken(symbol) ==
  /\ Running
  /\ phase = "keyword" => symbol \in Keywords
  /\ symbol = End <=> at.byte = token_start.byte
  /\ symbol = End => tf_lexer__eof
  /\ result_symbol' = symbol
  /\ token_end' = at
  /\ skipping' = FALSE /\ accepted' = at
  /\ UNCHANGED <<source, at, lookvars, token_start, outvars, phase, from, mark>>

(* lex_fn returns without a token.  The position stays where it stopped.   *)
MainFails ==
  /\ phase = "main" /\ accepted = Nowhere
  /\ token_end' = tf_lexer__finish(token_end)
  /\ phase' = "failed" /\ skipping' = FALSE
  /\ UNCHANGED <<source, at, lookvars, token_start, result_symbol, outvars,
                 accepted, from, mark>>

(* lex_fn returns with a token: a word is read again by the keyword lexer. *)
MainReturns ==
  LET token == [symbol |-> result_symbol, start |-> token_start,
                end |-> tf_lexer__finish(token_end)]
  IN  /\ phase = "main" /\ accepted # Nowhere
      /\ out' = token
      /\ \/ /\ token.symbol = Word
            /\ tf_lexer__start(token.start, Looking(token.start.byte))
            /\ phase' = "keyword" /\ skipping' = TRUE /\ accepted' = Nowhere
            /\ UNCHANGED mark
         \/ /\ token.symbol # Word
            /\ token_end' = token.end
            /\ tf_lexer_seek(token.end)
            /\ phase' = "returned" /\ skipping' = FALSE
            /\ mark' \in {mark, token.end}
            /\ UNCHANGED <<token_start, result_symbol, accepted>>
      /\ UNCHANGED <<source, token_is_keyword, token_lex_state, from>>

(* Mutant: where the keyword lexer ended does not matter. *)
KeywordAnywhere(end) == accepted # Nowhere /\ result_symbol \in Usable[token_lex_state]

(* The keyword lexer accepted, over the same bytes, a symbol the state has *)
(* an entry for or reserves.                                               *)
IsKeyword(end) ==
  /\ accepted # Nowhere
  /\ end.byte = out.end.byte
  /\ result_symbol \in Usable[token_lex_state]

(* Mutant: left where the keyword lexer stopped. *)
Stay(p) == UNCHANGED <<at, lookvars>>

(* "The keyword lexer may have stopped past the token": back to its end.   *)
Reposition(p) == tf_lexer_seek(p)

KeywordReturns ==
  LET end == tf_lexer__finish(token_end) IN
  /\ phase = "keyword"
  /\ token_end' = end
  /\ out' = IF IsKeyword(end) THEN [out EXCEPT !.symbol = result_symbol] ELSE out
  /\ token_is_keyword' = IsKeyword(end)
  /\ Reposition(out.end)
  /\ phase' = "returned" /\ skipping' = FALSE
  /\ mark' \in {mark, out.end}
  /\ UNCHANGED <<source, token_start, result_symbol, token_lex_state, accepted, from>>

(* tf_parser_spec.h takes an alternative up where it stands, also after    *)
(* another one met no token.                                               *)
SpecSeek ==
  /\ phase \in {"ready", "returned", "failed"}
  /\ tf_lexer_seek(mark)
  /\ phase' = "ready"
  /\ UNCHANGED <<source, tokenvars, outvars, skipping, accepted, from, mark>>

Next ==
  \/ \E s \in ParseState \ {0} : tf_lexer_next(s)
  \/ Skip
  \/ Read
  \/ \E symbol \in Symbol : AcceptToken(symbol)
  \/ MainFails
  \/ MainReturns
  \/ KeywordReturns
  \/ SpecSeek

Spec == Init /\ [][Next]_vars

-----------------------------------------------------------------------------
Token == [symbol : Symbol, start : Position, end : Position]

(* The lexer's fields keep their types, and never leave the buffer: a read *)
(* at its end goes nowhere.                                                *)
TypeOK ==
  /\ source \in Sources
  /\ at \in Position /\ at.byte <= size
  /\ lookahead \in -1 .. MaxCodePoint /\ lookahead_size \in 1 .. 4
  /\ token_start \in Position /\ token_end \in Position
  /\ result_symbol \in Symbol
  /\ token_is_keyword \in BOOLEAN /\ token_lex_state \in ParseState
  /\ out \in Token
  /\ phase \in {"ready", "main", "keyword", "returned", "failed"}
  /\ skipping \in BOOLEAN
  /\ accepted \in Position \cup {Nowhere} /\ from \in Position
  /\ mark \in Position

(* tf_lexer__start does not decode: "only tf_lexer_seek and                *)
(* tf_lexer__do_advance move the position, and both refresh the            *)
(* lookahead".  Whatever was skipped, read, re-lexed or sought, the        *)
(* lookahead is that of the current position.                              *)
LookaheadFresh == Decoded(lookahead, lookahead_size) = Looking(at.byte)

(* p is a place in the source: the row counts the newlines before it, the  *)
(* column the bytes since the last, and it does not split a character.     *)
TruePosition(p) ==
  LET newlines == {i \in 1 .. p.byte : source[i] = NewLine} IN
  /\ p.byte <= size
  /\ p.row = Cardinality(newlines)
  /\ p.column = p.byte - (IF newlines = {} THEN 0
                          ELSE CHOOSE i \in newlines : \A j \in newlines : j <= i)
  /\ Boundary(source, p.byte)

(* Byte and point are kept side by side through advances, keyword re-lexes *)
(* and seeks, and handed out in tokens: they never disagree, also not over *)
(* malformed or cut-off characters, which advance by one byte.             *)
PositionsTrue ==
  /\ TypeOK
  /\ \A p \in {at, token_start, out.start, out.end, mark} : TruePosition(p)
  /\ token_end.byte # TF_NO_END => TruePosition(token_end)

(* What the driver relies on (action Lex of TFParser): a token lies ahead  *)
(* of where it was looked for, without a byte order mark, has a width      *)
(* unless it is the end of the file, and the next one is looked for where  *)
(* it ends -- though both lexers may have read past it.                    *)
TokensAhead ==
  /\ phase \in {"keyword", "returned"} =>
       /\ from.byte <= out.start.byte /\ out.start.byte <= out.end.byte
       /\ out.start.byte = out.end.byte <=> out.symbol = End
       /\ from.byte = 0 /\ Looking(0).code_point = TF_BOM => out.start.byte >= 3
  /\ phase = "returned" => at = out.end
  /\ phase = "failed" => from.byte <= at.byte

(* The main lexer's token ends where that lexer last accepted, not where   *)
(* it stopped, and the keyword lexer does not change that; TF_NO_END being *)
(* a length a buffer can have makes no difference.                         *)
EndsAtAccept ==
  [][/\ phase = "main" /\ phase' \in {"keyword", "returned"} => out'.end = accepted
     /\ phase = "keyword" => out'.start = out.start /\ out'.end = out.end]_vars

(* A word is reclassified only if the keyword lexer accepted exactly its   *)
(* bytes and its state has a use for the keyword, which the driver's       *)
(* demotion (tf_parser__demote_keyword) takes for granted.                 *)
KeywordsJudged ==
  phase = "returned" /\ token_is_keyword =>
    /\ accepted = out.end
    /\ out.symbol \in Usable[token_lex_state]

(* "Unlike TFPoint.column this counts codepoints, and skips a byte order   *)
(* mark at offset 0": tf_lexer__get_column is the number of characters,    *)
(* well-formed or single malformed bytes, between the line's start and the *)
(* position.                                                               *)
ColumnCountsCharacters ==
  tf_lexer__get_column =
    Cardinality({i \in at.byte - at.column .. at.byte - 1 :
                   /\ Boundary(source, i)
                   /\ ~(i = 0 /\ WellFormed(source, 0, 3) /\ Payload(source, 0, 3) = TF_BOM)})
=============================================================================
