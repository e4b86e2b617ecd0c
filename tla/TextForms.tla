----------------------------- MODULE TextForms -----------------------------
(***************************************************************************)
(* How text becomes words and values: the line of a shell session is cut   *)
(* into words, and the literals in an argument are freed of their escapes. *)
(* A text is a sequence of code points, a binary value one of bytes.       *)
(*                                                                         *)
(* The functions of the code that walk over a text with a state are folds  *)
(* of one step here; a state carries the mode and what was read so far.    *)
(* A text that cannot be read gives None.                                  *)
(***************************************************************************)
EXTENDS Integers, Sequences, SequencesExt, Options

Space == 32
DoubleQuote == 34
Quote == 39
Backslash == 92
\* char::is_whitespace.
Blanks == (9..13) \cup {Space, 133, 160, 5760, 8232, 8233, 8239, 8287, 12288} \cup (8192..8202)

LowerB == 98
LowerU == 117
LowerX == 120

-----------------------------------------------------------------------------
(* Words of a line *)

\* trim_end of read_line.
TrimEnd(t) ==
  LET inked == {i \in DOMAIN t : t[i] \notin Blanks}
  IN IF inked = {} THEN <<>> ELSE SubSeq(t, 1, CHOOSE i \in inked : \A j \in inked : j <= i)

EndOfWord(s) == [mode |-> "between", words |-> Append(s.words, s.word), word |-> <<>>]
Push(s, c) == [s EXCEPT !.word = Append(@, c)]

\* Mutation of WordStep: a backslash in quotes stands for itself.
WordStepPlain(s, c) ==
  CASE s.mode = "between" /\ c \in Blanks -> s
    [] s.mode = "between" /\ c = Quote -> [s EXCEPT !.mode = "quoted"]
    [] s.mode = "between" /\ c \notin Blanks \cup {Quote} -> Push([s EXCEPT !.mode = "bare"], c)
    [] s.mode = "bare" -> IF c = Space THEN EndOfWord(s) ELSE Push(s, c)
    [] s.mode = "quoted" -> IF c = Quote THEN EndOfWord(s) ELSE Push(s, c)

\* parse.  A word in quotes ends with its quote, whatever follows; any other word
\* ends with a space, other blanks are part of it.
WordStep(s, c) ==
  CASE s.mode = "between" /\ c \in Blanks -> s
    [] s.mode = "between" /\ c = Quote -> [s EXCEPT !.mode = "quoted"]
    [] s.mode = "between" /\ c \notin Blanks \cup {Quote} -> Push([s EXCEPT !.mode = "bare"], c)
    [] s.mode = "bare" -> IF c = Space THEN EndOfWord(s) ELSE Push(s, c)
    [] s.mode = "quoted" /\ c = Quote -> EndOfWord(s)
    [] s.mode = "quoted" /\ c = Backslash -> [s EXCEPT !.mode = "escape"]
    [] s.mode = "quoted" /\ c \notin {Quote, Backslash} -> Push(s, c)
    [] s.mode = "escape" -> Push([s EXCEPT !.mode = "quoted"], c)

Words(line) ==
  LET end == FoldLeft(WordStep, [mode |-> "between", words |-> <<>>, word |-> <<>>], TrimEnd(line))
  IN CASE end.mode = "between" -> end.words
       [] end.mode = "bare" -> Append(end.words, end.word)
       [] end.mode \in {"quoted", "escape"} -> None

-----------------------------------------------------------------------------
(* Literals *)

Digits == 48..57
HexValue(c) ==
  CASE c \in Digits -> c - 48
    [] c \in 97..102 -> c - 87
    [] c \in 65..70 -> c - 55
    [] OTHER -> None

\* What a letter stands for behind a backslash.
Meaning == [c \in {48, 98, 102, 110, 114, 116} |->
              CASE c = 48 -> 0 [] c = 98 -> 8 [] c = 102 -> 12
                [] c = 110 -> 10 [] c = 114 -> 13 [] c = 116 -> 9]

HighSurrogates == 55296..56319
LowSurrogates == 56320..57343

CharState(mode, out, unit, count, high) ==
  [mode |-> mode, out |-> out, unit |-> unit, count |-> count, high |-> high]
Normal(out) == CharState("normal", out, 0, 0, 0)
Begun == Normal(<<>>)
Fails(s) == [s EXCEPT !.mode = "error"]
Emit(s, c) == Normal(Append(s.out, c))

\* The character of two halves.
Supplementary == 65536
Pair(high, low) == Supplementary + (high - 55296) * 1024 + (low - 56320)

\* The end of a \uXXXX: a character, the first half of one, or its second half.
UnitRead(s, unit) ==
  CASE s.high = 0 /\ unit \notin HighSurrogates \cup LowSurrogates -> Emit(s, unit)
    [] s.high = 0 /\ unit \in HighSurrogates \cup LowSurrogates -> CharState("second", s.out, 0, 0, unit)
    [] s.high \in HighSurrogates /\ unit \in LowSurrogates -> Emit(s, Pair(s.high, unit))
    [] OTHER -> Fails(s)

\* parse_internal_double_quote_string.
CharStep(s, c) ==
  CASE s.mode = "error" -> s
    [] s.mode = "normal" -> IF c = Backslash THEN [s EXCEPT !.mode = "escape"] ELSE Emit(s, c)
    [] s.mode = "escape" -> IF c = LowerU THEN [s EXCEPT !.mode = "hex"]
                            ELSE Emit(s, IF c \in DOMAIN Meaning THEN Meaning[c] ELSE c)
    [] s.mode = "hex" /\ HexValue(c) = None -> Fails(s)
    [] s.mode = "hex" /\ HexValue(c) # None ->
         LET unit == s.unit * 16 + HexValue(c)
         IN IF s.count = 3 THEN UnitRead(s, unit) ELSE CharState("hex", s.out, unit, s.count + 1, s.high)
    [] s.mode = "second" -> IF c = Backslash THEN [s EXCEPT !.mode = "secondu"] ELSE Fails(s)
    [] s.mode = "secondu" -> IF c = LowerU THEN [s EXCEPT !.mode = "hex"] ELSE Fails(s)

Unescaped(t) ==
  LET end == FoldLeft(CharStep, Begun, t) IN IF end.mode = "normal" THEN end.out ELSE None

\* The states of parse_internal_binary_literal and, with continued lines, of
\* parse_internal_binary_string.
ByteStep(s, c, continued) ==
  CASE s.mode = "error" -> s
    [] s.mode = "normal" \/ (s.mode = "skip" /\ c \notin {9, 10, 13, Space}) ->
         IF c = Backslash THEN [s EXCEPT !.mode = "escape"] ELSE Emit(s, c)
    [] s.mode = "skip" /\ c \in {9, 10, 13, Space} -> s
    [] s.mode = "escape" ->
         CASE c = LowerX -> [s EXCEPT !.mode = "hex"]
           [] c \in {48, 110, 114, 116} -> Emit(s, Meaning[c])
           [] c \in {Backslash, Quote, DoubleQuote} -> Emit(s, c)
           [] continued /\ c \in {10, 13} -> [s EXCEPT !.mode = "skip"]
           [] OTHER -> Fails(s)
    [] s.mode = "hex" /\ HexValue(c) = None -> Fails(s)
    [] s.mode = "hex" /\ HexValue(c) # None ->
         IF s.count = 1 THEN Emit(s, s.unit * 16 + HexValue(c))
         ELSE CharState("hex", s.out, HexValue(c), 1, s.high)

\* What is incomplete at the end is dropped.
Bytes(t, continued) ==
  LET end == FoldLeft(LAMBDA s, c : ByteStep(s, c, continued), Begun, t)
  IN IF end.mode = "error" THEN None ELSE end.out

BinaryLiteral(t) == Bytes(t, FALSE)
BinaryString(t) == Bytes(t, TRUE)

\* convert_to_escaped_json_string.
HexDigit(d) == IF d < 10 THEN 48 + d ELSE 87 + d
EscapedChar(c) ==
  LET letters == {l \in DOMAIN Meaning \ {48} : Meaning[l] = c}
  IN CASE c \in {DoubleQuote, Backslash} -> <<Backslash, c>>
       [] letters # {} -> <<Backslash, CHOOSE l \in letters : TRUE>>
       [] letters = {} /\ c \in (0..31) \cup (127..159) ->
            <<Backslash, LowerU, 48, 48, HexDigit(c \div 16), HexDigit(c % 16)>>
       [] OTHER -> <<c>>
Escaped(t) == FlattenSeq([i \in DOMAIN t |-> EscapedChar(t[i])])

-----------------------------------------------------------------------------
(* parse_literal, for the literals whose inside needs reading *)

Inside(t) == SubSeq(t, 2, Len(t) - 1)

Value(type, content) == IF content = None THEN None ELSE [t \in {type} |-> content]

Literal(t) ==
  CASE t[1] = DoubleQuote -> Value("S", Unescaped(Inside(t)))
    [] t[1] = Quote -> Value("S", Inside(t))
    [] t[1] = LowerB /\ t[2] = DoubleQuote -> Value("B", BinaryString(Inside(Tail(t))))
    [] t[1] = LowerB /\ t[2] = Quote -> Value("B", BinaryLiteral(Inside(Tail(t))))

-----------------------------------------------------------------------------
(* How one writes what the above is meant to read *)

LastCodePoint == 1114111
CodePoints == {c \in Nat : c <= LastCodePoint /\ c \notin HighSurrogates /\ c \notin LowSurrogates}
Octets == 0..255

Enclosed(mark, t) == <<mark>> \o t \o <<mark>>

\* The four digits of a unit of UTF-16 behind \u, or of two for what needs two.
Hex4(u) == <<Backslash, LowerU, HexDigit(u \div 4096), HexDigit((u \div 256) % 16),
             HexDigit((u \div 16) % 16), HexDigit(u % 16)>>
UnicodeChar(c) ==
  IF c < Supplementary THEN Hex4(c)
  ELSE Hex4(55296 + ((c - Supplementary) \div 1024)) \o Hex4(56320 + ((c - Supplementary) % 1024))
Unicode(t) == FlattenSeq([i \in DOMAIN t |-> UnicodeChar(t[i])])

\* Octets that are not left as they are get two digits behind \x.
OctetChar(c) ==
  IF c \in (35..91) \ {Quote} THEN <<c>> ELSE <<Backslash, LowerX, HexDigit(c \div 16), HexDigit(c % 16)>>
HexOctets(t) == FlattenSeq([i \in DOMAIN t |-> OctetChar(t[i])])

\* A text without quotes may stand in quotes as it is; a string of octets may begin
\* on a new line.
TextLiterals(t) ==
  {Enclosed(DoubleQuote, Escaped(t)), Enclosed(DoubleQuote, Unicode(t))}
  \cup (IF Quote \in ToSet(t) THEN {} ELSE {Enclosed(Quote, t)})
OctetLiterals(b) ==
  {<<LowerB>> \o Enclosed(DoubleQuote, HexOctets(b)), <<LowerB>> \o Enclosed(Quote, HexOctets(b)),
   <<LowerB>> \o Enclosed(DoubleQuote, <<Backslash, 10, Space>> \o HexOctets(b))}

\* The literals of a value.
LiteralsOf(v) == IF DOMAIN v = {"S"} THEN TextLiterals(v.S) ELSE OctetLiterals(v.B)
Typable(v) ==
  \/ v \in [{"S"} -> Seq(CodePoints)] /\ v.S # None
  \/ v \in [{"B"} -> Seq(Octets)] /\ v.B # None

\* In the quotes of the shell, a backslash goes before quotes and backslashes.
ShellChar(c) == IF c \in {Quote, Backslash} THEN <<Backslash, c>> ELSE <<c>>
ShellQuoted(t) == Enclosed(Quote, FlattenSeq([i \in DOMAIN t |-> ShellChar(t[i])]))

\* A line of words, each in those quotes or, if it may be, as it is, and blanks
\* behind them.
Plain(w) == w # <<>> /\ ToSet(w) \cap Blanks = {} /\ w[1] # Quote
Parts == [word : Seq(CodePoints), quoted : BOOLEAN, gap : Seq(Blanks)]
IsLine(parts) ==
  /\ parts # <<>> /\ parts \in Seq(Parts)
  /\ \A i \in DOMAIN parts :
       ~parts[i].quoted => /\ Plain(parts[i].word)
                           /\ (i < Len(parts) => parts[i].gap # <<>> /\ parts[i].gap[1] = Space)
Written(p) == (IF p.quoted THEN ShellQuoted(p.word) ELSE p.word) \o p.gap
Line(parts) == FlattenSeq([i \in DOMAIN parts |-> Written(parts[i])])
WordsOf(parts) == [i \in DOMAIN parts |-> parts[i].word]
=============================================================================
