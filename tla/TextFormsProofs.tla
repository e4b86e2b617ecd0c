--------------------------- MODULE TextFormsProofs ---------------------------
(***************************************************************************)
(* Proofs about TextForms: a line of the shell is cut into the words that  *)
(* were written in it, and a literal is read as the value it was written   *)
(* for, whatever the words, the values and the ways to write them.  What   *)
(* folds over a text is a walk of Recursion, from a state to the next.     *)
(***************************************************************************)
EXTENDS TextForms, Recursion

-----------------------------------------------------------------------------
(* Reading what was written: lines *)

\* The states in which a line is cut into words.
WordStates ==
  [mode : {"between", "bare", "quoted", "escape"}, words : Seq(Seq(Nat)), word : Seq(Nat)]
WordMoves == [s \in WordStates |-> [c \in Nat |-> WordStep(s, c)]]
WordState(mode, words, word) == [mode |-> mode, words |-> words, word |-> word]

\* WordStep leads from one of them to another.
LEMMA WordStepMoves == Moves(WordMoves, WordStates, Nat)
<1>1. ASSUME NEW s \in WordStates, NEW c \in Nat PROVE WordStep(s, c) \in WordStates
  <2>1. /\ s.mode \in {"between", "bare", "quoted", "escape"} /\ s.words \in Seq(Seq(Nat)) /\ s.word \in Seq(Nat)
        /\ s = WordState(s.mode, s.words, s.word)
    BY DEF WordStates, WordState
  <2>2. Append(s.words, s.word) \in Seq(Seq(Nat)) /\ Append(s.word, c) \in Seq(Nat) /\ <<>> \in Seq(Nat)
    BY <2>1
  <2>3. EndOfWord(s) \in WordStates
    BY <2>2 DEF EndOfWord, WordStates
  <2>4. \A mode \in {"between", "bare", "quoted", "escape"} :
          /\ [s EXCEPT !.mode = mode] \in WordStates
          /\ Push([s EXCEPT !.mode = mode], c) \in WordStates
    BY <2>2 DEF Push, WordStates
  <2>5. Push(s, c) \in WordStates
    BY <2>2 DEF Push, WordStates
  <2> QED
    BY <2>1, <2>3, <2>4, <2>5 DEF WordStep
<1> QED
  BY <1>1 DEF Moves, WordMoves

\* What Words folds over a line.
LEMMA WordFold ==
  ASSUME NEW s \in WordStates, NEW t \in Seq(Nat)
  PROVE  FoldLeft(WordStep, s, t) = Fold(WordMoves, s, t)
<1> DEFINE Runs(iter) == iter = [x \in SUBSET DOMAIN t |->
                            IF x = {} THEN s ELSE WordStep(iter[x \ {Max(x)}], t[Max(x)])]
           found == CHOOSE iter : Runs(iter)
<1>1. Moves(WordMoves, WordStates, Nat)
  BY WordStepMoves
<1>2. PICK iter \in [SUBSET DOMAIN t -> WordStates] : Folds(WordMoves, s, t, iter)
  BY <1>1, FoldsExists
<1>3. Len(t) \in Nat /\ DOMAIN t = 1..Len(t) /\ \A k \in 1..Len(t) : t[k] \in Nat
  OBVIOUS
<1>4. \A a \in WordStates, c \in Nat : WordMoves[a][c] = WordStep(a, c)
  BY DEF WordMoves
<1>5. ASSUME NEW x \in SUBSET DOMAIN t, x # {}
      PROVE  WordMoves[iter[x \ {Max(x)}]][t[Max(x)]] = WordStep(iter[x \ {Max(x)}], t[Max(x)])
  <2>1. Max(x) \in x /\ x \in SUBSET (1..Len(t))
    BY <1>3, <1>5, GreatestIndex
  <2>2. t[Max(x)] \in Nat /\ iter[x \ {Max(x)}] \in WordStates
    BY <1>2, <1>3, <2>1
  <2> QED
    BY <1>4, <2>2
<1>6. Runs(iter)
  BY <1>2, <1>5 DEF Folds
<1>7. Runs(found)
  BY <1>6, Zenon
<1>8. FoldLeft(WordStep, s, t) = found[DOMAIN t]
  BY DEF FoldLeft, MapThenFoldSet
<1> HIDE DEF found
<1>9. found[{}] = s /\ DOMAIN found = SUBSET DOMAIN t
  BY <1>7
<1>10. ASSUME NEW k \in 1..Len(t), found[1..k - 1] \in WordStates
       PROVE  found[1..k] = WordMoves[found[1..k - 1]][t[k]]
  <2>1. Max(1..k) = k /\ (1..k) \ {k} = 1..k - 1 /\ 1..k # {} /\ 1..k \in SUBSET DOMAIN t
    BY <1>3, GreatestOfFirst
  <2>2. found[1..k] = WordStep(found[1..k - 1], t[k])
    BY <1>7, <2>1
  <2> QED
    BY <1>3, <1>4, <1>10, <2>2
<1>11. \A k \in 1..Len(t) :
         found[1..k - 1] \in WordStates => found[1..k] = WordMoves[found[1..k - 1]][t[k]]
  BY <1>10
<1>12. found[{}] = s
  BY <1>9
<1> HIDE DEF Runs
<1>13. found[DOMAIN t] = Fold(WordMoves, s, t)
  BY <1>1, <1>11, <1>12, FoldsIs
<1> QED
  BY <1>8, <1>13

\* BetweenWords two words.
BetweenWords(words) == WordState("between", words, <<>>)

\* What is known of the marks.
LEMMA Marks ==
  /\ {Space, DoubleQuote, Quote, Backslash, LowerB, LowerU, LowerX} \subseteq Nat
  /\ Quote \notin Blanks /\ Backslash \notin Blanks /\ Space \in Blanks /\ Blanks \subseteq Nat
  /\ CodePoints \subseteq Nat
<1>1. LastCodePoint \in Nat
  BY SMT DEF LastCodePoint
<1>2. CodePoints \subseteq Nat
  BY <1>1, SMT DEF CodePoints
<1> QED
  BY <1>2, SMT DEF Space, DoubleQuote, Quote, Backslash, LowerB, LowerU, LowerX, Blanks

\* These are states.
LEMMA WordStateIsOne ==
  ASSUME NEW ws \in Seq(Seq(Nat)), NEW w \in Seq(Nat), NEW mode \in {"between", "bare", "quoted", "escape"}
  PROVE  WordState(mode, ws, w) \in WordStates
BY DEF WordState, WordStates

\* And so is this.
LEMMA BetweenIsOne == \A ws \in Seq(Seq(Nat)) : BetweenWords(ws) \in WordStates
<1>1. <<>> \in Seq(Nat)
  OBVIOUS
<1> QED
  BY <1>1, WordStateIsOne DEF BetweenWords

\* The steps that are taken over what was written.
LEMMA WordStepsTaken ==
  ASSUME NEW ws \in Seq(Seq(Nat)), NEW w \in Seq(Nat), NEW c \in Nat
  PROVE  /\ c \in Blanks => WordMoves[BetweenWords(ws)][c] = BetweenWords(ws)
         /\ c = Quote => WordMoves[BetweenWords(ws)][c] = WordState("quoted", ws, <<>>)
         /\ c \notin Blanks /\ c # Quote => WordMoves[BetweenWords(ws)][c] = WordState("bare", ws, <<c>>)
         /\ c # Space => WordMoves[WordState("bare", ws, w)][c] = WordState("bare", ws, Append(w, c))
         /\ c = Space => WordMoves[WordState("bare", ws, w)][c] = BetweenWords(Append(ws, w))
         /\ c = Quote => WordMoves[WordState("quoted", ws, w)][c] = BetweenWords(Append(ws, w))
         /\ c = Backslash => WordMoves[WordState("quoted", ws, w)][c] = WordState("escape", ws, w)
         /\ c \notin {Quote, Backslash} =>
              WordMoves[WordState("quoted", ws, w)][c] = WordState("quoted", ws, Append(w, c))
         /\ WordMoves[WordState("escape", ws, w)][c] = WordState("quoted", ws, Append(w, c))
<1>1. /\ BetweenWords(ws) \in WordStates
      /\ \A mode \in {"between", "bare", "quoted", "escape"} : WordState(mode, ws, w) \in WordStates
  BY BetweenIsOne, WordStateIsOne
<1>2. /\ WordMoves[BetweenWords(ws)][c] = WordStep(BetweenWords(ws), c)
      /\ \A mode \in {"between", "bare", "quoted", "escape"} :
           WordMoves[WordState(mode, ws, w)][c] = WordStep(WordState(mode, ws, w), c)
  BY <1>1 DEF WordMoves
<1>3. Quote # Backslash /\ Quote \notin Blanks
  BY Marks DEF Quote, Backslash
<1>4. c \in Blanks => WordStep(BetweenWords(ws), c) = BetweenWords(ws)
  BY <1>3 DEF WordStep, BetweenWords, WordState
<1>5. c = Quote => WordStep(BetweenWords(ws), c) = WordState("quoted", ws, <<>>)
  BY <1>3 DEF WordStep, BetweenWords, WordState
<1>6. c \notin Blanks /\ c # Quote => WordStep(BetweenWords(ws), c) = WordState("bare", ws, <<c>>)
  <2>1. Append(<<>>, c) = <<c>>
    OBVIOUS
  <2> QED
    BY <1>3, <2>1 DEF WordStep, BetweenWords, WordState, Push
<1>7. /\ c # Space => WordStep(WordState("bare", ws, w), c) = WordState("bare", ws, Append(w, c))
      /\ c = Space => WordStep(WordState("bare", ws, w), c) = BetweenWords(Append(ws, w))
  BY DEF WordStep, BetweenWords, WordState, Push, EndOfWord
<1>8. /\ c = Quote => WordStep(WordState("quoted", ws, w), c) = BetweenWords(Append(ws, w))
      /\ c = Backslash => WordStep(WordState("quoted", ws, w), c) = WordState("escape", ws, w)
      /\ c \notin {Quote, Backslash} =>
           WordStep(WordState("quoted", ws, w), c) = WordState("quoted", ws, Append(w, c))
  BY <1>3 DEF WordStep, BetweenWords, WordState, Push, EndOfWord
<1>9. WordStep(WordState("escape", ws, w), c) = WordState("quoted", ws, Append(w, c))
  BY DEF WordStep, WordState, Push
<1> QED
  BY <1>2, <1>4, <1>5, <1>6, <1>7, <1>8, <1>9

\* Blanks between words are skipped.
LEMMA BlanksSkipped ==
  ASSUME NEW ws \in Seq(Seq(Nat)), NEW gap \in Seq(Blanks)
  PROVE  Fold(WordMoves, BetweenWords(ws), gap) = BetweenWords(ws)
<1> DEFINE at == [u \in Seq(Blanks) |-> BetweenWords(ws)]
<1>1. Moves(WordMoves, WordStates, Nat)
  BY WordStepMoves
<1>2. Blanks \in SUBSET Nat
  BY Marks
<1>3. <<>> \in Seq(Nat) /\ <<>> \in Seq(Blanks)
  OBVIOUS
<1>4. BetweenWords(ws) \in WordStates /\ \A c \in Blanks : WordMoves[BetweenWords(ws)][c] = BetweenWords(ws)
  BY <1>2, <1>3, BetweenIsOne, WordStepsTaken
<1>6. ElementsLead(WordMoves, WordStates, Nat, Blanks, at)
  <2>1. \A u \in Seq(Blanks), c \in Blanks : Append(u, c) \in Seq(Blanks)
    OBVIOUS
  <2> QED
    BY <1>2, <1>4, <2>1 DEF ElementsLead
<1>7. at[<<>>] = BetweenWords(ws) /\ at[gap] = BetweenWords(ws)
  BY <1>3
<1> HIDE DEF at
<1>8. Fold(WordMoves, at[<<>>], gap) = at[gap]
  BY <1>1, <1>6, FoldAlong
<1> QED
  BY <1>7, <1>8

\* What is between the quotes of the shell is read as it was meant.
LEMMA QuotedRead ==
  ASSUME NEW ws \in Seq(Seq(Nat)), NEW w \in Seq(Nat)
  PROVE  /\ ShellQuoted(w) \in Seq(Nat) /\ ShellQuoted(w) # <<>>
         /\ ShellQuoted(w)[Len(ShellQuoted(w))] = Quote
         /\ Fold(WordMoves, BetweenWords(ws), ShellQuoted(w)) = BetweenWords(Append(ws, w))
<1> DEFINE piece == [c \in Nat |-> ShellChar(c)]
           at == [u \in Seq(Nat) |-> WordState("quoted", ws, u)]
           inner == FlattenSeq([i \in DOMAIN w |-> piece[w[i]]])
<1>1. Moves(WordMoves, WordStates, Nat)
  BY WordStepMoves
<1>2. Quote \in Nat /\ Backslash \in Nat /\ Quote # Backslash
  BY Marks DEF Quote, Backslash
<1>3. piece \in [Nat -> Seq(Nat)]
  BY <1>2 DEF ShellChar
<1>4. <<>> \in Seq(Nat) /\ at \in [Seq(Nat) -> WordStates]
  BY WordStateIsOne
<1>5. ASSUME NEW u \in Seq(Nat), NEW c \in Nat
      PROVE  Fold(WordMoves, at[u], piece[c]) = at[Append(u, c)]
  <2> DEFINE s == WordState("quoted", ws, u)
  <2>1. s \in WordStates /\ at[u] = s /\ at[Append(u, c)] = WordState("quoted", ws, Append(u, c))
    <3>1. Append(u, c) \in Seq(Nat)
      OBVIOUS
    <3> QED
      BY <3>1, WordStateIsOne
  <2>2. CASE c \in {Quote, Backslash}
    <3>1. piece[c] = <<Backslash, c>>
      BY <2>2 DEF ShellChar
    <3>2. Fold(WordMoves, s, <<Backslash, c>>) = WordMoves[WordMoves[s][Backslash]][c]
      <4> HIDE DEF s
      <4> QED
        BY <1>1, <1>2, <2>1, FoldTwo, SMTT(60)
    <3>3. WordMoves[s][Backslash] = WordState("escape", ws, u)
      BY <1>2, WordStepsTaken
    <3>4. WordMoves[WordState("escape", ws, u)][c] = WordState("quoted", ws, Append(u, c))
      BY WordStepsTaken
    <3> QED
      BY <2>1, <3>1, <3>2, <3>3, <3>4
  <2>3. CASE c \notin {Quote, Backslash}
    <3>1. piece[c] = <<c>>
      BY <2>3 DEF ShellChar
    <3>2. Fold(WordMoves, s, <<c>>) = WordMoves[s][c]
      <4> HIDE DEF s
      <4> QED
        BY <1>1, <1>2, <2>1, FoldOne
    <3>3. WordMoves[s][c] = WordState("quoted", ws, Append(u, c))
      BY <2>3, WordStepsTaken
    <3> QED
      BY <2>1, <3>1, <3>2, <3>3
  <2> QED
    BY <2>2, <2>3
<1>6. at[<<>>] = WordState("quoted", ws, <<>>) /\ at[w] = WordState("quoted", ws, w)
  BY <1>4
<1>7. inner = FlattenSeq([i \in DOMAIN w |-> ShellChar(w[i])])
  <2>1. \A i \in DOMAIN w : piece[w[i]] = ShellChar(w[i])
    OBVIOUS
  <2> QED
    BY <2>1
<1> HIDE DEF at, piece
<1>17. PiecesLead(WordMoves, WordStates, Nat, piece, Nat, at)
  BY <1>3, <1>4, <1>5 DEF PiecesLead
<1>8. inner \in Seq(Nat) /\ Fold(WordMoves, at[<<>>], inner) = at[w]
  BY <1>1, <1>17, FoldPieces
<1>9. ShellQuoted(w) = (<<Quote>> \o inner) \o <<Quote>>
  BY <1>7 DEF ShellQuoted, Enclosed
<1> HIDE DEF inner
<1>10. /\ ShellQuoted(w) \in Seq(Nat) /\ ShellQuoted(w) # <<>>
       /\ ShellQuoted(w)[Len(ShellQuoted(w))] = Quote
       /\ <<Quote>> \in Seq(Nat) /\ <<Quote>> \o inner \in Seq(Nat)
  BY <1>2, <1>8, <1>9
<1> DEFINE b == BetweenWords(ws)
           q == <<Quote>>
<1>11. b \in WordStates /\ Fold(WordMoves, b, q) = WordMoves[b][Quote]
  <2>1. b \in WordStates
    BY BetweenIsOne
  <2> HIDE DEF b
  <2> QED
    BY <1>1, <1>2, <2>1, FoldOne
<1>12. WordMoves[b][Quote] = at[<<>>]
  BY <1>2, <1>4, <1>6, WordStepsTaken
<1>13. at[w] \in WordStates /\ WordMoves[at[w]][Quote] = BetweenWords(Append(ws, w))
  <2>1. at[w] \in WordStates
    BY <1>4
  <2>2. WordMoves[WordState("quoted", ws, w)][Quote] = BetweenWords(Append(ws, w))
    BY <1>2, WordStepsTaken
  <2> QED
    BY <1>6, <2>1, <2>2
<1> HIDE DEF b, q
<1>14. Fold(WordMoves, b, q \o inner) = at[w]
  <2>1. q \in Seq(Nat)
    BY <1>10 DEF q
  <2> QED
    BY <1>1, <1>8, <1>11, <1>12, <2>1, FoldConcat
<1>15. Fold(WordMoves, b, (q \o inner) \o q) = Fold(WordMoves, at[w], q)
  <2>1. q \in Seq(Nat) /\ q \o inner \in Seq(Nat)
    BY <1>10 DEF q
  <2> DEFINE front == q \o inner
  <2>2. front \in Seq(Nat) /\ Fold(WordMoves, b, front) = at[w]
    BY <1>14, <2>1
  <2> HIDE DEF front
  <2>3. Fold(WordMoves, b, front \o q) = Fold(WordMoves, at[w], q)
    BY <1>1, <1>11, <2>1, <2>2, FoldConcat
  <2> QED
    BY <2>3 DEF front
<1>16. Fold(WordMoves, at[w], q) = BetweenWords(Append(ws, w))
  BY <1>1, <1>2, <1>13, FoldOne DEF q
<1> QED
  BY <1>9, <1>10, <1>15, <1>16 DEF b, q

\* Appending to what is behind an element.
LEMMA AppendBehind ==
  ASSUME NEW S, NEW f \in S, NEW u \in Seq(S), NEW c \in S
  PROVE  <<f>> \o Append(u, c) = Append(<<f>> \o u, c)
<1>1. <<f>> \in Seq(S) /\ <<c>> \in Seq(S)
  OBVIOUS
<1>2. Append(u, c) = u \o <<c>>
  BY AppendIsConcat
<1>3. <<f>> \o u \in Seq(S)
  BY <1>1
<1>4. Append(<<f>> \o u, c) = (<<f>> \o u) \o <<c>>
  <2> DEFINE v == <<f>> \o u
  <2> HIDE DEF v
  <2> SUFFICES Append(v, c) = v \o <<c>>
    BY DEF v
  <2>1. v \in Seq(S)
    BY <1>3 DEF v
  <2> QED
    BY <2>1, AppendIsConcat
<1> QED
  BY <1>1, <1>2, <1>4, ConcatAssociative

\* A word that needs no quotes is read up to where it ends.
LEMMA PlainRead ==
  ASSUME NEW ws \in Seq(Seq(Nat)), NEW w \in Seq(Nat), Plain(w)
  PROVE  /\ w[Len(w)] \notin Blanks
         /\ Fold(WordMoves, BetweenWords(ws), w) = WordState("bare", ws, w)
<1> DEFINE Inked == Nat \ Blanks
           first == w[1]
           rest == Tail(w)
           at == [u \in Seq(Inked) |-> WordState("bare", ws, <<first>> \o u)]
<1>1. Moves(WordMoves, WordStates, Nat)
  BY WordStepMoves
<1>2. Len(w) \in Nat \ {0} /\ \A i \in 1..Len(w) : w[i] \in Inked
  BY DEF Plain, ToSet
<1>3. first \in Inked /\ first # Quote /\ w[Len(w)] \notin Blanks
  BY <1>2 DEF Plain
<1>4. rest \in Seq(Inked) /\ rest \in Seq(Nat) /\ w = <<first>> \o rest /\ <<first>> \in Seq(Nat)
  <2>1. w \in Seq(Inked) /\ w # <<>>
    BY <1>2
  <2>2. rest \in Seq(Inked) /\ rest \in Seq(Nat) /\ <<first>> \in Seq(Nat)
    BY <1>3, <2>1
  <2>3. w = <<first>> \o rest
    BY <1>2, <2>1
  <2> QED
    BY <2>2, <2>3
<1>5. ASSUME NEW u \in Seq(Inked)
      PROVE  <<first>> \o u \in Seq(Nat) /\ at[u] = WordState("bare", ws, <<first>> \o u) /\ at[u] \in WordStates
  <2>1. <<first>> \o u \in Seq(Nat)
    BY <1>3
  <2> QED
    BY <2>1, WordStateIsOne
<1>6. ElementsLead(WordMoves, WordStates, Nat, Inked, at)
  <2>1. ASSUME NEW u \in Seq(Inked), NEW c \in Inked PROVE WordMoves[at[u]][c] = at[Append(u, c)]
    <3>1. c \in Nat /\ c # Space /\ Append(u, c) \in Seq(Inked)
      BY Marks
    <3>2. <<first>> \o Append(u, c) = Append(<<first>> \o u, c)
      <4> DEFINE S == Nat
      <4>1. first \in S /\ u \in Seq(S) /\ c \in S
        BY <1>3
      <4> HIDE DEF first, S
      <4> QED
        BY <4>1, AppendBehind
    <3> DEFINE x == <<first>> \o u
    <3>3. x \in Seq(Nat) /\ at[u] = WordState("bare", ws, x) /\ at[Append(u, c)] = WordState("bare", ws, Append(x, c))
      BY <1>5, <3>1, <3>2
    <3> HIDE DEF x, at
    <3>4. WordMoves[WordState("bare", ws, x)][c] = WordState("bare", ws, Append(x, c))
      BY <3>1, <3>3, WordStepsTaken
    <3> QED
      BY <3>3, <3>4
  <2>2. at \in [Seq(Inked) -> WordStates]
    BY <1>5
  <2> QED
    BY <2>1, <2>2 DEF ElementsLead
<1>7. at[<<>>] = WordState("bare", ws, <<first>>) /\ at[rest] = WordState("bare", ws, w)
  <2>1. <<>> \in Seq(Inked) /\ <<first>> \o <<>> = <<first>>
    OBVIOUS
  <2> QED
    BY <1>4, <2>1
<1> HIDE DEF at
<1> HIDE DEF Inked, rest
<1>8. Fold(WordMoves, at[<<>>], rest) = at[rest]
  BY <1>1, <1>4, <1>6, FoldAlong
<1> DEFINE b == BetweenWords(ws)
           f == <<first>>
<1>9. b \in WordStates /\ first \in Nat
  BY <1>3, BetweenIsOne DEF Inked
<1>10. WordMoves[b][first] = WordState("bare", ws, <<first>>)
  BY <1>3, <1>9, WordStepsTaken DEF Inked
<1> HIDE DEF b, first
<1>11. Fold(WordMoves, b, f) = at[<<>>]
  BY <1>1, <1>7, <1>9, <1>10, FoldOne
<1> HIDE DEF f
<1>12. Fold(WordMoves, b, f \o rest) = Fold(WordMoves, Fold(WordMoves, b, f), rest)
  <2>1. f \in Seq(Nat)
    BY <1>4 DEF f
  <2> QED
    BY <1>1, <1>4, <1>9, <2>1, FoldConcat
<1> QED
  BY <1>3, <1>4, <1>7, <1>8, <1>11, <1>12 DEF b, f

\* trim_end takes the blanks at the end and nothing else.
LEMMA TrimEndTakesBlanks ==
  ASSUME NEW x \in Seq(Nat), x # <<>>, x[Len(x)] \notin Blanks, NEW gap \in Seq(Blanks)
  PROVE  TrimEnd(x \o gap) = x
<1> DEFINE t == x \o gap
           inked == {i \in DOMAIN t : t[i] \notin Blanks}
           last == CHOOSE i \in inked : \A j \in inked : j <= i
<1>1. /\ Len(x) \in Nat \ {0} /\ Len(gap) \in Nat /\ Len(t) = Len(x) + Len(gap) /\ DOMAIN t = 1..Len(t)
      /\ \A i \in 1..Len(x) : t[i] = x[i]
      /\ \A i \in Len(x) + 1..Len(t) : t[i] \in Blanks
  <2>1. Len(x) \in Nat \ {0} /\ Len(gap) \in Nat /\ Len(t) = Len(x) + Len(gap) /\ DOMAIN t = 1..Len(t)
    OBVIOUS
  <2>2. \A i \in 1..Len(x) : t[i] = x[i]
    BY <2>1
  <2>3. ASSUME NEW i \in Len(x) + 1..Len(t) PROVE t[i] \in Blanks
    <3>1. i - Len(x) \in 1..Len(gap) /\ i \in 1..Len(t) /\ ~(i <= Len(x))
      BY <2>1
    <3>2. t[i] = gap[i - Len(x)]
      BY <2>1, <3>1
    <3> QED
      BY <3>1, <3>2
  <2> QED
    BY <2>1, <2>2, <2>3
<1> HIDE DEF t
<1>2. Len(x) \in inked /\ \A j \in inked : j <= Len(x)
  BY <1>1
<1>3. last = Len(x)
  <2>1. inked \subseteq Nat
    BY <1>1
  <2> HIDE DEF inked
  <2>2. last \in inked /\ \A j \in inked : j <= last
    BY <1>2
  <2> HIDE DEF last
  <2>3. last \in Nat /\ last <= Len(x) /\ Len(x) <= last
    BY <1>2, <2>1, <2>2
  <2> QED
    BY <1>1, <2>3
<1>4. TrimEnd(t) = SubSeq(t, 1, Len(x))
  BY <1>2, <1>3 DEF TrimEnd
<1>5. SubSeq(t, 1, Len(x)) = x
  BY <1>1
<1> QED
  BY <1>4, <1>5 DEF t

\* A sequence over a set is one over any larger set.
LEMMA WiderSeq == ASSUME NEW S, NEW T, S \subseteq T PROVE \A t \in Seq(S) : t \in Seq(T)
OBVIOUS

\* What the parts of a line are.
LEMMA PartTyped ==
  ASSUME NEW p \in Parts
  PROVE  /\ p.word \in Seq(Nat) /\ p.gap \in Seq(Blanks) /\ p.gap \in Seq(Nat) /\ p.quoted \in BOOLEAN
<1>1. p.word \in Seq(CodePoints) /\ p.gap \in Seq(Blanks) /\ p.quoted \in BOOLEAN
  BY DEF Parts
<1>2. CodePoints \subseteq Nat /\ Blanks \subseteq Nat
  BY Marks, Zenon
<1>3. p.word \in Seq(Nat)
  BY <1>1, <1>2, WiderSeq, Zenon
<1>4. p.gap \in Seq(Nat)
  BY <1>1, <1>2, WiderSeq, Zenon
<1> QED
  BY <1>1, <1>3, <1>4

\* A word and the blanks behind it are read as that word.
LEMMA PartRead ==
  ASSUME NEW ws \in Seq(Seq(Nat)), NEW p \in Parts,
         ~p.quoted => Plain(p.word) /\ p.gap # <<>> /\ p.gap[1] = Space
  PROVE  /\ Written(p) \in Seq(Nat) /\ Append(ws, p.word) \in Seq(Seq(Nat))
         /\ Fold(WordMoves, BetweenWords(ws), Written(p)) = BetweenWords(Append(ws, p.word))
<1> DEFINE w == p.word
           gap == p.gap
           b == BetweenWords(ws)
           c == BetweenWords(Append(ws, w))
<1>1. Moves(WordMoves, WordStates, Nat)
  BY WordStepMoves
<1>2. /\ w \in Seq(Nat) /\ gap \in Seq(Blanks) /\ gap \in Seq(Nat) /\ p.quoted \in BOOLEAN
      /\ Append(ws, w) \in Seq(Seq(Nat))
  <2>1. w \in Seq(Nat) /\ gap \in Seq(Blanks) /\ gap \in Seq(Nat) /\ p.quoted \in BOOLEAN
    BY PartTyped
  <2> HIDE DEF w, gap
  <2> QED
    BY <2>1
<1>3. b \in WordStates /\ c \in WordStates
  BY <1>2, BetweenIsOne
<1>4. Fold(WordMoves, c, gap) = c
  <2> DEFINE more == Append(ws, w)
  <2>1. more \in Seq(Seq(Nat)) /\ gap \in Seq(Blanks)
    BY <1>2
  <2> HIDE DEF more, gap
  <2>2. Fold(WordMoves, BetweenWords(more), gap) = BetweenWords(more)
    BY <2>1, BlanksSkipped
  <2> QED
    BY <2>2 DEF more
<1>5. CASE p.quoted
  <2> DEFINE text == ShellQuoted(w)
  <2>1. text \in Seq(Nat) /\ Fold(WordMoves, b, text) = c
    BY <1>2, QuotedRead
  <2>2. Written(p) = text \o gap
    BY <1>5 DEF Written
  <2> HIDE DEF text, gap, b, c, w
  <2>3. Fold(WordMoves, b, text \o gap) = Fold(WordMoves, c, gap) /\ text \o gap \in Seq(Nat)
    BY <1>1, <1>2, <1>3, <2>1, FoldConcat
  <2> QED
    BY <1>2, <1>4, <2>2, <2>3 DEF w, b, c
<1>6. CASE ~p.quoted
  <2> DEFINE s == WordState("bare", ws, w)
             sp == <<Space>>
             rest == Tail(gap)
  <2>1. Plain(w) /\ gap # <<>> /\ gap[1] = Space
    BY <1>6
  <2>2. /\ rest \in Seq(Blanks) /\ rest \in Seq(Nat) /\ gap = sp \o rest /\ sp \in Seq(Nat)
    <3>1. Space \in Blanks /\ Blanks \subseteq Nat
      BY Marks
    <3>2. rest \in Seq(Blanks) /\ sp \in Seq(Nat)
      BY <1>2, <2>1, <3>1
    <3>3. rest \in Seq(Nat)
      BY <3>1, <3>2, WiderSeq, Zenon
    <3>4. gap = sp \o rest
      BY <1>2, <2>1
    <3> QED
      BY <3>2, <3>3, <3>4
  <2>3. s \in WordStates /\ Fold(WordMoves, b, w) = s
    BY <1>2, <2>1, PlainRead, WordStateIsOne
  <2>4. Fold(WordMoves, s, sp) = c
    <3>1. Space \in Nat
      BY Marks
    <3>2. WordMoves[s][Space] = c
      BY <1>2, <3>1, WordStepsTaken
    <3> HIDE DEF s
    <3> QED
      BY <1>1, <2>3, <3>1, <3>2, FoldOne
  <2>5. Fold(WordMoves, c, rest) = c
    <3> DEFINE more == Append(ws, w)
    <3>1. more \in Seq(Seq(Nat))
      BY <1>2
    <3> HIDE DEF more, rest
    <3>2. Fold(WordMoves, BetweenWords(more), rest) = BetweenWords(more)
      BY <2>2, <3>1, BlanksSkipped
    <3> QED
      BY <3>2 DEF more
  <2>6. Written(p) = w \o gap
    BY <1>6 DEF Written
  <2> HIDE DEF w, gap, b, c, s, sp, rest
  <2>7. Fold(WordMoves, s, sp \o rest) = Fold(WordMoves, Fold(WordMoves, s, sp), rest)
    BY <1>1, <2>2, <2>3, FoldConcat
  <2>8. Fold(WordMoves, b, w \o gap) = Fold(WordMoves, s, gap) /\ w \o gap \in Seq(Nat)
    BY <1>1, <1>2, <1>3, <2>3, FoldConcat
  <2>9. Fold(WordMoves, b, w \o gap) = c
    BY <2>2, <2>4, <2>5, <2>7, <2>8
  <2> QED
    BY <1>2, <2>6, <2>8, <2>9 DEF w, b, c
<1> QED
  BY <1>2, <1>5, <1>6

\* Words that are told apart from what comes behind them.
Spaced == {q \in Parts : ~q.quoted => Plain(q.word) /\ q.gap # <<>> /\ q.gap[1] = Space}

\* The words of some parts, and of one more.
LEMMA WordsOfParts ==
  ASSUME NEW u \in Seq(Spaced)
  PROVE  /\ WordsOf(u) \in Seq(Seq(Nat))
         /\ \A q \in Spaced : WordsOf(Append(u, q)) = Append(WordsOf(u), q.word) /\ Append(u, q) \in Seq(Spaced)
<1>2. Len(u) \in Nat /\ DOMAIN u = 1..Len(u) /\ \A i \in 1..Len(u) : u[i] \in Parts
  BY DEF Spaced
<1>3. \A i \in 1..Len(u) : u[i].word \in Seq(Nat)
  BY <1>2, PartTyped
<1>4. WordsOf(u) \in Seq(Seq(Nat))
  BY <1>2, <1>3 DEF WordsOf
<1>5. ASSUME NEW q \in Spaced
      PROVE  WordsOf(Append(u, q)) = Append(WordsOf(u), q.word) /\ Append(u, q) \in Seq(Spaced)
  BY DEF WordsOf
<1> QED
  BY <1>4, <1>5

\* They are read as those words.
LEMMA PartsRead ==
  ASSUME NEW front \in Seq(Spaced)
  PROVE  /\ [i \in DOMAIN front |-> Written(front[i])] \in Seq(Seq(Nat))
         /\ Line(front) \in Seq(Nat)
         /\ Fold(WordMoves, BetweenWords(<<>>), Line(front)) = BetweenWords(WordsOf(front))
<1> DEFINE piece == [q \in Spaced |-> Written(q)]
           at == [u \in Seq(Spaced) |-> BetweenWords(WordsOf(u))]
<1>1. ASSUME NEW ws \in Seq(Seq(Nat)), NEW q \in Spaced
      PROVE  Written(q) \in Seq(Nat) /\ Fold(WordMoves, BetweenWords(ws), Written(q)) = BetweenWords(Append(ws, q.word))
  <2>1. q \in Parts /\ (~q.quoted => Plain(q.word) /\ q.gap # <<>> /\ q.gap[1] = Space)
    BY DEF Spaced
  <2> QED
    BY <2>1, PartRead
<1>2. \A q \in Spaced : Written(q) \in Seq(Nat)
  <2>1. <<>> \in Seq(Seq(Nat))
    OBVIOUS
  <2> QED
    BY <1>1, <2>1
<1>3. ASSUME NEW u \in Seq(Spaced) PROVE at[u] = BetweenWords(WordsOf(u)) /\ at[u] \in WordStates
  BY WordsOfParts, BetweenIsOne
<1>4. PiecesLead(WordMoves, WordStates, Nat, piece, Spaced, at)
  <2>1. ASSUME NEW u \in Seq(Spaced), NEW q \in Spaced PROVE Fold(WordMoves, at[u], piece[q]) = at[Append(u, q)]
    <3> DEFINE ws == WordsOf(u)
    <3>1. ws \in Seq(Seq(Nat)) /\ at[u] = BetweenWords(ws) /\ at[Append(u, q)] = BetweenWords(Append(ws, q.word))
      BY <1>3, WordsOfParts
    <3> HIDE DEF ws, at
    <3>2. Fold(WordMoves, BetweenWords(ws), Written(q)) = BetweenWords(Append(ws, q.word))
      BY <1>1, <3>1
    <3> QED
      BY <3>1, <3>2
  <2>2. piece \in [Spaced -> Seq(Nat)]
    BY <1>2
  <2>3. at \in [Seq(Spaced) -> WordStates]
    BY <1>3
  <2> QED
    BY <2>1, <2>2, <2>3 DEF PiecesLead
<1>5. at[<<>>] = BetweenWords(<<>>) /\ at[front] = BetweenWords(WordsOf(front))
  <2>1. <<>> \in Seq(Spaced) /\ WordsOf(<<>>) = <<>>
    BY DEF WordsOf
  <2> QED
    BY <1>3, <2>1
<1>6. Len(front) \in Nat /\ DOMAIN front = 1..Len(front) /\ \A i \in 1..Len(front) : front[i] \in Spaced
  OBVIOUS
<1>7. [i \in DOMAIN front |-> Written(front[i])] \in Seq(Seq(Nat))
  <2>1. \A i \in 1..Len(front) : Written(front[i]) \in Seq(Nat)
    BY <1>2, <1>6
  <2> QED
    BY <1>6, <2>1
<1>8. Line(front) = FlattenSeq([i \in DOMAIN front |-> piece[front[i]]])
  <2>1. \A i \in DOMAIN front : piece[front[i]] = Written(front[i])
    BY <1>6
  <2> QED
    BY <2>1 DEF Line
<1> HIDE DEF at, piece
<1>9. Line(front) \in Seq(Nat) /\ Fold(WordMoves, at[<<>>], Line(front)) = at[front]
  BY <1>4, <1>8, WordStepMoves, FoldPieces
<1> QED
  BY <1>5, <1>7, <1>9

\* A line is read as the words it was made of.
THEOREM LineRead ==
  ASSUME NEW parts, IsLine(parts)
  PROVE  Words(Line(parts)) = WordsOf(parts)
<1> DEFINE n == Len(parts)
           front == SubSeq(parts, 1, n - 1)
           p == parts[n]
           w == p.word
           gap == p.gap
           text == IF p.quoted THEN ShellQuoted(w) ELSE w
<1>1. /\ n \in Nat \ {0} /\ parts \in Seq(Parts) /\ DOMAIN parts = 1..n
      /\ \A i \in 1..n : parts[i] \in Parts
      /\ \A i \in 1..n :
           ~parts[i].quoted => /\ Plain(parts[i].word)
                               /\ (i < n => parts[i].gap # <<>> /\ parts[i].gap[1] = Space)
  BY DEF IsLine
<1>2. front \in Seq(Spaced) /\ front \in Seq(Parts) /\ parts = Append(front, p) /\ p \in Parts
  <2>1. /\ SubSeq(parts, 1, n) = parts /\ front \in Seq(Parts)
        /\ SubSeq(parts, 1, n) = Append(front, p)
    <3>1. n \in 1..n /\ n - 1 \in 0..n
      BY <1>1
    <3> QED
      BY <1>1, <3>1, SeqParts
  <2>2. Len(front) = n - 1 /\ \A i \in 1..n - 1 : front[i] = parts[i]
    BY <1>1
  <2>3. \A i \in 1..Len(front) : front[i] \in Spaced
    BY <1>1, <2>2 DEF Spaced
  <2>4. front \in Seq(Spaced)
    BY <2>1, <2>3
  <2> QED
    BY <1>1, <2>1, <2>4
<1>3. /\ w \in Seq(Nat) /\ gap \in Seq(Blanks) /\ gap \in Seq(Nat) /\ p.quoted \in BOOLEAN
      /\ ~p.quoted => Plain(w)
  <2>1. ~p.quoted => Plain(w)
    BY <1>1
  <2> HIDE DEF p
  <2>2. w \in Seq(Nat) /\ gap \in Seq(Blanks) /\ gap \in Seq(Nat) /\ p.quoted \in BOOLEAN
    BY <1>2, PartTyped
  <2> QED
    BY <2>1, <2>2, Zenon
<1> DEFINE flat == Line(front)
           ws == WordsOf(front)
<1>8. /\ flat \in Seq(Nat) /\ Fold(WordMoves, BetweenWords(<<>>), flat) = BetweenWords(ws)
      /\ ws \in Seq(Seq(Nat))
      /\ [i \in DOMAIN front |-> Written(front[i])] \in Seq(Seq(Nat))
  <2> HIDE DEF front
  <2> QED
    BY <1>2, PartsRead, WordsOfParts
<1>9. Line(parts) = flat \o (text \o gap)
  <2> DEFINE Pieces(u) == [i \in DOMAIN u |-> Written(u[i])]
  <2>1. Pieces(Append(front, p)) = Append(Pieces(front), Written(p))
    BY <1>2
  <2>4. Written(p) = text \o gap
    BY DEF Written
  <2>5. Written(p) \in Seq(Nat)
    <3> HIDE DEF w, gap
    <3>1. text \in Seq(Nat)
      <4>1. w \in Seq(Nat) /\ p.quoted \in BOOLEAN
        BY <1>3
      <4> HIDE DEF p
      <4>2. p.quoted => ShellQuoted(w) \in Seq(Nat)
        <5>1. <<>> \in Seq(Seq(Nat))
          OBVIOUS
        <5> QED
          BY <4>1, <5>1, QuotedRead
      <4> QED
        BY <4>1, <4>2
    <3> QED
      BY <1>3, <2>4, <3>1
  <2>6. FlattenSeq(Append(Pieces(front), Written(p))) = FlattenSeq(Pieces(front)) \o Written(p)
    BY <1>8, <2>5, FlattenSteps
  <2>7. Line(parts) = FlattenSeq(Pieces(Append(front, p)))
    BY <1>2 DEF Line
  <2> QED
    BY <2>1, <2>4, <2>6, <2>7 DEF Line
<1>10. /\ text \in Seq(Nat) /\ text # <<>> /\ text[Len(text)] \notin Blanks
       /\ Fold(WordMoves, BetweenWords(ws), text) = IF p.quoted THEN BetweenWords(Append(ws, w)) ELSE WordState("bare", ws, w)
  <2> HIDE DEF w, ws, p
  <2>1. CASE p.quoted
    BY <1>3, <1>8, <2>1, QuotedRead, Marks
  <2>2. CASE ~p.quoted
    <3>1. Plain(w)
      BY <1>3, <2>2
    <3> QED
      BY <1>3, <1>8, <2>2, <3>1, PlainRead DEF Plain
  <2> QED
    BY <2>1, <2>2
<1> HIDE DEF front, p, w, gap, text, flat, ws
<1> DEFINE read == flat \o text
<1>11. Line(parts) = read \o gap /\ read \in Seq(Nat)
  <2> DEFINE S == Nat
  <2>1. flat \in Seq(S) /\ text \in Seq(S) /\ gap \in Seq(S)
    BY <1>3, <1>8, <1>10
  <2>2. read \in Seq(S)
    BY <2>1
  <2> HIDE DEF S
  <2>3. (flat \o text) \o gap = flat \o (text \o gap)
    BY <2>1, ConcatAssociative
  <2> QED
    BY <1>9, <2>2, <2>3 DEF S
<1>12. read # <<>> /\ read[Len(read)] \notin Blanks
  <2>1. /\ Len(flat) \in Nat /\ Len(text) \in Nat \ {0} /\ Len(read) = Len(flat) + Len(text)
        /\ \A i \in 1..Len(flat) + Len(text) : read[i] = IF i <= Len(flat) THEN flat[i] ELSE text[i - Len(flat)]
    BY <1>8, <1>10, ConcatProperties
  <2>2. read[Len(read)] = text[Len(text)]
    BY <2>1
  <2> HIDE DEF read
  <2> QED
    BY <1>10, <1>11, <2>1, <2>2
<1>13. TrimEnd(Line(parts)) = read
  <2> HIDE DEF read
  <2> QED
    BY <1>3, <1>11, <1>12, TrimEndTakesBlanks
<1>14. BetweenWords(<<>>) \in WordStates
  <2>1. <<>> \in Seq(Seq(Nat))
    OBVIOUS
  <2> QED
    BY <2>1, BetweenIsOne
<1>15. Fold(WordMoves, BetweenWords(<<>>), read) = Fold(WordMoves, BetweenWords(ws), text)
  <2> DEFINE b == BetweenWords(<<>>)
  <2>1. b \in WordStates /\ Fold(WordMoves, b, flat) = BetweenWords(ws)
    BY <1>8, <1>14
  <2> HIDE DEF b
  <2>2. Fold(WordMoves, b, flat \o text) = Fold(WordMoves, Fold(WordMoves, b, flat), text)
    BY <1>8, <1>10, <2>1, WordStepMoves, FoldConcat
  <2> QED
    BY <2>1, <2>2 DEF b
<1> DEFINE end == FoldLeft(WordStep, BetweenWords(<<>>), read)
<1>16. end = IF p.quoted THEN BetweenWords(Append(ws, w)) ELSE WordState("bare", ws, w)
  <2>1. end = Fold(WordMoves, BetweenWords(<<>>), read)
    <3> HIDE DEF read
    <3> QED
      BY <1>11, <1>14, WordFold
  <2> QED
    BY <1>10, <1>15, <2>1
<1> HIDE DEF end
<1>17. Words(Line(parts)) = CASE end.mode = "between" -> end.words
                              [] end.mode = "bare" -> Append(end.words, end.word)
                              [] end.mode \in {"quoted", "escape"} -> None
  BY <1>13 DEF Words, BetweenWords, WordState, end
<1>18. Words(Line(parts)) = Append(ws, w)
  <2>1. CASE p.quoted
    BY <1>16, <1>17, <2>1 DEF BetweenWords, WordState
  <2>2. CASE ~p.quoted
    BY <1>16, <1>17, <2>2 DEF WordState
  <2> QED
    BY <2>1, <2>2
<1>19. WordsOf(parts) = Append(ws, w)
  BY <1>1, <1>2 DEF WordsOf, ws, w
<1> QED
  BY <1>18, <1>19

-----------------------------------------------------------------------------
(* Reading what was written: literals *)

\* The states in which a literal is freed of its escapes.
CharModes == {"normal", "escape", "hex", "second", "secondu", "error"}
ByteModes == {"normal", "escape", "hex", "skip", "error"}
StatesIn(modes) == [mode : modes, out : Seq(Nat), unit : Nat, count : Nat, high : Nat]
CharStates == StatesIn(CharModes)
ByteStates == StatesIn(ByteModes)
CharMoves == [s \in CharStates |-> [c \in Nat |-> CharStep(s, c)]]
ByteMoves(continued) == [s \in ByteStates |-> [c \in Nat |-> ByteStep(s, c, continued)]]

\* What the digits stand for.
LEMMA HexValues ==
  ASSUME None \notin Nat
  PROVE  /\ \A d \in 0..15 : HexDigit(d) \in Nat /\ HexValue(HexDigit(d)) = d /\ HexValue(HexDigit(d)) # None
         /\ \A c \in Nat : HexValue(c) # None => HexValue(c) \in Nat
<1>1. ASSUME NEW d \in 0..15 PROVE HexDigit(d) \in Nat /\ HexValue(HexDigit(d)) = d
  <2>1. CASE d < 10
    BY <2>1, SMT DEF HexDigit, HexValue, Digits
  <2>2. CASE ~(d < 10)
    BY <2>2, SMT DEF HexDigit, HexValue, Digits
  <2> QED
    BY <2>1, <2>2
<1>2. ASSUME NEW c \in Nat, HexValue(c) # None PROVE HexValue(c) \in Nat
  BY <1>2, SMT DEF HexValue, Digits
<1> QED
  BY <1>1, <1>2

\* The two halves of what is behind the Basic Multilingual Plane.
LEMMA Surrogates ==
  /\ \A x \in Nat : x \in HighSurrogates <=> 55296 <= x /\ x <= 56319
  /\ \A x \in Nat : x \in LowSurrogates <=> 56320 <= x /\ x <= 57343
  /\ HighSurrogates \subseteq Nat
BY SMT DEF HighSurrogates, LowSurrogates

\* Every state is written like this.
LEMMA CharStateIsOne ==
  ASSUME NEW modes
  PROVE  /\ \A mode \in modes, out \in Seq(Nat), unit, count, high \in Nat :
              CharState(mode, out, unit, count, high) \in StatesIn(modes)
         /\ \A s \in StatesIn(modes) :
              /\ s.mode \in modes /\ s.out \in Seq(Nat) /\ s.unit \in Nat /\ s.count \in Nat /\ s.high \in Nat
              /\ s = CharState(s.mode, s.out, s.unit, s.count, s.high)
              /\ \A mode \in modes : [s EXCEPT !.mode = mode] \in StatesIn(modes)
BY DEF CharState, StatesIn

\* Emitting a character.
LEMMA Emits ==
  ASSUME NEW modes, "normal" \in modes, "error" \in modes, NEW s \in StatesIn(modes)
  PROVE  /\ \A c \in Nat : Emit(s, c) = Normal(Append(s.out, c)) /\ Emit(s, c) \in StatesIn(modes)
         /\ Fails(s) \in StatesIn(modes)
<1>1. ASSUME NEW c \in Nat PROVE Emit(s, c) = Normal(Append(s.out, c)) /\ Emit(s, c) \in StatesIn(modes)
  <2>1. s.out \in Seq(Nat)
    BY CharStateIsOne
  <2>2. 0 \in Nat /\ Append(s.out, c) \in Seq(Nat)
    BY <2>1
  <2>3. Normal(Append(s.out, c)) \in StatesIn(modes)
    BY <2>2, CharStateIsOne, Zenon DEF Normal
  <2> QED
    BY <2>3, Zenon DEF Emit
<1>2. Fails(s) \in StatesIn(modes)
  BY CharStateIsOne DEF Fails
<1> QED
  BY <1>1, <1>2

\* What becomes of a unit that was read.
LEMMA UnitsRead ==
  ASSUME NEW s \in CharStates
  PROVE  /\ \A u \in Nat : UnitRead(s, u) \in CharStates
         /\ \A u \in Nat : u \notin HighSurrogates /\ u \notin LowSurrogates /\ s.high = 0 =>
              UnitRead(s, u) = Normal(Append(s.out, u))
         /\ \A u \in HighSurrogates : s.high = 0 => UnitRead(s, u) = CharState("second", s.out, 0, 0, u)
         /\ \A u \in LowSurrogates : s.high \in HighSurrogates =>
              UnitRead(s, u) = Normal(Append(s.out, Pair(s.high, u)))
<1>1. "normal" \in CharModes /\ "error" \in CharModes /\ "second" \in CharModes
  BY DEF CharModes
<1>2. /\ \A c \in Nat : Emit(s, c) = Normal(Append(s.out, c)) /\ Emit(s, c) \in CharStates
      /\ Fails(s) \in CharStates
  BY <1>1, Emits, Zenon DEF CharStates
<1>3. s.high \in Nat /\ s.out \in Seq(Nat)
  BY CharStateIsOne DEF CharStates
<1>6. ASSUME NEW u \in Nat, s.high = 0, u \notin HighSurrogates, u \notin LowSurrogates
      PROVE  UnitRead(s, u) = Emit(s, u)
  BY <1>6 DEF UnitRead
<1>7. ASSUME NEW u \in Nat, s.high = 0, u \in HighSurrogates \cup LowSurrogates
      PROVE  UnitRead(s, u) = CharState("second", s.out, 0, 0, u)
  <2>1. 0 \notin HighSurrogates
    BY Surrogates
  <2> QED
    BY <1>7, <2>1 DEF UnitRead
<1>8. ASSUME NEW u \in Nat, s.high \in HighSurrogates, u \in LowSurrogates
      PROVE  UnitRead(s, u) = Emit(s, Pair(s.high, u))
  <2>1. s.high # 0
    BY <1>8, Surrogates
  <2> QED
    BY <1>8, <2>1 DEF UnitRead
<1>9. ASSUME NEW u \in Nat, s.high # 0, ~(s.high \in HighSurrogates /\ u \in LowSurrogates)
      PROVE  UnitRead(s, u) = Fails(s)
  BY <1>9 DEF UnitRead
<1>10. ASSUME NEW u \in Nat, s.high \in HighSurrogates, u \in LowSurrogates
       PROVE  Pair(s.high, u) \in Nat
  <2> DEFINE h == s.high
  <2>1. h \in Nat /\ 55296 <= h /\ 56320 <= u
    BY <1>3, <1>10, Surrogates
  <2> HIDE DEF h
  <2>2. 65536 + (h - 55296) * 1024 + (u - 56320) \in Nat
    BY <2>1
  <2> QED
    BY <2>2 DEF Pair, Supplementary, h
<1>11. ASSUME NEW u \in Nat PROVE UnitRead(s, u) \in CharStates
  <2>1. CharState("second", s.out, 0, 0, u) \in CharStates
    <3>1. 0 \in Nat
      OBVIOUS
    <3> QED
      BY <1>1, <1>3, <3>1, CharStateIsOne, Zenon DEF CharStates
  <2> QED
    BY <1>2, <1>6, <1>7, <1>8, <1>9, <1>10, <2>1, Zenon
<1>12. ASSUME NEW u \in LowSurrogates PROVE u \in Nat
  BY Surrogates, SMT DEF LowSurrogates
<1>13. ASSUME NEW u \in HighSurrogates PROVE u \in Nat
  BY Surrogates
<1>15. \A u \in LowSurrogates : s.high \in HighSurrogates => UnitRead(s, u) = Normal(Append(s.out, Pair(s.high, u)))
  BY <1>2, <1>8, <1>10, <1>12, Zenon
<1>16. \A u \in Nat : u \notin HighSurrogates /\ u \notin LowSurrogates /\ s.high = 0 =>
         UnitRead(s, u) = Normal(Append(s.out, u))
  BY <1>2, <1>6, Zenon
<1>17. \A u \in HighSurrogates : s.high = 0 => UnitRead(s, u) = CharState("second", s.out, 0, 0, u)
  BY <1>7, <1>13, Zenon
<1> QED
  BY <1>11, <1>15, <1>16, <1>17, Zenon

\* CharStep and ByteStep lead from one state to another.
LEMMA CharStepMoves ==
  ASSUME None \notin Nat
  PROVE  Moves(CharMoves, CharStates, Nat) /\ \A continued \in BOOLEAN : Moves(ByteMoves(continued), ByteStates, Nat)
<1>1. /\ \A c \in Nat : HexValue(c) # None => HexValue(c) \in Nat
      /\ \A d \in DOMAIN Meaning : Meaning[d] \in Nat
  BY HexValues DEF Meaning
<1>2. ASSUME NEW s \in CharStates, NEW c \in Nat PROVE CharStep(s, c) \in CharStates
  <2>1. s.mode \in CharModes /\ s.out \in Seq(Nat) /\ s.unit \in Nat /\ s.count \in Nat /\ s.high \in Nat
    BY CharStateIsOne DEF CharStates
  <2>2. /\ \A d \in Nat : Emit(s, d) \in CharStates /\ UnitRead(s, d) \in CharStates
        /\ Fails(s) \in CharStates
    <3>1. "normal" \in CharModes /\ "error" \in CharModes
      BY DEF CharModes
    <3> QED
      BY <3>1, Emits, UnitsRead, Zenon DEF CharStates
  <2>3. \A mode \in CharModes : [s EXCEPT !.mode = mode] \in CharStates
    BY CharStateIsOne, Zenon DEF CharStates
  <2>4. \A d \in Nat : CharState("hex", s.out, d, s.count + 1, s.high) \in CharStates
    <3>1. s.count + 1 \in Nat /\ "hex" \in CharModes
      BY <2>1 DEF CharModes
    <3> QED
      BY <2>1, <3>1, CharStateIsOne, Zenon DEF CharStates
  <2>8. HexValue(c) # None => s.unit * 16 + HexValue(c) \in Nat
    BY <1>1, <2>1
  <2> QED
    BY <1>1, <2>1, <2>2, <2>3, <2>4, <2>8 DEF CharStep, CharModes
<1>3. ASSUME NEW continued \in BOOLEAN, NEW s \in ByteStates, NEW c \in Nat
      PROVE  ByteStep(s, c, continued) \in ByteStates
  <2>1. s.mode \in ByteModes /\ s.out \in Seq(Nat) /\ s.unit \in Nat /\ s.count \in Nat /\ s.high \in Nat
    BY CharStateIsOne DEF ByteStates
  <2>2. (\A d \in Nat : Emit(s, d) \in ByteStates) /\ Fails(s) \in ByteStates
    <3>1. "normal" \in ByteModes /\ "error" \in ByteModes
      BY DEF ByteModes
    <3> QED
      BY <3>1, Emits, Zenon DEF ByteStates
  <2>3. \A mode \in ByteModes : [s EXCEPT !.mode = mode] \in ByteStates
    BY CharStateIsOne, Zenon DEF ByteStates
  <2>4. \A d \in Nat : CharState("hex", s.out, d, 1, s.high) \in ByteStates
    <3>1. 1 \in Nat /\ "hex" \in ByteModes
      BY DEF ByteModes
    <3> QED
      BY <2>1, <3>1, CharStateIsOne, Zenon DEF ByteStates
  <2>8. HexValue(c) # None => s.unit * 16 + HexValue(c) \in Nat
    BY <1>1, <2>1
  <2>9. \A d \in {48, 110, 114, 116} : d \in DOMAIN Meaning
    BY DEF Meaning
  <2>10. CASE s.mode = "error"
    BY <2>10 DEF ByteStep
  <2>11. CASE s.mode = "normal" \/ s.mode = "skip"
    BY <2>2, <2>3, <2>11 DEF ByteStep, ByteModes
  <2>12. CASE s.mode = "escape"
    <3>1. ByteStep(s, c, continued) =
            CASE c = LowerX -> [s EXCEPT !.mode = "hex"]
              [] c \in {48, 110, 114, 116} -> Emit(s, Meaning[c])
              [] c \in {Backslash, Quote, DoubleQuote} -> Emit(s, c)
              [] continued /\ c \in {10, 13} -> [s EXCEPT !.mode = "skip"]
              [] OTHER -> Fails(s)
      BY <2>12 DEF ByteStep
    <3>2. c \in {48, 110, 114, 116} => Meaning[c] \in Nat
      BY <1>1, <2>9
    <3> QED
      BY <2>2, <2>3, <3>1, <3>2 DEF ByteModes
  <2>13. CASE s.mode = "hex"
    BY <1>1, <2>2, <2>4, <2>8, <2>13 DEF ByteStep
  <2> QED
    BY <2>1, <2>10, <2>11, <2>12, <2>13 DEF ByteModes
<1> QED
  BY <1>2, <1>3 DEF Moves, CharMoves, ByteMoves

\* What Unescaped folds over a text.
LEMMA CharFold ==
  ASSUME None \notin Nat, NEW s \in CharStates, NEW t \in Seq(Nat)
  PROVE  FoldLeft(CharStep, s, t) = Fold(CharMoves, s, t)
<1> DEFINE Runs(iter) == iter = [x \in SUBSET DOMAIN t |->
                            IF x = {} THEN s ELSE CharStep(iter[x \ {Max(x)}], t[Max(x)])]
           found == CHOOSE iter : Runs(iter)
<1>1. Moves(CharMoves, CharStates, Nat)
  BY CharStepMoves
<1>2. PICK iter \in [SUBSET DOMAIN t -> CharStates] : Folds(CharMoves, s, t, iter)
  BY <1>1, FoldsExists
<1>3. Len(t) \in Nat /\ DOMAIN t = 1..Len(t) /\ \A k \in 1..Len(t) : t[k] \in Nat
  OBVIOUS
<1>4. \A a \in CharStates, c \in Nat : CharMoves[a][c] = CharStep(a, c)
  BY DEF CharMoves
<1>5. ASSUME NEW x \in SUBSET DOMAIN t, x # {}
      PROVE  CharMoves[iter[x \ {Max(x)}]][t[Max(x)]] = CharStep(iter[x \ {Max(x)}], t[Max(x)])
  <2>1. Max(x) \in x /\ x \in SUBSET (1..Len(t))
    BY <1>3, <1>5, GreatestIndex
  <2>2. t[Max(x)] \in Nat /\ iter[x \ {Max(x)}] \in CharStates
    BY <1>2, <1>3, <2>1
  <2> QED
    BY <1>4, <2>2
<1>6. Runs(iter)
  BY <1>2, <1>5 DEF Folds
<1>7. Runs(found)
  BY <1>6, Zenon
<1>8. FoldLeft(CharStep, s, t) = found[DOMAIN t]
  BY DEF FoldLeft, MapThenFoldSet
<1> HIDE DEF found
<1>9. found[{}] = s /\ DOMAIN found = SUBSET DOMAIN t
  BY <1>7
<1>10. ASSUME NEW k \in 1..Len(t), found[1..k - 1] \in CharStates
       PROVE  found[1..k] = CharMoves[found[1..k - 1]][t[k]]
  <2>1. Max(1..k) = k /\ (1..k) \ {k} = 1..k - 1 /\ 1..k # {} /\ 1..k \in SUBSET DOMAIN t
    BY <1>3, GreatestOfFirst
  <2>2. found[1..k] = CharStep(found[1..k - 1], t[k])
    BY <1>7, <2>1
  <2> QED
    BY <1>3, <1>4, <1>10, <2>2
<1>11. \A k \in 1..Len(t) :
         found[1..k - 1] \in CharStates => found[1..k] = CharMoves[found[1..k - 1]][t[k]]
  BY <1>10
<1>12. found[{}] = s
  BY <1>9
<1> HIDE DEF Runs
<1>13. found[DOMAIN t] = Fold(CharMoves, s, t)
  BY <1>1, <1>11, <1>12, FoldsIs
<1> QED
  BY <1>8, <1>13

\* What Bytes folds over one.
LEMMA ByteFold ==
  ASSUME None \notin Nat, NEW continued \in BOOLEAN, NEW s \in ByteStates, NEW t \in Seq(Nat)
  PROVE  FoldLeft(LAMBDA r, c : ByteStep(r, c, continued), s, t) = Fold(ByteMoves(continued), s, t)
<1> DEFINE Runs(iter) == iter = [x \in SUBSET DOMAIN t |->
                            IF x = {} THEN s ELSE ByteStep(iter[x \ {Max(x)}], t[Max(x)], continued)]
           found == CHOOSE iter : Runs(iter)
<1>1. Moves(ByteMoves(continued), ByteStates, Nat)
  BY CharStepMoves
<1>2. PICK iter \in [SUBSET DOMAIN t -> ByteStates] : Folds(ByteMoves(continued), s, t, iter)
  BY <1>1, FoldsExists
<1>3. Len(t) \in Nat /\ DOMAIN t = 1..Len(t) /\ \A k \in 1..Len(t) : t[k] \in Nat
  OBVIOUS
<1>4. \A a \in ByteStates, c \in Nat : ByteMoves(continued)[a][c] = ByteStep(a, c, continued)
  BY DEF ByteMoves
<1>5. ASSUME NEW x \in SUBSET DOMAIN t, x # {}
      PROVE  ByteMoves(continued)[iter[x \ {Max(x)}]][t[Max(x)]] = ByteStep(iter[x \ {Max(x)}], t[Max(x)], continued)
  <2>1. Max(x) \in x /\ x \in SUBSET (1..Len(t))
    BY <1>3, <1>5, GreatestIndex
  <2>2. t[Max(x)] \in Nat /\ iter[x \ {Max(x)}] \in ByteStates
    BY <1>2, <1>3, <2>1
  <2> QED
    BY <1>4, <2>2
<1>6. Runs(iter)
  BY <1>2, <1>5 DEF Folds
<1>7. Runs(found)
  BY <1>6, Zenon
<1>8. FoldLeft(LAMBDA r, c : ByteStep(r, c, continued), s, t) = found[DOMAIN t]
  BY DEF FoldLeft, MapThenFoldSet
<1> HIDE DEF found
<1>9. found[{}] = s /\ DOMAIN found = SUBSET DOMAIN t
  BY <1>7
<1>10. ASSUME NEW k \in 1..Len(t), found[1..k - 1] \in ByteStates
       PROVE  found[1..k] = ByteMoves(continued)[found[1..k - 1]][t[k]]
  <2>1. Max(1..k) = k /\ (1..k) \ {k} = 1..k - 1 /\ 1..k # {} /\ 1..k \in SUBSET DOMAIN t
    <3>1. k \in Nat \ {0}
      BY <1>3
    <3>2. Max(1..k) = k /\ (1..k) \ {k} = 1..k - 1
      BY <3>1, GreatestOfFirst
    <3>3. k \in 1..k /\ 1..k \in SUBSET DOMAIN t
      BY <1>3
    <3> QED
      BY <3>2, <3>3
  <2>2. found[1..k] = ByteStep(found[1..k - 1], t[k], continued)
    BY <1>7, <2>1
  <2> QED
    BY <1>3, <1>4, <1>10, <2>2
<1>11. \A k \in 1..Len(t) :
         found[1..k - 1] \in ByteStates => found[1..k] = ByteMoves(continued)[found[1..k - 1]][t[k]]
  BY <1>10
<1>12. found[{}] = s
  BY <1>9
<1> HIDE DEF Runs
<1>13. found[DOMAIN t] = Fold(ByteMoves(continued), s, t)
  BY <1>1, <1>11, <1>12, FoldsIs
<1> QED
  BY <1>8, <1>13


\* The steps that are taken over what was written.
LEMMA CharsTaken ==
  ASSUME None \notin Nat, NEW out \in Seq(Nat), NEW c \in Nat
  PROVE  /\ c # Backslash => CharMoves[Normal(out)][c] = Normal(Append(out, c))
         /\ c = Backslash => CharMoves[Normal(out)][c] = CharState("escape", out, 0, 0, 0)
         /\ c = LowerU => CharMoves[CharState("escape", out, 0, 0, 0)][c] = CharState("hex", out, 0, 0, 0)
         /\ c # LowerU => CharMoves[CharState("escape", out, 0, 0, 0)][c] =
                            Normal(Append(out, IF c \in DOMAIN Meaning THEN Meaning[c] ELSE c))
<1>1. Normal(out) \in CharStates /\ CharState("escape", out, 0, 0, 0) \in CharStates
  <2>1. 0 \in Nat /\ "normal" \in CharModes /\ "escape" \in CharModes
    BY DEF CharModes
  <2> QED
    BY <2>1, CharStateIsOne, Zenon DEF CharStates, Normal
<1>2. /\ CharMoves[Normal(out)][c] = CharStep(Normal(out), c)
      /\ CharMoves[CharState("escape", out, 0, 0, 0)][c] = CharStep(CharState("escape", out, 0, 0, 0), c)
  BY <1>1 DEF CharMoves
<1>3. c # Backslash => CharStep(Normal(out), c) = Normal(Append(out, c))
  BY DEF CharStep, Normal, CharState, Emit
<1>4. c = Backslash => CharStep(Normal(out), c) = CharState("escape", out, 0, 0, 0)
  BY DEF CharStep, Normal, CharState
<1>5. c = LowerU => CharStep(CharState("escape", out, 0, 0, 0), c) = CharState("hex", out, 0, 0, 0)
  BY DEF CharStep, CharState
<1>6. c # LowerU => CharStep(CharState("escape", out, 0, 0, 0), c) =
                      Normal(Append(out, IF c \in DOMAIN Meaning THEN Meaning[c] ELSE c))
  <2> DEFINE m == IF c \in DOMAIN Meaning THEN Meaning[c] ELSE c
  <2> HIDE DEF m
  <2>1. c # LowerU => CharStep(CharState("escape", out, 0, 0, 0), c) =
                        Emit(CharState("escape", out, 0, 0, 0), m)
    BY DEF CharStep, CharState, m
  <2>2. Emit(CharState("escape", out, 0, 0, 0), m) = Normal(Append(out, m))
    BY DEF Emit, CharState
  <2> QED
    BY <2>1, <2>2 DEF m
<1> QED
  BY <1>2, <1>3, <1>4, <1>5, <1>6, Zenon

\* Names for what the numbers are.
Code == Nat
Texts == Seq(Nat)
Sixteen == 0..15

\* And over the digits of a unit.
LEMMA DigitsTaken ==
  ASSUME None \notin Nat, NEW out \in Texts, NEW unit \in Code, NEW count \in Code, NEW high \in Code,
         NEW d \in Sixteen
  PROVE  LET s == CharState("hex", out, unit, count, high)
         IN /\ s \in CharStates /\ CharState("second", out, 0, 0, high) \in CharStates
            /\ count # 3 => CharMoves[s][HexDigit(d)] = CharState("hex", out, unit * 16 + d, count + 1, high)
            /\ count = 3 => CharMoves[s][HexDigit(d)] = UnitRead(s, unit * 16 + d)
            /\ CharMoves[CharState("second", out, 0, 0, high)][Backslash] = CharState("secondu", out, 0, 0, high)
            /\ CharMoves[CharState("secondu", out, 0, 0, high)][LowerU] = CharState("hex", out, 0, 0, high)
<1> DEFINE s == CharState("hex", out, unit, count, high)
           second == CharState("second", out, 0, 0, high)
           secondu == CharState("secondu", out, 0, 0, high)
           c == HexDigit(d)
<1>0. out \in Seq(Nat) /\ unit \in Nat /\ count \in Nat /\ high \in Nat /\ d \in 0..15
  BY DEF Texts, Code, Sixteen
<1>1. s \in CharStates /\ second \in CharStates /\ secondu \in CharStates
  <2>1. 0 \in Nat /\ "hex" \in CharModes /\ "second" \in CharModes /\ "secondu" \in CharModes
    BY DEF CharModes
  <2> QED
    BY <1>0, <2>1, CharStateIsOne, Zenon DEF CharStates
<1>2. c \in Nat /\ HexValue(c) = d /\ HexValue(c) # None /\ Backslash \in Nat /\ LowerU \in Nat
  BY <1>0, HexValues, Marks
<1>3. /\ CharMoves[s][c] = CharStep(s, c)
      /\ CharMoves[second][Backslash] = CharStep(second, Backslash)
      /\ CharMoves[secondu][LowerU] = CharStep(secondu, LowerU)
  <2> HIDE DEF s, second, secondu, c
  <2> QED
    BY <1>1, <1>2 DEF CharMoves
<1>4. CharStep(second, Backslash) = secondu /\ CharStep(secondu, LowerU) = CharState("hex", out, 0, 0, high)
  BY DEF CharStep, CharState
<1>5. s.mode = "hex" /\ s.out = out /\ s.unit = unit /\ s.count = count /\ s.high = high
  BY DEF CharState
<1>6. /\ count # 3 => CharStep(s, c) = CharState("hex", out, unit * 16 + d, count + 1, high)
      /\ count = 3 => CharStep(s, c) = UnitRead(s, unit * 16 + d)
  <2> HIDE DEF s, c
  <2> QED
    BY <1>2, <1>5 DEF CharStep
<1> HIDE DEF s, second, secondu, c
<1> QED
  BY <1>1, <1>3, <1>4, <1>6, Zenon DEF s, second, secondu, c

\* Four digits, behind what comes before them, are read as a unit.
Unit(d1, d2, d3, d4) == ((d1 * 16 + d2) * 16 + d3) * 16 + d4
UnitText(d1, d2, d3, d4) == <<Backslash, LowerU, HexDigit(d1), HexDigit(d2), HexDigit(d3), HexDigit(d4)>>

\* The states from which they are.
Awaits(start, out, high) ==
  /\ start \in CharStates
  /\ \/ start = Normal(out) /\ high = 0
     \/ start = CharState("second", out, 0, 0, high)

\* From them they are.
LEMMA UnitsTaken ==
  ASSUME None \notin Nat, NEW out \in Texts, NEW high \in Code, NEW start, Awaits(start, out, high),
         NEW d1 \in Sixteen, NEW d2 \in Sixteen, NEW d3 \in Sixteen, NEW d4 \in Sixteen
  PROVE  /\ UnitText(d1, d2, d3, d4) \in Texts
         /\ \E s \in CharStates :
              /\ s.out = out /\ s.high = high
              /\ Fold(CharMoves, start, UnitText(d1, d2, d3, d4)) = UnitRead(s, Unit(d1, d2, d3, d4))
<1> DEFINE op == CharMoves
           S(unit, count) == CharState("hex", out, unit, count, high)
           u2 == d1 * 16 + d2
           u3 == u2 * 16 + d3
           a == Backslash
           b == LowerU
           c1 == HexDigit(d1)
           c2 == HexDigit(d2)
           c3 == HexDigit(d3)
           c4 == HexDigit(d4)
<1>1. d1 \in 0..15 /\ d2 \in 0..15 /\ d3 \in 0..15 /\ d4 \in 0..15
  BY DEF Sixteen
<1>2. d1 \in Code /\ u2 \in Code /\ u3 \in Code /\ 0 * 16 + d1 = d1
  BY <1>1 DEF Code
<1>3. 0 \in Code /\ 1 \in Code /\ 2 \in Code /\ 3 \in Code /\ 0 + 1 = 1 /\ 1 + 1 = 2 /\ 2 + 1 = 3
  BY DEF Code
<1>4. ASSUME NEW unit \in Code, NEW count \in Code, NEW d \in Sixteen
      PROVE  /\ S(unit, count) \in CharStates
             /\ count # 3 => op[S(unit, count)][HexDigit(d)] = S(unit * 16 + d, count + 1)
             /\ count = 3 => op[S(unit, count)][HexDigit(d)] = UnitRead(S(unit, count), unit * 16 + d)
             /\ op[CharState("second", out, 0, 0, high)][Backslash] = CharState("secondu", out, 0, 0, high)
             /\ op[CharState("secondu", out, 0, 0, high)][LowerU] = S(0, 0)
  BY DigitsTaken
<1>5. op[op[start][a]][b] = S(0, 0) /\ start \in CharStates
  <2>1. CASE start = Normal(out) /\ high = 0
    BY <2>1, Marks, CharsTaken DEF Awaits, Texts
  <2>2. CASE start = CharState("second", out, 0, 0, high)
    <3> HIDE DEF op, S
    <3> QED
      BY <1>3, <1>4, <2>2 DEF Awaits
  <2> QED
    BY <2>1, <2>2 DEF Awaits
<1>6. op[S(0, 0)][c1] = S(d1, 1)
  <2> HIDE DEF op, S
  <2>1. op[S(0, 0)][HexDigit(d1)] = S(0 * 16 + d1, 0 + 1)
    BY <1>3, <1>4
  <2> QED
    BY <1>2, <1>3, <2>1
<1>7. op[S(d1, 1)][c2] = S(u2, 2)
  <2> HIDE DEF op, S
  <2>1. op[S(d1, 1)][HexDigit(d2)] = S(u2, 1 + 1)
    BY <1>2, <1>3, <1>4
  <2> QED
    BY <1>3, <2>1
<1>8. op[S(u2, 2)][c3] = S(u3, 3)
  <2> HIDE DEF op, S, u2
  <2>1. op[S(u2, 2)][HexDigit(d3)] = S(u2 * 16 + d3, 2 + 1)
    BY <1>2, <1>3, <1>4
  <2> QED
    BY <1>3, <2>1
<1>9. S(u3, 3) \in CharStates /\ op[S(u3, 3)][c4] = UnitRead(S(u3, 3), u3 * 16 + d4)
  <2> HIDE DEF op, S, u3
  <2> QED
    BY <1>2, <1>3, <1>4
<1>10. Moves(op, CharStates, Code)
  BY CharStepMoves DEF Code
<1>11. a \in Code /\ b \in Code /\ c1 \in Code /\ c2 \in Code /\ c3 \in Code /\ c4 \in Code
  BY <1>1, Marks, HexValues DEF Code
<1>12. UnitText(d1, d2, d3, d4) = <<a, b, c1, c2, c3, c4>>
  BY DEF UnitText
<1>16. S(u3, 3).out = out /\ S(u3, 3).high = high
  BY DEF CharState
<1>17. u3 * 16 + d4 = Unit(d1, d2, d3, d4)
  BY DEF Unit
<1> HIDE DEF a, b, c1, c2, c3, c4, op, S, u2, u3
<1>13. Fold(op, start, Six(a, b, c1, c2, c3, c4)) = SixMoves(op, start, a, b, c1, c2, c3, c4)
  BY <1>5, <1>10, <1>11, FoldSix, SMTT(30)
<1>14. <<a, b, c1, c2, c3, c4>> \in Texts
  BY <1>11 DEF Code, Texts
<1>15. Fold(op, start, <<a, b, c1, c2, c3, c4>>) = UnitRead(S(u3, 3), u3 * 16 + d4)
  BY <1>5, <1>6, <1>7, <1>8, <1>9, <1>13, Zenon DEF Six, SixMoves
<1>18. Fold(CharMoves, start, <<a, b, c1, c2, c3, c4>>) = UnitRead(S(u3, 3), Unit(d1, d2, d3, d4))
  BY <1>15, <1>17 DEF op
<1> QED
  BY <1>9, <1>12, <1>14, <1>16, <1>18, Zenon

\* The same, for the unit that is written.
LEMMA UnitWritten ==
  ASSUME None \notin Nat, NEW out \in Texts, NEW high \in Code, NEW start, Awaits(start, out, high),
         NEW u \in Code, u < Supplementary
  PROVE  /\ Hex4(u) \in Texts
         /\ \E s \in CharStates :
              s.out = out /\ s.high = high /\ Fold(CharMoves, start, Hex4(u)) = UnitRead(s, u)
<1> DEFINE d1 == u \div 4096
           d2 == (u \div 256) % 16
           d3 == (u \div 16) % 16
           d4 == u % 16
<1>1. /\ d1 \in Sixteen /\ d2 \in Sixteen /\ d3 \in Sixteen /\ d4 \in Sixteen
      /\ Unit(d1, d2, d3, d4) = u
  BY SMT DEF Supplementary, Sixteen, Code, Unit
<1>2. Hex4(u) = UnitText(d1, d2, d3, d4)
  BY SMT DEF Hex4, UnitText
<1> HIDE DEF d1, d2, d3, d4
<1> QED
  BY <1>1, <1>2, UnitsTaken

\* These are states.
LEMMA NormalIsOne ==
  ASSUME NEW out \in Seq(Nat)
  PROVE  /\ Normal(out) \in CharStates /\ Normal(out) \in ByteStates
         /\ \A h \in Nat : CharState("second", out, 0, 0, h) \in CharStates
<1>1. 0 \in Nat /\ "normal" \in CharModes /\ "normal" \in ByteModes /\ "second" \in CharModes
  BY DEF CharModes, ByteModes
<1> QED
  BY <1>1, CharStateIsOne, Zenon DEF CharStates, ByteStates, Normal

\* A character that stands behind \u, or two halves of it, is read as that character.
LEMMA UnicodeRead ==
  ASSUME None \notin Nat, NEW out \in Seq(Nat), NEW c \in CodePoints
  PROVE  UnicodeChar(c) \in Seq(Nat) /\ Fold(CharMoves, Normal(out), UnicodeChar(c)) = Normal(Append(out, c))
<1>1. c \in Nat /\ c <= LastCodePoint /\ c \notin HighSurrogates /\ c \notin LowSurrogates
  BY Marks DEF CodePoints
<1>2. Normal(out) \in CharStates
  BY NormalIsOne
<1>5. out \in Texts /\ c \in Code /\ 0 \in Code
  BY <1>1 DEF Texts, Code
<1>6. Awaits(Normal(out), out, 0)
  BY <1>2 DEF Awaits
<1>3. CASE c < Supplementary
  <2>1. UnicodeChar(c) = Hex4(c)
    BY <1>3 DEF UnicodeChar
  <2>3. /\ Hex4(c) \in Texts
        /\ \E s \in CharStates : /\ s.out = out /\ s.high = 0
                                 /\ Fold(CharMoves, Normal(out), Hex4(c)) = UnitRead(s, c)
    BY <1>3, <1>5, <1>6, UnitWritten
  <2> QED
    BY <1>1, <2>1, <2>3, UnitsRead, Zenon DEF Texts
<1>4. CASE ~(c < Supplementary)
  <2>0. \E h, l \in Nat :
          /\ h \in HighSurrogates /\ l \in LowSurrogates /\ h < Supplementary /\ l < Supplementary
          /\ Pair(h, l) = c /\ UnicodeChar(c) = Hex4(h) \o Hex4(l)
    <3> DEFINE h == 55296 + ((c - Supplementary) \div 1024)
               l == 56320 + ((c - Supplementary) % 1024)
    <3>1. /\ h \in Nat /\ h >= 55296 /\ h <= 56319 /\ h < 65536
          /\ l \in Nat /\ l >= 56320 /\ l <= 57343 /\ l < 65536
      BY <1>1, <1>4, SMT DEF Supplementary, LastCodePoint
    <3>2. Pair(h, l) = c
      BY <1>1, <1>4, SMT DEF Pair, Supplementary
    <3>3. UnicodeChar(c) = Hex4(h) \o Hex4(l)
      BY <1>4, SMT DEF UnicodeChar
    <3> HIDE DEF h, l
    <3>4. h \in HighSurrogates /\ l \in LowSurrogates /\ h < Supplementary /\ l < Supplementary
      BY <3>1, Surrogates, SMT DEF Supplementary
    <3>5. h \in Nat /\ l \in Nat
      BY <3>1
    <3> QED
      BY <3>2, <3>3, <3>4, <3>5, Zenon
  <2>1. PICK h \in Nat, l \in Nat :
          /\ h \in HighSurrogates /\ l \in LowSurrogates /\ h < Supplementary /\ l < Supplementary
          /\ Pair(h, l) = c /\ UnicodeChar(c) = Hex4(h) \o Hex4(l)
    BY <2>0
  <2> DEFINE middle == CharState("second", out, 0, 0, h)
             x == Hex4(h)
             y == Hex4(l)
  <2>4. h \in Code /\ l \in Code
    BY DEF Code
  <2>5. x \in Seq(Nat) /\ Fold(CharMoves, Normal(out), x) = middle
    <3>2. /\ x \in Texts
          /\ \E s \in CharStates : /\ s.out = out /\ s.high = 0
                                   /\ Fold(CharMoves, Normal(out), x) = UnitRead(s, h)
      BY <1>5, <1>6, <2>1, <2>4, UnitWritten
    <3> QED
      BY <2>1, <3>2, UnitsRead, Zenon DEF Texts
  <2>6. middle \in CharStates
    BY NormalIsOne
  <2>7. y \in Seq(Nat) /\ Fold(CharMoves, middle, y) = Normal(Append(out, c))
    <3>1. Awaits(middle, out, h)
      BY <2>6 DEF Awaits
    <3>2. /\ y \in Texts
          /\ \E s \in CharStates : /\ s.out = out /\ s.high = h
                                   /\ Fold(CharMoves, middle, y) = UnitRead(s, l)
      BY <1>5, <2>1, <2>4, <3>1, UnitWritten
    <3> QED
      BY <2>1, <3>2, UnitsRead, Zenon DEF Texts
  <2> HIDE DEF x, y, middle
  <2>8. Moves(CharMoves, CharStates, Nat)
    BY CharStepMoves
  <2> DEFINE n == Normal(out)
  <2>9. n \in CharStates /\ Fold(CharMoves, n, x) = middle
    BY <1>2, <2>5
  <2> HIDE DEF n
  <2>10. Fold(CharMoves, n, x \o y) = Fold(CharMoves, Fold(CharMoves, n, x), y)
    BY <2>5, <2>7, <2>8, <2>9, FoldConcat
  <2>11. x \o y \in Seq(Nat)
    BY <2>5, <2>7
  <2>12. UnicodeChar(c) = x \o y
    BY <2>1 DEF x, y
  <2> QED
    BY <2>5, <2>7, <2>9, <2>10, <2>11, <2>12 DEF n
<1> QED
  BY <1>3, <1>4

\* A character that was escaped is read as that character.
LEMMA EscapedRead ==
  ASSUME None \notin Nat, NEW out \in Seq(Nat), NEW c \in Nat
  PROVE  EscapedChar(c) \in Seq(Nat) /\ Fold(CharMoves, Normal(out), EscapedChar(c)) = Normal(Append(out, c))
<1> DEFINE letters == {l \in DOMAIN Meaning \ {48} : Meaning[l] = c}
           letter == CHOOSE l \in letters : TRUE
           n == Normal(out)
           more == Normal(Append(out, c))
           escape == CharState("escape", out, 0, 0, 0)
<1>1. n \in CharStates /\ Moves(CharMoves, CharStates, Code)
  BY NormalIsOne, CharStepMoves DEF Code
<1>2. Backslash \in Code /\ c \in Code /\ Backslash \in Nat
  BY Marks DEF Code
<1>3. CharMoves[n][Backslash] = escape
  BY <1>2, CharsTaken
<1>4. CASE c \in {DoubleQuote, Backslash}
  <2>1. EscapedChar(c) = <<Backslash, c>>
    <3>1. letters = {} /\ c \notin (0..31) \cup (127..159)
      <4>1. \A l \in DOMAIN Meaning \ {48} : Meaning[l] \in {8, 9, 10, 12, 13}
        BY DEF Meaning
      <4>2. c \notin {8, 9, 10, 12, 13} /\ c \notin (0..31) \cup (127..159)
        BY <1>4 DEF DoubleQuote, Backslash
      <4> QED
        BY <4>1, <4>2
    <3> HIDE DEF letters
    <3> QED
      BY <1>4, <3>1 DEF EscapedChar, letters
  <2>2. c # LowerU /\ c \notin DOMAIN Meaning
    BY <1>4 DEF LowerU, DoubleQuote, Backslash, Meaning
  <2>3. CharMoves[escape][c] = more
    BY <2>2, CharsTaken
  <2> HIDE DEF n, escape, more
  <2>4. Fold(CharMoves, n, <<Backslash, c>>) = CharMoves[CharMoves[n][Backslash]][c]
    BY <1>1, <1>2, FoldTwo, SMTT(60)
  <2>5. <<Backslash, c>> \in Seq(Nat)
    BY <1>2
  <2> QED
    BY <1>3, <2>1, <2>3, <2>4, <2>5 DEF n, more
<1>5. CASE c \notin {DoubleQuote, Backslash} /\ letters # {}
  <2>1. EscapedChar(c) = <<Backslash, letter>>
    BY <1>5, Zenon DEF EscapedChar
  <2>2. letter \in letters
    <3> HIDE DEF letters
    <3> QED
      BY <1>5
  <2> HIDE DEF letter
  <2>3. letter \in DOMAIN Meaning /\ Meaning[letter] = c /\ letter \in Code /\ letter \in Nat /\ letter # LowerU
    BY <2>2 DEF Meaning, Code, LowerU
  <2>4. CharMoves[escape][letter] = more
    BY <2>3, CharsTaken
  <2> HIDE DEF letters, n, escape, more
  <2>5. Fold(CharMoves, n, <<Backslash, letter>>) = CharMoves[CharMoves[n][Backslash]][letter]
    BY <1>1, <1>2, <2>3, FoldTwo, SMTT(60)
  <2>6. <<Backslash, letter>> \in Seq(Nat)
    BY <1>2, <2>3
  <2> QED
    BY <1>3, <2>1, <2>4, <2>5, <2>6 DEF n, more
<1>6. CASE c \notin {DoubleQuote, Backslash} /\ letters = {} /\ c \in (0..31) \cup (127..159)
  <2> DEFINE d3 == c \div 16
             d4 == c % 16
  <2>1. d3 \in Sixteen /\ d4 \in Sixteen /\ 0 \in Sixteen /\ Unit(0, 0, d3, d4) = c
    BY <1>6, SMT DEF Sixteen, Unit
  <2>2. HexDigit(0) = 48
    BY DEF HexDigit
  <2>3. EscapedChar(c) = <<Backslash, LowerU, 48, 48, HexDigit(d3), HexDigit(d4)>>
    <3> HIDE DEF letters
    <3> QED
      BY <1>6 DEF EscapedChar, letters
  <2> HIDE DEF d3, d4
  <2>4. EscapedChar(c) = UnitText(0, 0, d3, d4)
    BY <2>2, <2>3 DEF UnitText
  <2>5. Awaits(n, out, 0) /\ out \in Texts /\ 0 \in Code
    BY <1>1 DEF Awaits, Texts, Code
  <2>6. /\ UnitText(0, 0, d3, d4) \in Texts
        /\ \E s \in CharStates :
             /\ s.out = out /\ s.high = 0
             /\ Fold(CharMoves, n, UnitText(0, 0, d3, d4)) = UnitRead(s, Unit(0, 0, d3, d4))
    <3> HIDE DEF n
    <3> QED
      BY <2>1, <2>5, UnitsTaken
  <2>7. c \notin HighSurrogates /\ c \notin LowSurrogates
    BY <1>6, Surrogates
  <2> QED
    BY <2>1, <2>4, <2>6, <2>7, UnitsRead, Zenon DEF Texts
<1>7. CASE c \notin {DoubleQuote, Backslash} /\ letters = {} /\ c \notin (0..31) \cup (127..159)
  <2>1. EscapedChar(c) = <<c>>
    <3> HIDE DEF letters
    <3> QED
      BY <1>7 DEF EscapedChar, letters
  <2>2. CharMoves[n][c] = more
    BY <1>7, CharsTaken
  <2> HIDE DEF n, more
  <2>3. Fold(CharMoves, n, <<c>>) = CharMoves[n][c]
    BY <1>1, <1>2, FoldOne
  <2> QED
    BY <2>1, <2>2, <2>3 DEF n, more
<1> QED
  BY <1>4, <1>5, <1>6, <1>7

\* Texts that were escaped, and those written behind \u, are read as they were.
LEMMA TextsRead ==
  ASSUME None \notin Nat
  PROVE  /\ \A t \in Seq(Nat) : Unescaped(Escaped(t)) = t /\ Escaped(t) \in Seq(Nat)
         /\ \A t \in Seq(CodePoints) : Unescaped(Unicode(t)) = t /\ Unicode(t) \in Seq(Nat)
<1> DEFINE at(B) == [u \in Seq(B) |-> Normal(u)]
           escaped == [c \in Nat |-> EscapedChar(c)]
           unicode == [c \in CodePoints |-> UnicodeChar(c)]
<1>1. Moves(CharMoves, CharStates, Nat)
  BY CharStepMoves
<1>2. CodePoints \subseteq Nat
  BY Marks
<1>3. \A u \in Seq(CodePoints) : u \in Seq(Nat)
  BY <1>2, WiderSeq, Zenon
<1>4. PiecesLead(CharMoves, CharStates, Nat, escaped, Nat, at(Nat))
  <2>1. \A u \in Seq(Nat), c \in Nat :
          /\ Append(u, c) \in Seq(Nat) /\ Normal(u) \in CharStates
          /\ EscapedChar(c) \in Seq(Nat) /\ Fold(CharMoves, Normal(u), EscapedChar(c)) = Normal(Append(u, c))
    BY EscapedRead, NormalIsOne
  <2>2. <<>> \in Seq(Nat)
    OBVIOUS
  <2>3. 0 \in Nat
    OBVIOUS
  <2> QED
    BY <2>1, <2>2, <2>3 DEF PiecesLead
<1>5. PiecesLead(CharMoves, CharStates, Nat, unicode, CodePoints, at(CodePoints))
  <2>1. ASSUME NEW u \in Seq(CodePoints), NEW c \in CodePoints
        PROVE  /\ Append(u, c) \in Seq(CodePoints) /\ Normal(u) \in CharStates
               /\ UnicodeChar(c) \in Seq(Nat) /\ Fold(CharMoves, Normal(u), UnicodeChar(c)) = Normal(Append(u, c))
    <3>1. u \in Seq(Nat)
      BY <1>3
    <3> QED
      BY <3>1, UnicodeRead, NormalIsOne
  <2>2. ASSUME NEW c \in CodePoints PROVE UnicodeChar(c) \in Seq(Nat)
    <3>1. <<>> \in Seq(CodePoints)
      OBVIOUS
    <3> QED
      BY <2>1, <3>1
  <2>3. ASSUME NEW u \in Seq(CodePoints) PROVE Normal(u) \in CharStates
    <3>1. u \in Seq(Nat)
      BY <1>3
    <3> QED
      BY <3>1, NormalIsOne
  <2> QED
    BY <2>1, <2>2, <2>3 DEF PiecesLead
<1>6. ASSUME NEW x \in Seq(Nat), NEW t \in Seq(Nat), Fold(CharMoves, Normal(<<>>), x) = Normal(t)
      PROVE  Unescaped(x) = t
  <2>1. <<>> \in Seq(Nat)
    OBVIOUS
  <2>2. Begun \in CharStates /\ Begun = Normal(<<>>)
    BY <2>1, NormalIsOne DEF Begun
  <2>3. FoldLeft(CharStep, Begun, x) = Normal(t)
    BY <1>6, <2>2, CharFold
  <2>4. Normal(t).mode = "normal" /\ Normal(t).out = t
    BY DEF Normal, CharState
  <2> QED
    BY <2>3, <2>4 DEF Unescaped
<1>7. ASSUME NEW t \in Seq(Nat) PROVE Unescaped(Escaped(t)) = t /\ Escaped(t) \in Seq(Nat)
  <2>1. Escaped(t) = FlattenSeq([i \in DOMAIN t |-> escaped[t[i]]])
    <3>1. \A i \in DOMAIN t : escaped[t[i]] = EscapedChar(t[i])
      OBVIOUS
    <3> QED
      BY <3>1 DEF Escaped
  <2> DEFINE steps == at(Nat)
  <2>2. steps[<<>>] = Normal(<<>>) /\ steps[t] = Normal(t)
    <3>1. <<>> \in Seq(Nat)
      OBVIOUS
    <3> QED
      BY <3>1
  <2>3. PiecesLead(CharMoves, CharStates, Nat, escaped, Nat, steps)
    BY <1>4
  <2> HIDE DEF steps, escaped, at
  <2>4. Escaped(t) \in Seq(Nat) /\ Fold(CharMoves, steps[<<>>], Escaped(t)) = steps[t]
    BY <1>1, <2>1, <2>3, FoldPieces
  <2> QED
    BY <1>6, <2>2, <2>4
<1>8. ASSUME NEW t \in Seq(CodePoints) PROVE Unescaped(Unicode(t)) = t /\ Unicode(t) \in Seq(Nat)
  <2>1. Unicode(t) = FlattenSeq([i \in DOMAIN t |-> unicode[t[i]]])
    <3>1. \A i \in DOMAIN t : unicode[t[i]] = UnicodeChar(t[i])
      OBVIOUS
    <3> QED
      BY <3>1 DEF Unicode
  <2> DEFINE steps == at(CodePoints)
  <2>2. steps[<<>>] = Normal(<<>>) /\ steps[t] = Normal(t)
    <3>1. <<>> \in Seq(CodePoints)
      OBVIOUS
    <3> QED
      BY <3>1
  <2>3. PiecesLead(CharMoves, CharStates, Nat, unicode, CodePoints, steps)
    BY <1>5
  <2> HIDE DEF steps, unicode, at
  <2>4. Unicode(t) \in Seq(Nat) /\ Fold(CharMoves, steps[<<>>], Unicode(t)) = steps[t]
    BY <1>1, <2>1, <2>3, FoldPieces
  <2> QED
    BY <1>3, <1>6, <2>2, <2>4
<1> QED
  BY <1>7, <1>8

\* The steps that are taken over octets, from where a literal begins or a line was continued.
LEMMA BytesTaken ==
  ASSUME None \notin Nat, NEW continued \in BOOLEAN, NEW out \in Texts, NEW mode \in {"normal", "skip"}
  PROVE  LET s == CharState(mode, out, 0, 0, 0)
             escape == CharState("escape", out, 0, 0, 0)
             hex == CharState("hex", out, 0, 0, 0)
         IN /\ s \in ByteStates
            /\ \A c \in (35..91) \ {Quote} : ByteMoves(continued)[s][c] = Normal(Append(out, c))
            /\ ByteMoves(continued)[s][Backslash] = escape
            /\ ByteMoves(continued)[escape][LowerX] = hex
            /\ \A d, e \in Sixteen :
                 ByteMoves(continued)[ByteMoves(continued)[hex][HexDigit(d)]][HexDigit(e)] =
                   Normal(Append(out, d * 16 + e))
            /\ continued => /\ ByteMoves(continued)[escape][10] = CharState("skip", out, 0, 0, 0)
                            /\ ByteMoves(continued)[CharState("skip", out, 0, 0, 0)][Space] =
                                 CharState("skip", out, 0, 0, 0)
<1> DEFINE op == ByteMoves(continued)
           s == CharState(mode, out, 0, 0, 0)
           escape == CharState("escape", out, 0, 0, 0)
           hex == CharState("hex", out, 0, 0, 0)
           skip == CharState("skip", out, 0, 0, 0)
           half(d) == CharState("hex", out, d, 1, 0)
<1>1. out \in Seq(Nat) /\ 0 \in Nat /\ 1 \in Nat
  BY DEF Texts
<1>2. s \in ByteStates /\ escape \in ByteStates /\ hex \in ByteStates /\ skip \in ByteStates
  <2>1. mode \in ByteModes /\ "escape" \in ByteModes /\ "hex" \in ByteModes /\ "skip" \in ByteModes
    BY DEF ByteModes
  <2> QED
    BY <1>1, <2>1, CharStateIsOne, Zenon DEF ByteStates
<1>3. ASSUME NEW r \in ByteStates, NEW c \in Nat PROVE op[r][c] = ByteStep(r, c, continued)
  BY DEF ByteMoves
<1>4. /\ Backslash \in Nat /\ LowerX \in Nat /\ Space \in Nat /\ 10 \in Nat
      /\ Backslash \notin {9, 10, 13, Space} /\ LowerX \notin {9, 10, 13, Space}
      /\ 10 \notin {48, 110, 114, 116} /\ 10 # LowerX /\ 10 \notin {Backslash, Quote, DoubleQuote}
  BY DEF Backslash, LowerX, Space, Quote, DoubleQuote
<1>5. ASSUME NEW c \in (35..91) \ {Quote} PROVE op[s][c] = Normal(Append(out, c))
  <2>1. c \in Nat /\ c \notin {9, 10, 13, Space} /\ c # Backslash
    BY DEF Space, Backslash
  <2>2. ByteStep(s, c, continued) = Emit(s, c)
    BY <2>1 DEF ByteStep, CharState
  <2>3. Emit(s, c) = Normal(Append(out, c))
    BY DEF Emit, CharState
  <2> QED
    BY <1>2, <1>3, <2>1, <2>2, <2>3
<1>6. op[s][Backslash] = escape
  <2>1. ByteStep(s, Backslash, continued) = escape
    BY <1>4 DEF ByteStep, CharState
  <2> QED
    BY <1>2, <1>3, <1>4, <2>1
<1>7. op[escape][LowerX] = hex
  <2>1. escape.mode = "escape" /\ [escape EXCEPT !.mode = "hex"] = hex
    BY DEF CharState
  <2>2. LowerX \notin {48, 110, 114, 116} /\ LowerX \notin {Backslash, Quote, DoubleQuote, 10, 13}
    BY DEF Backslash, LowerX, Quote, DoubleQuote
  <2> HIDE DEF escape, hex
  <2>3. ByteStep(escape, LowerX, continued) = hex
    BY <2>1, <2>2 DEF ByteStep
  <2> QED
    BY <1>2, <1>3, <1>4, <2>3
<1>8. ASSUME NEW d \in Sixteen, NEW e \in Sixteen
      PROVE  op[op[hex][HexDigit(d)]][HexDigit(e)] = Normal(Append(out, d * 16 + e))
  <2>1. /\ HexDigit(d) \in Nat /\ HexValue(HexDigit(d)) = d /\ d # None /\ d \in Nat
        /\ HexDigit(e) \in Nat /\ HexValue(HexDigit(e)) = e /\ e # None /\ e \in Nat
    BY HexValues DEF Sixteen
  <2>2. ByteStep(hex, HexDigit(d), continued) = half(d)
    BY <2>1 DEF ByteStep, CharState
  <2>3. half(d) \in ByteStates
    <3>1. "hex" \in ByteModes
      BY DEF ByteModes
    <3> QED
      BY <1>1, <2>1, <3>1, CharStateIsOne, Zenon DEF ByteStates
  <2>4. ByteStep(half(d), HexDigit(e), continued) = Normal(Append(out, d * 16 + e))
    <3>1. ByteStep(half(d), HexDigit(e), continued) = Emit(half(d), d * 16 + e)
      BY <2>1 DEF ByteStep, CharState
    <3> QED
      BY <3>1 DEF Emit, CharState
  <2>5. op[hex][HexDigit(d)] = half(d)
    BY <1>2, <1>3, <2>1, <2>2
  <2>6. op[half(d)][HexDigit(e)] = Normal(Append(out, d * 16 + e))
    <3> HIDE DEF half
    <3> QED
      BY <1>3, <2>1, <2>3, <2>4
  <2> QED
    BY <2>5, <2>6, Zenon
<1>9. continued => op[escape][10] = skip /\ op[skip][Space] = skip
  <2>1. continued => ByteStep(escape, 10, continued) = skip
    BY <1>4 DEF ByteStep, CharState
  <2>2. ByteStep(skip, Space, continued) = skip
    BY DEF ByteStep, CharState
  <2> QED
    BY <1>2, <1>3, <1>4, <2>1, <2>2
<1> HIDE DEF op, s, escape, hex, skip
<1> QED
  BY <1>2, <1>5, <1>6, <1>7, <1>8, <1>9, Zenon DEF op, s, escape, hex, skip

\* An octet that was written is read as that octet.
LEMMA OctetRead ==
  ASSUME None \notin Nat, NEW continued \in BOOLEAN, NEW out \in Texts, NEW mode \in {"normal", "skip"},
         NEW c \in Octets
  PROVE  /\ OctetChar(c) \in Seq(Nat)
         /\ Fold(ByteMoves(continued), CharState(mode, out, 0, 0, 0), OctetChar(c)) = Normal(Append(out, c))
<1> DEFINE op == ByteMoves(continued)
           s == CharState(mode, out, 0, 0, 0)
           escape == CharState("escape", out, 0, 0, 0)
           hex == CharState("hex", out, 0, 0, 0)
           more == Normal(Append(out, c))
<1>1. s \in ByteStates /\ Moves(op, ByteStates, Code)
  BY BytesTaken, CharStepMoves DEF Code
<1>2. c \in Code
  BY DEF Octets, Code
<1>3. CASE c \in (35..91) \ {Quote}
  <2>1. OctetChar(c) = <<c>>
    BY <1>3 DEF OctetChar
  <2>2. op[s][c] = more
    BY <1>3, BytesTaken
  <2> HIDE DEF op, s, more
  <2>3. Fold(op, s, <<c>>) = op[s][c]
    BY <1>1, <1>2, FoldOne
  <2>4. <<c>> \in Seq(Nat)
    BY <1>2 DEF Code
  <2> QED
    BY <2>1, <2>2, <2>3, <2>4 DEF op, s, more
<1>4. CASE c \notin (35..91) \ {Quote}
  <2> DEFINE a == Backslash
             b == LowerX
             d == c \div 16
             e == c % 16
             f == HexDigit(d)
             g == HexDigit(e)
  <2>1. d \in Sixteen /\ e \in Sixteen /\ d * 16 + e = c
    BY SMT DEF Sixteen, Octets
  <2>2. OctetChar(c) = <<a, b, f, g>>
    BY <1>4 DEF OctetChar
  <2> HIDE DEF d, e
  <2>3. op[op[op[op[s][a]][b]][f]][g] = more
    <3>1. op[s][a] = escape /\ op[escape][b] = hex
      BY BytesTaken, Zenon
    <3>2. op[op[hex][f]][g] = Normal(Append(out, d * 16 + e))
      BY <2>1, BytesTaken, Zenon
    <3> QED
      BY <2>1, <3>1, <3>2, Zenon
  <2>4. a \in Code /\ b \in Code /\ f \in Code /\ g \in Code
    BY <2>1, Marks, HexValues DEF Code, Sixteen
  <2> HIDE DEF op, s, more, a, b, f, g
  <2>5. Fold(op, s, Four(a, b, f, g)) = FourMoves(op, s, a, b, f, g)
    BY <1>1, <2>4, FoldFour, SMTT(30)
  <2>6. <<a, b, f, g>> \in Seq(Nat)
    BY <2>4 DEF Code
  <2> QED
    BY <2>2, <2>3, <2>5, <2>6, Zenon DEF op, s, more, Four, FourMoves
<1> QED
  BY <1>3, <1>4

\* Octets that were written are read as they were, wherever reading begins.
LEMMA OctetsLead ==
  ASSUME None \notin Nat, NEW continued \in BOOLEAN, NEW mode \in {"normal", "skip"}, NEW b \in Seq(Octets)
  PROVE  /\ HexOctets(b) \in Seq(Nat)
         /\ Fold(ByteMoves(continued), CharState(mode, <<>>, 0, 0, 0), HexOctets(b)) =
              IF b = <<>> THEN CharState(mode, <<>>, 0, 0, 0) ELSE Normal(b)
<1> DEFINE op == ByteMoves(continued)
           first == CharState(mode, <<>>, 0, 0, 0)
           At(u) == IF u = <<>> THEN first ELSE Normal(u)
           at == [u \in Seq(Octets) |-> At(u)]
           piece == [c \in Octets |-> OctetChar(c)]
<1>1. Moves(op, ByteStates, Nat)
  BY CharStepMoves
<1>2. <<>> \in Seq(Octets) /\ <<>> \in Texts /\ <<>> \in Seq(Nat)
  BY DEF Texts
<1>3. \A u \in Seq(Octets) : u \in Seq(Nat) /\ u \in Texts
  <2>1. Octets \subseteq Nat
    BY DEF Octets
  <2> QED
    BY <2>1, WiderSeq, Zenon DEF Texts
<1>4. ASSUME NEW u \in Seq(Octets), NEW c \in Octets
      PROVE  /\ At(u) \in ByteStates /\ OctetChar(c) \in Seq(Nat)
             /\ Fold(op, At(u), OctetChar(c)) = Normal(Append(u, c))
  <2>1. "normal" \in {"normal", "skip"}
    OBVIOUS
  <2>2. Normal(u) = CharState("normal", u, 0, 0, 0) /\ Normal(u) \in ByteStates
    BY <1>3, NormalIsOne DEF Normal
  <2>3. first \in ByteStates
    BY <1>2, BytesTaken
  <2>4. u = <<>> => Fold(op, first, OctetChar(c)) = Normal(Append(u, c)) /\ OctetChar(c) \in Seq(Nat)
    <3>1. Fold(op, first, OctetChar(c)) = Normal(Append(<<>>, c)) /\ OctetChar(c) \in Seq(Nat)
      BY <1>2, OctetRead
    <3> QED
      BY <3>1, Zenon
  <2>5. Fold(op, Normal(u), OctetChar(c)) = Normal(Append(u, c)) /\ OctetChar(c) \in Seq(Nat)
    <3>1. /\ Fold(op, CharState("normal", u, 0, 0, 0), OctetChar(c)) = Normal(Append(u, c))
          /\ OctetChar(c) \in Seq(Nat)
      BY <1>3, <2>1, OctetRead
    <3> QED
      BY <2>2, <3>1
  <2> HIDE DEF first, op
  <2> QED
    BY <2>2, <2>3, <2>4, <2>5
<1>5. PiecesLead(op, ByteStates, Nat, piece, Octets, at)
  <2>1. \A u \in Seq(Octets), c \in Octets : Append(u, c) \in Seq(Octets) /\ Append(u, c) # <<>>
    OBVIOUS
  <2> HIDE DEF first, op
  <2>2. at \in [Seq(Octets) -> ByteStates]
    <3>1. 0 \in Octets
      BY DEF Octets
    <3>2. \A u \in Seq(Octets) : At(u) \in ByteStates
      BY <1>4, <3>1
    <3> HIDE DEF At
    <3> QED
      BY <3>2
  <2>3. piece \in [Octets -> Seq(Nat)]
    BY <1>2, <1>4
  <2>4. \A u \in Seq(Octets), c \in Octets : Fold(op, at[u], piece[c]) = at[Append(u, c)]
    <3> SUFFICES ASSUME NEW u \in Seq(Octets), NEW c \in Octets PROVE Fold(op, at[u], piece[c]) = at[Append(u, c)]
      OBVIOUS
    <3>1. at[Append(u, c)] = Normal(Append(u, c))
      BY <2>1
    <3>2. at[u] = At(u) /\ piece[c] = OctetChar(c)
      OBVIOUS
    <3> HIDE DEF At, at, piece
    <3> QED
      BY <1>4, <3>1, <3>2
  <2> QED
    BY <2>2, <2>3, <2>4 DEF PiecesLead
<1>6. HexOctets(b) = FlattenSeq([i \in DOMAIN b |-> piece[b[i]]])
  <2>1. \A i \in DOMAIN b : piece[b[i]] = OctetChar(b[i])
    OBVIOUS
  <2> QED
    BY <2>1 DEF HexOctets
<1>7. at[<<>>] = first /\ at[b] = At(b)
  BY <1>2
<1> HIDE DEF at, piece, op, first
<1>8. HexOctets(b) \in Seq(Nat) /\ Fold(op, at[<<>>], HexOctets(b)) = at[b]
  BY <1>1, <1>5, <1>6, FoldPieces
<1> QED
  BY <1>7, <1>8 DEF op, first

\* So are the two literals of octets, and the one that begins on a new line.
LEMMA OctetsRead ==
  ASSUME None \notin Nat, NEW b \in Seq(Octets)
  PROVE  /\ HexOctets(b) \in Seq(Nat)
         /\ \A continued \in BOOLEAN : Bytes(HexOctets(b), continued) = b
         /\ <<Backslash, 10, Space>> \o HexOctets(b) \in Seq(Nat)
         /\ Bytes(<<Backslash, 10, Space>> \o HexOctets(b), TRUE) = b
<1> DEFINE x == HexOctets(b)
           ends(s) == s.mode # "error" /\ s.out = b
<1>1. x \in Seq(Nat)
  BY OctetsLead
<1>2. Begun \in ByteStates /\ Begun = CharState("normal", <<>>, 0, 0, 0)
  <2>1. <<>> \in Seq(Nat)
    OBVIOUS
  <2> QED
    BY <2>1, NormalIsOne DEF Begun, Normal
<1>3. ASSUME NEW mode \in {"normal", "skip"}
      PROVE  ends(IF b = <<>> THEN CharState(mode, <<>>, 0, 0, 0) ELSE Normal(b))
  BY DEF CharState, Normal
<1>4. ASSUME NEW continued \in BOOLEAN, NEW t \in Seq(Nat), ends(Fold(ByteMoves(continued), Begun, t))
      PROVE  Bytes(t, continued) = b
  <2>1. FoldLeft(LAMBDA r, c : ByteStep(r, c, continued), Begun, t) = Fold(ByteMoves(continued), Begun, t)
    BY <1>2, ByteFold
  <2> DEFINE end == FoldLeft(LAMBDA r, c : ByteStep(r, c, continued), Begun, t)
  <2>2. Bytes(t, continued) = IF end.mode = "error" THEN None ELSE end.out
    BY DEF Bytes
  <2>3. ends(end)
    <3> DEFINE last == Fold(ByteMoves(continued), Begun, t)
    <3>1. end = last /\ ends(last)
      BY <1>4, <2>1
    <3> HIDE DEF end, last
    <3> QED
      BY <3>1
  <2> HIDE DEF end
  <2> QED
    BY <2>2, <2>3
<1>5. ASSUME NEW continued \in BOOLEAN PROVE Bytes(x, continued) = b
  <2>1. "normal" \in {"normal", "skip"}
    OBVIOUS
  <2>2. ends(Fold(ByteMoves(continued), Begun, x))
    <3> HIDE DEF ends
    <3> QED
      BY <1>2, <1>3, <2>1, OctetsLead
  <2> HIDE DEF x, ends
  <2> QED
    BY <1>1, <1>4, <2>2
<1> DEFINE lead == <<Backslash, 10, Space>>
           op == ByteMoves(TRUE)
           skip == CharState("skip", <<>>, 0, 0, 0)
           escape == CharState("escape", <<>>, 0, 0, 0)
<1>6. lead \in Seq(Nat) /\ <<Backslash, 10>> \in Seq(Nat) /\ <<Space>> \in Seq(Nat)
      /\ Backslash \in Nat /\ 10 \in Nat /\ Space \in Nat
      /\ lead = <<Backslash, 10>> \o <<Space>>
  BY DEF Backslash, Space
<1>7. /\ op[Begun][Backslash] = escape /\ op[escape][10] = skip /\ op[skip][Space] = skip /\ skip \in ByteStates
  <2>1. "normal" \in {"normal", "skip"} /\ "skip" \in {"normal", "skip"} /\ TRUE \in BOOLEAN /\ <<>> \in Texts
    BY DEF Texts
  <2> QED
    BY <1>2, <2>1, BytesTaken, Zenon
<1>8. Moves(op, ByteStates, Nat)
  BY CharStepMoves
<1>9. Fold(op, Begun, lead) = skip
  <2>1. Fold(op, Begun, <<Backslash, 10>>) = op[op[Begun][Backslash]][10]
    <3> HIDE DEF op
    <3> QED
      BY <1>2, <1>6, <1>8, FoldTwo
  <2>2. Fold(op, skip, <<Space>>) = op[skip][Space]
    <3> HIDE DEF op, skip
    <3> QED
      BY <1>6, <1>7, <1>8, FoldOne
  <2>3. Fold(op, Begun, <<Backslash, 10>> \o <<Space>>) = Fold(op, Fold(op, Begun, <<Backslash, 10>>), <<Space>>)
    <3> DEFINE s1 == <<Backslash, 10>>
               s2 == <<Space>>
    <3>1. s1 \in Seq(Nat) /\ s2 \in Seq(Nat) /\ Begun \in ByteStates
      BY <1>2, <1>6
    <3> HIDE DEF op, s1, s2
    <3>2. Fold(op, Begun, s1 \o s2) = Fold(op, Fold(op, Begun, s1), s2)
      BY <1>8, <3>1, FoldConcat
    <3> QED
      BY <3>2 DEF s1, s2
  <2> QED
    BY <1>6, <1>7, <2>1, <2>2, <2>3, Zenon
<1>10. Bytes(lead \o x, TRUE) = b /\ lead \o x \in Seq(Nat)
  <2>1. lead \o x \in Seq(Nat)
    BY <1>1, <1>6
  <2>2. Fold(op, Begun, lead \o x) = Fold(op, Fold(op, Begun, lead), x)
    <3> HIDE DEF op, x, lead
    <3>1. x \in Seq(Nat) /\ lead \in Seq(Nat) /\ Begun \in ByteStates
      BY <1>1, <1>2, <1>6
    <3> QED
      BY <1>8, <3>1, FoldConcat
  <2>3. ends(Fold(op, skip, x))
    <3>1. "skip" \in {"normal", "skip"} /\ TRUE \in BOOLEAN
      OBVIOUS
    <3> HIDE DEF ends
    <3> QED
      BY <1>3, <3>1, OctetsLead
  <2> DEFINE all == lead \o x
  <2> HIDE DEF ends, x, skip, lead, all
  <2>4. ends(Fold(ByteMoves(TRUE), Begun, all))
    BY <1>9, <2>2, <2>3 DEF op, all
  <2>5. all \in Seq(Nat) /\ TRUE \in BOOLEAN
    BY <2>1 DEF all
  <2> QED
    BY <1>4, <2>4, <2>5 DEF all
<1> QED
  BY <1>1, <1>5, <1>10

\* Sequences of the same elements are one.
LEMMA SameSeq ==
  ASSUME NEW A, NEW s \in Seq(A), NEW t \in Seq(A), Len(s) = Len(t), \A i \in 1..Len(t) : s[i] = t[i]
  PROVE  s = t
OBVIOUS

\* What stands between two marks.
LEMMA InsideEnclosed ==
  ASSUME NEW mark \in Nat, NEW t \in Seq(Nat)
  PROVE  /\ Inside(Enclosed(mark, t)) = t /\ Enclosed(mark, t)[1] = mark
         /\ Enclosed(mark, t) \in Seq(Nat) /\ Enclosed(mark, t) # <<>>
         /\ \A a \in Nat : /\ Tail(<<a>> \o Enclosed(mark, t)) = Enclosed(mark, t)
                           /\ (<<a>> \o Enclosed(mark, t))[1] = a /\ (<<a>> \o Enclosed(mark, t))[2] = mark
<1> DEFINE n == Len(t)
           e == Enclosed(mark, t)
<1>1. n \in Nat /\ t \in Seq(Nat) /\ DOMAIN t = 1..n
  OBVIOUS
<1>2. /\ e \in Seq(Nat) /\ Len(e) = n + 2 /\ e[1] = mark /\ \A i \in 1..n : e[i + 1] = t[i]
  BY <1>1 DEF Enclosed
<1> HIDE DEF e
<1>3. SubSeq(e, 2, Len(e) - 1) = t
  <2> DEFINE s == SubSeq(e, 2, Len(e) - 1)
  <2>1. s \in Seq(Nat) /\ Len(s) = n /\ \A i \in 1..n : s[i] = e[i + 1]
    BY <1>1, <1>2
  <2> HIDE DEF s
  <2>2. \A i \in 1..n : s[i] = t[i]
    BY <1>2, <2>1
  <2>3. s = t
    BY <1>1, <2>1, <2>2, SameSeq
  <2> QED
    BY <2>3 DEF s
<1>4. ASSUME NEW a \in Nat
      PROVE  Tail(<<a>> \o e) = e /\ (<<a>> \o e)[1] = a /\ (<<a>> \o e)[2] = mark
  <2> DEFINE w == <<a>> \o e
  <2>1. w \in Seq(Nat) /\ Len(w) = Len(e) + 1 /\ w[1] = a /\ \A i \in 1..Len(e) : w[i + 1] = e[i]
    BY <1>2
  <2> HIDE DEF w
  <2>2. Tail(w) \in Seq(Nat) /\ Len(Tail(w)) = Len(e) /\ \A i \in 1..Len(e) : Tail(w)[i] = w[i + 1]
    BY <1>1, <1>2, <2>1
  <2>3. Tail(w) = e
    BY <1>2, <2>1, <2>2
  <2>4. w[2] = e[1]
    BY <1>1, <1>2, <2>1
  <2> QED
    BY <1>2, <2>1, <2>3, <2>4 DEF w
<1> QED
  BY <1>1, <1>2, <1>3, <1>4 DEF e, Inside

\* And behind the letter of a string of octets.
LEMMA BehindB ==
  ASSUME NEW y \in Seq(Nat), NEW mark \in {DoubleQuote, Quote}, NEW l, l = <<LowerB>> \o Enclosed(mark, y)
  PROVE  Inside(Tail(l)) = y /\ l[1] = LowerB /\ l[2] = mark
<1> DEFINE e == Enclosed(mark, y)
<1>1. LowerB \in Nat /\ mark \in Nat
  BY Marks
<1>2. Inside(e) = y /\ Tail(<<LowerB>> \o e) = e /\ (<<LowerB>> \o e)[1] = LowerB /\ (<<LowerB>> \o e)[2] = mark
  BY <1>1, InsideEnclosed
<1> HIDE DEF e
<1>3. l = <<LowerB>> \o e
  BY DEF e
<1> QED
  BY <1>2, <1>3, Zenon

\* A literal that was written for a value is read as that value.
THEOREM LiteralsMean ==
  ASSUME None \notin Nat, NEW v, Typable(v), NEW l \in LiteralsOf(v)
  PROVE  Literal(l) = v
<1>1. /\ {Space, DoubleQuote, Quote, Backslash, LowerB} \subseteq Nat
      /\ DoubleQuote # Quote /\ DoubleQuote # LowerB /\ Quote # LowerB
  BY Marks DEF DoubleQuote, Quote, LowerB
<1>3. CASE v \in [{"S"} -> Seq(CodePoints)] /\ v.S # None
  <2> DEFINE t == v.S
  <2>1. t \in Seq(CodePoints) /\ DOMAIN v = {"S"} /\ t # None
    BY <1>3
  <2>2. t \in Seq(Nat)
    BY <2>1, Marks, WiderSeq, Zenon
  <2>3. Value("S", t) = v
    <3>1. v = [x \in {"S"} |-> t]
      BY <1>3
    <3> QED
      BY <2>1, <3>1, Zenon DEF Value
  <2>4. l \in TextLiterals(t)
    BY <2>1 DEF LiteralsOf
  <2> HIDE DEF t
  <2>5. ASSUME NEW x \in Seq(Nat), Unescaped(x) = t, l = Enclosed(DoubleQuote, x) PROVE Literal(l) = v
    <3>1. Inside(l) = x /\ l[1] = DoubleQuote
      BY <1>1, <2>5, InsideEnclosed
    <3> QED
      BY <1>1, <2>3, <2>5, <3>1 DEF Literal
  <2>6. l = Enclosed(Quote, t) => Literal(l) = v
    <3>1. l = Enclosed(Quote, t) => Inside(l) = t /\ l[1] = Quote
      BY <1>1, <2>2, InsideEnclosed
    <3> QED
      BY <1>1, <2>3, <3>1 DEF Literal
  <2>7. l \in {Enclosed(DoubleQuote, Escaped(t)), Enclosed(DoubleQuote, Unicode(t)), Enclosed(Quote, t)}
    BY <2>4, Zenon DEF TextLiterals
  <2> QED
    BY <2>1, <2>2, <2>5, <2>6, <2>7, TextsRead, Zenon
<1>4. CASE v \in [{"B"} -> Seq(Octets)] /\ v.B # None
  <2> DEFINE b == v.B
  <2>1. b \in Seq(Octets) /\ DOMAIN v = {"B"} /\ {"B"} # {"S"} /\ b # None
    BY <1>4
  <2>3. Value("B", b) = v
    <3>1. v = [x \in {"B"} |-> b]
      BY <1>4
    <3> QED
      BY <2>1, <3>1, Zenon DEF Value
  <2>4. l \in OctetLiterals(b)
    BY <2>1 DEF LiteralsOf
  <2> HIDE DEF b
  <2> DEFINE x == HexOctets(b)
             later == <<Backslash, 10, Space>> \o x
  <2>5. x \in Seq(Nat) /\ later \in Seq(Nat) /\ Bytes(x, TRUE) = b /\ Bytes(x, FALSE) = b /\ Bytes(later, TRUE) = b
    BY <2>1, OctetsRead, Zenon
  <2>6. ASSUME NEW y \in Seq(Nat), Bytes(y, TRUE) = b, l = <<LowerB>> \o Enclosed(DoubleQuote, y) PROVE Literal(l) = v
    <3>1. Inside(Tail(l)) = y /\ l[1] = LowerB /\ l[2] = DoubleQuote
      BY <2>6, BehindB
    <3>2. Value("B", BinaryString(Inside(Tail(l)))) = v
      BY <2>3, <2>6, <3>1 DEF BinaryString
    <3> QED
      BY <1>1, <3>1, <3>2 DEF Literal
  <2>7. l = <<LowerB>> \o Enclosed(Quote, x) => Literal(l) = v
    <3> SUFFICES ASSUME l = <<LowerB>> \o Enclosed(Quote, x) PROVE Literal(l) = v
      OBVIOUS
    <3> HIDE DEF x
    <3>1. Inside(Tail(l)) = x /\ l[1] = LowerB /\ l[2] = Quote
      BY <2>5, BehindB
    <3>2. Value("B", BinaryLiteral(Inside(Tail(l)))) = v
      BY <2>3, <2>5, <3>1 DEF BinaryLiteral
    <3> QED
      BY <1>1, <3>1, <3>2 DEF Literal
  <2>8. l \in {<<LowerB>> \o Enclosed(DoubleQuote, x), <<LowerB>> \o Enclosed(Quote, x),
               <<LowerB>> \o Enclosed(DoubleQuote, later)}
    BY <2>4, Zenon DEF OctetLiterals
  <2> QED
    BY <2>5, <2>6, <2>7, <2>8, Zenon
<1> QED
  BY <1>3, <1>4 DEF Typable
=============================================================================
