---------------------------- MODULE ExportProofs ----------------------------
(***************************************************************************)
(* Proofs about Export: for every table, whatever others write to it and   *)
(* reads show of that, and however it is paged and cut off, an export that *)
(* ends with Ok holds what stayed in the table, each item once and nothing *)
(* else; its file is well-formed under the conditions OutputIsWellFormed   *)
(* names; a JSON export that was cut off leaves no file that parses, and   *)
(* one whose scan failed an empty file.                                    *)
(***************************************************************************)
EXTENDS Export, FiniteSetTheorems, TLAPS

-----------------------------------------------------------------------------
(* Texts *)

IsItem(t) == t[1] = "item"
Separators == {Comma, NewLine}

\* What the conversion of a page may hold.
Plain(text) == \A n \in DOMAIN text : IsItem(text[n]) \/ text[n] \in Separators

Has(text, S) == \A i \in S : \E n \in DOMAIN text : text[n] = Item(i)
Only(text, S) == \A n \in DOMAIN text : IsItem(text[n]) => text[n][2] \in S
Once(text) == \A m, n \in DOMAIN text : IsItem(text[m]) /\ text[m] = text[n] => m = n

\* Items, each followed by the token.
Rows(text, sep) == /\ Len(text) % 2 = 0
                   /\ \A n \in DOMAIN text : IF n % 2 = 1 THEN IsItem(text[n]) ELSE text[n] = sep

\* Tokens are told apart.
LEMMA TokenFacts ==
  /\ \A i : IsItem(Item(i)) /\ Item(i)[2] = i
  /\ \A i, j : Item(i) = Item(j) => i = j
  /\ \A t \in {Open, Close, Comma, NewLine, Header, Old} : ~IsItem(t) /\ t \in Tokens
  /\ \A i \in Items : Item(i) \in Tokens
  /\ Close \notin Separators
  /\ Close # Open /\ Close # Header /\ Close # Old
  /\ \A t \in Tokens : IsItem(t) => t[2] \in Items /\ t = Item(t[2])
  BY DEF IsItem, Item, Tokens, Separators, Open, Close, Comma, NewLine, Header, Old

\* A text is read off its two halves.
LEMMA Halves ==
  ASSUME NEW T, NEW s \in Seq(T), NEW t \in Seq(T)
  PROVE  /\ s \o t \in Seq(T)
         /\ Len(s) \in Nat /\ Len(t) \in Nat
         /\ DOMAIN s = 1..Len(s) /\ DOMAIN t = 1..Len(t)
         /\ Len(s \o t) = Len(s) + Len(t)
         /\ DOMAIN (s \o t) = 1..Len(s) + Len(t)
         /\ \A n \in DOMAIN s : n \in DOMAIN (s \o t) /\ (s \o t)[n] = s[n]
         /\ \A n \in DOMAIN t : Len(s) + n \in DOMAIN (s \o t) /\ (s \o t)[Len(s) + n] = t[n]
         /\ \A n \in DOMAIN (s \o t) :
              \/ n \in DOMAIN s
              \/ n - Len(s) \in DOMAIN t /\ n = Len(s) + (n - Len(s)) /\ n > Len(s)
<1>1. /\ s \o t \in Seq(T)
      /\ Len(s) \in Nat /\ Len(t) \in Nat
      /\ DOMAIN s = 1..Len(s) /\ DOMAIN t = 1..Len(t)
      /\ Len(s \o t) = Len(s) + Len(t)
      /\ DOMAIN (s \o t) = 1..Len(s) + Len(t)
  OBVIOUS
<1>2. \A n \in DOMAIN s : n \in DOMAIN (s \o t) /\ (s \o t)[n] = s[n]
  OBVIOUS
<1>3. ASSUME NEW n \in DOMAIN t
      PROVE  Len(s) + n \in DOMAIN (s \o t) /\ (s \o t)[Len(s) + n] = t[n]
  BY <1>1
<1>4. ASSUME NEW n \in DOMAIN (s \o t), n \notin DOMAIN s
      PROVE  n - Len(s) \in DOMAIN t /\ n = Len(s) + (n - Len(s)) /\ n > Len(s)
  BY <1>1, <1>4
<1> QED
  BY <1>1, <1>2, <1>3, <1>4

\* Two texts that list different items.
LEMMA Joining ==
  ASSUME NEW T, NEW s \in Seq(T), NEW t \in Seq(T), NEW A, NEW B
  PROVE  /\ Plain(s) /\ Plain(t) => Plain(s \o t)
         /\ Has(s, A) /\ Has(t, B) => Has(s \o t, A \cup B)
         /\ Only(s, A) /\ Only(t, B) => Only(s \o t, A \cup B)
         /\ Only(s, A) /\ Only(t, B) /\ A \cap B = {} /\ Once(s) /\ Once(t) => Once(s \o t)
<1> DEFINE e == s \o t
<1>0. /\ Len(s) \in Nat
      /\ \A n \in DOMAIN s : n \in DOMAIN e /\ e[n] = s[n]
      /\ \A n \in DOMAIN t : Len(s) + n \in DOMAIN e /\ e[Len(s) + n] = t[n]
      /\ \A n \in DOMAIN e : \/ n \in DOMAIN s
                             \/ n - Len(s) \in DOMAIN t /\ n = Len(s) + (n - Len(s)) /\ n > Len(s)
      /\ DOMAIN t \subseteq Nat /\ DOMAIN e \subseteq Nat
  BY Halves
<1> HIDE DEF e
<1>1. \A n \in DOMAIN e : \/ n \in DOMAIN s /\ e[n] = s[n]
                          \/ n - Len(s) \in DOMAIN t /\ e[n] = t[n - Len(s)]
  BY <1>0
<1>2. ASSUME Plain(s), Plain(t) PROVE Plain(e)
  BY <1>1, <1>2 DEF Plain
<1>3. ASSUME Has(s, A), Has(t, B) PROVE Has(e, A \cup B)
  BY <1>0, <1>3 DEF Has
<1>4. ASSUME Only(s, A), Only(t, B) PROVE Only(e, A \cup B)
  BY <1>1, <1>4 DEF Only
<1>5. ASSUME Only(s, A), Only(t, B), A \cap B = {}, Once(s), Once(t) PROVE Once(e)
  <2> SUFFICES ASSUME NEW m \in DOMAIN e, NEW n \in DOMAIN e, IsItem(e[m]), e[m] = e[n] PROVE m = n
    BY DEF Once
  <2>1. CASE m \in DOMAIN s /\ e[m] = s[m]
    <3>1. e[m][2] \in A
      BY <1>5, <2>1 DEF Only
    <3>2. n \in DOMAIN s /\ e[n] = s[n]
      BY <1>1, <1>5, <3>1 DEF Only
    <3> QED
      BY <1>5, <2>1, <3>2 DEF Once
  <2>2. CASE m - Len(s) \in DOMAIN t /\ e[m] = t[m - Len(s)]
    <3>1. e[m][2] \in B
      BY <1>5, <2>2 DEF Only
    <3>2. n - Len(s) \in DOMAIN t /\ e[n] = t[n - Len(s)]
      BY <1>1, <1>5, <3>1 DEF Only
    <3>3. m - Len(s) = n - Len(s)
      BY <1>5, <2>2, <3>2 DEF Once
    <3> QED
      BY <1>0, <3>3
  <2> QED
    BY <1>1, <2>1, <2>2
<1> QED
  BY <1>2, <1>3, <1>4, <1>5 DEF e

\* Rows are put behind rows.
LEMMA RowsJoined ==
  ASSUME NEW T, NEW s \in Seq(T), NEW t \in Seq(T), NEW sep, Rows(s, sep), Rows(t, sep)
  PROVE  Rows(s \o t, sep)
<1> DEFINE e == s \o t
<1>0. /\ Len(s) \in Nat /\ Len(t) \in Nat
      /\ DOMAIN s = 1..Len(s) /\ DOMAIN t = 1..Len(t)
      /\ Len(e) = Len(s) + Len(t)
      /\ \A n \in DOMAIN s : e[n] = s[n]
      /\ \A n \in DOMAIN t : e[Len(s) + n] = t[n]
      /\ \A n \in DOMAIN e : \/ n \in DOMAIN s
                             \/ n - Len(s) \in DOMAIN t /\ n = Len(s) + (n - Len(s)) /\ n > Len(s)
  BY Halves
<1> HIDE DEF e
<1>1. Len(e) % 2 = 0
  <2>1. PICK a \in Nat, b \in Nat : a = Len(s) /\ b = Len(t) /\ a % 2 = 0 /\ b % 2 = 0
    BY <1>0 DEF Rows
  <2>2. (a + b) % 2 = 0
    BY <2>1
  <2> QED
    BY <1>0, <2>1, <2>2
<1>2. ASSUME NEW n \in DOMAIN e
      PROVE  IF n % 2 = 1 THEN IsItem(e[n]) ELSE e[n] = sep
  <2>1. CASE n \in DOMAIN s
    BY <1>0, <2>1 DEF Rows
  <2>2. CASE n - Len(s) \in DOMAIN t /\ n = Len(s) + (n - Len(s))
    <3>1. PICK k \in DOMAIN t : k = n - Len(s) /\ n = Len(s) + k /\ e[n] = t[k]
      BY <1>0, <2>2
    <3>2. k \in Nat
      BY <1>0
    <3>3. n % 2 = k % 2
      <4>1. PICK a \in Nat : a = Len(s) /\ a % 2 = 0
        BY <1>0 DEF Rows
      <4>2. (a + k) % 2 = k % 2
        BY <3>2, <4>1
      <4> QED
        BY <3>1, <4>1, <4>2
    <3> QED
      BY <3>1, <3>3 DEF Rows
  <2> QED
    BY <1>0, <2>1, <2>2
<1> QED
  BY <1>1, <1>2 DEF Rows, e

\* Texts without items list nothing.
LEMMA NoItems ==
  ASSUME NEW s, \A n \in DOMAIN s : ~IsItem(s[n])
  PROVE  Has(s, {}) /\ Only(s, {}) /\ Once(s)
  BY DEF Has, Only, Once

-----------------------------------------------------------------------------
(* Pages *)

\* The pages of a set are its items in sequence, each at one place.
LEMMA ListingFacts ==
  ASSUME NEW S \in SUBSET Items, NEW q \in Listings(S)
  PROVE  /\ q \in Seq(S)
         /\ Len(q) = Cardinality(S)
         /\ S = {} <=> Len(q) = 0
         /\ \A m, n \in DOMAIN q : q[m] = q[n] => m = n
         /\ \A i \in S : \E n \in DOMAIN q : q[n] = i
<1>1. IsFiniteSet(S)
  <2>1. IsFiniteSet(1..Size)
    <3>1. 1 \in Int /\ Size \in Int
      BY SizeAssumption
    <3> QED
      BY <3>1, FS_Interval
  <2> QED
    BY <2>1, FS_Subset DEF Items
<1>2. PICK c \in Nat : c = Cardinality(S)
  BY <1>1, FS_CardinalityType
<1>3. c = 0 <=> S = {}
  BY <1>1, <1>2, FS_EmptySet, Zenon
<1>4. /\ q \in [1..c -> S]
      /\ \A i \in S : \E n \in 1..c : q[n] = i
      /\ \A m, n \in DOMAIN q : m < n => q[m] < q[n]
  BY <1>2 DEF Listings, Surjection
<1>5. q \in Seq(S) /\ Len(q) = c
  BY <1>4
<1>6. ASSUME NEW m \in 1..c, NEW n \in 1..c, q[m] = q[n] PROVE m = n
  <2>1. q[m] \in S /\ q[n] \in S
    BY <1>4
  <2>0. \A i \in Items : i \in Int
    BY SizeAssumption DEF Items
  <2>2. ~(m < n) /\ ~(n < m)
    BY <1>4, <1>6, <2>0, <2>1
  <2> QED
    BY <2>2
<1> QED
  BY <1>2, <1>3, <1>4, <1>5, <1>6

\* The item of row k is at 2k - 1.
LEMMA RowFacts ==
  ASSUME NEW S \in SUBSET Items, NEW q \in Listings(S), NEW sep \in Separators,
         NEW k \in Nat, k = 2 * Len(q) \/ (k = 2 * Len(q) - 1)
  PROVE  LET r == Row(q, sep, k)
         IN /\ r \in Seq(Tokens) /\ Len(r) = k
            /\ \A n \in DOMAIN r : IF n % 2 = 1 THEN IsItem(r[n]) ELSE r[n] = sep
            /\ Plain(r) /\ Has(r, S) /\ Only(r, S) /\ Once(r)
<1> DEFINE r == Row(q, sep, k)
<1>0. /\ q \in Seq(S) /\ Len(q) \in Nat /\ DOMAIN q = 1..Len(q)
      /\ \A m, n \in DOMAIN q : q[m] = q[n] => m = n
      /\ \A i \in S : \E n \in DOMAIN q : q[n] = i
  BY ListingFacts
<1>s. sep \in Tokens /\ ~IsItem(sep)
  BY TokenFacts DEF Separators
<1>1. DOMAIN r = 1..k /\ \A n \in 1..k : r[n] = IF n % 2 = 1 THEN Item(q[(n + 1) \div 2]) ELSE sep
  BY DEF Row
<1>2. ASSUME NEW n \in 1..k, n % 2 = 1
      PROVE  /\ (n + 1) \div 2 \in DOMAIN q
             /\ n = 2 * ((n + 1) \div 2) - 1
             /\ r[n] = Item(q[(n + 1) \div 2])
             /\ r[n][2] = q[(n + 1) \div 2]
             /\ IsItem(r[n]) /\ r[n][2] \in S /\ r[n] \in Tokens
  <2>1. n = 2 * ((n + 1) \div 2) - 1
    BY <1>2
  <2>2. (n + 1) \div 2 \in DOMAIN q
    BY <1>0, <2>1
  <2>3. q[(n + 1) \div 2] \in S
    BY <1>0, <2>2
  <2>4. r[n] = Item(q[(n + 1) \div 2])
    BY <1>1, <1>2
  <2> HIDE DEF r
  <2>5. PICK x \in S : x = q[(n + 1) \div 2] /\ r[n] = Item(x)
    BY <2>3, <2>4
  <2> QED
    BY <2>1, <2>2, <2>5, TokenFacts
<1>3. ASSUME NEW n \in 1..k, n % 2 # 1 PROVE r[n] = sep
  BY <1>1, <1>3
<1>4. Row(q, sep, k) \in [1..k -> Tokens]
  BY <1>s, <1>1, <1>2, <1>3 DEF Row
<1> HIDE DEF r
<1>5. r \in Seq(Tokens) /\ Len(r) = k
  BY <1>4 DEF r
<1>6. Plain(r) /\ Only(r, S)
  BY <1>s, <1>1, <1>2, <1>3 DEF Plain, Only
<1>7. Has(r, S)
  <2> SUFFICES ASSUME NEW i \in S PROVE \E n \in DOMAIN r : r[n] = Item(i)
    BY DEF Has
  <2>1. PICK m \in 1..Len(q) : q[m] = i
    BY <1>0
  <2>2. 2 * m - 1 \in 1..k /\ (2 * m - 1) % 2 = 1 /\ ((2 * m - 1) + 1) \div 2 = m
    BY <1>0
  <2> QED
    BY <1>1, <1>2, <2>1, <2>2
<1>8. Once(r)
  <2> SUFFICES ASSUME NEW m \in 1..k, NEW n \in 1..k, IsItem(r[m]), r[m] = r[n] PROVE m = n
    BY <1>1 DEF Once
  <2>1. m % 2 = 1 /\ n % 2 = 1
    BY <1>s, <1>3
  <2>2. PICK a \in DOMAIN q : a = (m + 1) \div 2 /\ m = 2 * a - 1 /\ r[m][2] = q[a]
    BY <1>2, <2>1
  <2>3. PICK b \in DOMAIN q : b = (n + 1) \div 2 /\ n = 2 * b - 1 /\ r[n][2] = q[b]
    BY <1>2, <2>1
  <2>4. a = b
    BY <1>0, <2>2, <2>3
  <2> QED
    BY <2>2, <2>3, <2>4
<1> QED
  BY <1>1, <1>2, <1>3, <1>5, <1>6, <1>7, <1>8 DEF r

\* Cutting off the last token, when it is no item.
LEMMA Cutting ==
  ASSUME NEW T, NEW s \in Seq(T), s # <<>>, ~IsItem(s[Len(s)]), NEW S
  PROVE  LET t == SubSeq(s, 1, Len(s) - 1)
         IN /\ t \in Seq(T) /\ Len(t) = Len(s) - 1 /\ Len(s) \in Nat \ {0}
            /\ \A n \in DOMAIN t : n \in DOMAIN s /\ t[n] = s[n]
            /\ Plain(s) => Plain(t)
            /\ Has(s, S) => Has(t, S)
            /\ Only(s, S) => Only(t, S)
            /\ Once(s) => Once(t)
<1> DEFINE t == SubSeq(s, 1, Len(s) - 1)
<1>1. /\ t \in Seq(T) /\ Len(t) = Len(s) - 1 /\ Len(s) \in Nat \ {0}
      /\ DOMAIN s = 1..Len(s) /\ DOMAIN t = 1..Len(s) - 1
      /\ \A n \in DOMAIN t : n \in DOMAIN s /\ t[n] = s[n]
  <2>1. PICK k \in Nat \ {0} : k = Len(s) /\ DOMAIN s = 1..k
    OBVIOUS
  <2>2. t \in Seq(T) /\ Len(t) = k - 1 /\ \A n \in 1..k - 1 : t[n] = s[n]
    BY <2>1
  <2> QED
    BY <2>1, <2>2
<1> HIDE DEF t
<1>2. ASSUME NEW n \in DOMAIN s, IsItem(s[n]) PROVE n \in DOMAIN t
  BY <1>1, <1>2
<1>3. Plain(s) => Plain(t)
  BY <1>1 DEF Plain
<1>4. Has(s, S) => Has(t, S)
  BY <1>1, <1>2, TokenFacts DEF Has
<1>5. Only(s, S) => Only(t, S)
  BY <1>1 DEF Only
<1>6. Once(s) => Once(t)
  BY <1>1 DEF Once
<1> QED
  BY <1>1, <1>3, <1>4, <1>5, <1>6 DEF t

\* The text between two brackets.
LEMMA Inner ==
  ASSUME NEW T, NEW a \in T, NEW b \in T, NEW s \in Seq(T)
  PROVE  LET e == <<a>> \o s \o <<b>>
         IN /\ e \in Seq(T) /\ Len(e) = Len(s) + 2 /\ Len(s) \in Nat
            /\ e[1] = a /\ e[Len(e)] = b
            /\ SubSeq(e, 2, Len(e) - 1) = s
<1> DEFINE e == <<a>> \o s \o <<b>>
<1>1. /\ e \in Seq(T) /\ Len(e) = Len(s) + 2 /\ Len(s) \in Nat
      /\ e[1] = a /\ e[Len(e)] = b
      /\ \A n \in 1..Len(s) : e[n + 1] = s[n]
  OBVIOUS
<1> HIDE DEF e
<1>2. /\ SubSeq(e, 2, Len(e) - 1) \in Seq(T)
      /\ Len(SubSeq(e, 2, Len(e) - 1)) = Len(s)
      /\ \A n \in 1..Len(s) : SubSeq(e, 2, Len(e) - 1)[n] = e[n + 1]
  BY <1>1
<1>3. SubSeq(e, 2, Len(e) - 1) = s
  BY <1>1, <1>2
<1> QED
  BY <1>1, <1>3 DEF e

\* What the conversion of a page lists, and what it ends in.
LEMMA ConvertedFacts ==
  ASSUME NEW S \in SUBSET Items, NEW q \in Listings(S), format \in Formats
  PROVE  LET c == Converted(q)
         IN /\ c \in Seq(Tokens) /\ Plain(c) /\ Has(c, S) /\ Only(c, S) /\ Once(c)
            /\ format = "json" => /\ c # <<>> /\ c[Len(c)] = Comma
                                  /\ S = {} => c = <<Comma>>
                                  /\ S # {} => Rows(c, Comma)
            /\ format = "jsonl" => Rows(c, NewLine)
            /\ format = "csv" => /\ S = {} => c = <<>>
                                 /\ S # {} => Rows(c \o <<NewLine>>, NewLine)
<1> DEFINE c == Converted(q)
<1>0. q \in Seq(S) /\ Len(q) \in Nat /\ (S = {} <=> Len(q) = 0)
  BY ListingFacts
<1>s. Comma \in Separators /\ NewLine \in Separators
  BY DEF Separators
<1>1. ASSUME NEW sep \in Separators
      PROVE  LET b == Between(q, sep)
             IN /\ b \in Seq(Tokens) /\ Plain(b) /\ Has(b, S) /\ Only(b, S) /\ Once(b)
                /\ S = {} => b = <<>>
                /\ S # {} => Rows(b \o <<sep>>, sep)
  <2> DEFINE b == Between(q, sep)
  <2>1. CASE S = {}
    <3>1. 1..2 * Len(q) - 1 = 1..0
      BY <1>0, <2>1
    <3>2. b = <<>>
      <4>1. b \in [1..0 -> Tokens]
        BY <3>1 DEF Between, Row
      <4> HIDE DEF b
      <4>2. b \in Seq(Tokens) /\ Len(b) = 0
        BY <4>1
      <4> QED
        BY <4>2
    <3> HIDE DEF b
    <3>3. b \in Seq(Tokens) /\ DOMAIN b = {}
      BY <3>2
    <3> QED
      BY <2>1, <3>2, <3>3 DEF b, Plain, Has, Only, Once
  <2>2. CASE S # {}
    <3>1. PICK k \in Nat : k = 2 * Len(q) - 1 /\ k % 2 = 1
      BY <1>0, <2>2
    <3>2. b = Row(q, sep, k)
      BY <3>1 DEF Between
    <3> HIDE DEF b
    <3>3. /\ b \in Seq(Tokens) /\ Len(b) = k
          /\ \A n \in DOMAIN b : IF n % 2 = 1 THEN IsItem(b[n]) ELSE b[n] = sep
          /\ Plain(b) /\ Has(b, S) /\ Only(b, S) /\ Once(b)
      BY <3>1, <3>2, RowFacts
    <3>4. sep \in Tokens
      BY TokenFacts DEF Separators
    <3>5. Rows(b \o <<sep>>, sep)
      <4> DEFINE e == b \o <<sep>>
      <4>1. /\ Len(e) = k + 1 /\ DOMAIN e = 1..k + 1 /\ e[k + 1] = sep
            /\ DOMAIN b = 1..k /\ \A n \in 1..k : e[n] = b[n]
        BY <3>3, <3>4
      <4> HIDE DEF e
      <4>2. (k + 1) % 2 = 0
        BY <3>1
      <4>3. \A n \in DOMAIN e : n = k + 1 \/ n \in 1..k
        BY <4>1
      <4> QED
        BY <3>3, <4>1, <4>2, <4>3 DEF Rows, e
    <3> QED
      BY <2>2, <3>3, <3>5 DEF b
  <2> QED
    BY <2>1, <2>2
<1>2. CASE format = "json"
  <2> DEFINE b == Between(q, Comma)
  <2>1. /\ b \in Seq(Tokens) /\ Plain(b) /\ Has(b, S) /\ Only(b, S) /\ Once(b)
        /\ S = {} => b = <<>>
        /\ S # {} => Rows(b \o <<Comma>>, Comma)
    BY <1>s, <1>1
  <2>2. c = SubSeq(<<Open>> \o b \o <<Close>>, 2, Len(<<Open>> \o b \o <<Close>>) - 1) \o <<Comma>>
    BY <1>2 DEF Converted, Connectable, ToJson
  <2> HIDE DEF b, c
  <2>3. c = b \o <<Comma>>
    <3> DEFINE e == <<Open>> \o b \o <<Close>>
    <3>1. Open \in Tokens /\ Close \in Tokens
      BY TokenFacts
    <3>2. SubSeq(e, 2, Len(e) - 1) = b
      BY <2>1, <3>1, Inner
    <3> QED
      BY <2>2, <3>2
  <2>4. <<Comma>> \in Seq(Tokens) /\ DOMAIN <<Comma>> = {1} /\ <<Comma>>[1] = Comma
    BY TokenFacts
  <2>5. Plain(<<Comma>>) /\ Has(<<Comma>>, {}) /\ Only(<<Comma>>, {}) /\ Once(<<Comma>>)
    BY <2>4, NoItems, TokenFacts DEF Plain, Separators
  <2>6. /\ c \in Seq(Tokens) /\ Plain(c) /\ Has(c, S \cup {}) /\ Only(c, S \cup {}) /\ Once(c)
    BY <2>1, <2>3, <2>4, <2>5, Halves, Joining
  <2>7. S \cup {} = S
    OBVIOUS
  <2>8. c # <<>> /\ c[Len(c)] = Comma
    BY <2>1, <2>3, <2>4
  <2>9. S = {} => c = <<Comma>>
    BY <2>1, <2>3, <2>4
  <2> QED
    BY <1>2, <2>1, <2>3, <2>6, <2>7, <2>8, <2>9 DEF c
<1>3. CASE format = "jsonl"
  <2>1. c = Row(q, NewLine, 2 * Len(q))
    BY <1>3 DEF Converted, JsonLines
  <2> HIDE DEF c
  <2>2. PICK k \in Nat : k = 2 * Len(q) /\ k % 2 = 0
    BY <1>0
  <2>3. /\ c \in Seq(Tokens) /\ Len(c) = k
        /\ \A n \in DOMAIN c : IF n % 2 = 1 THEN IsItem(c[n]) ELSE c[n] = NewLine
        /\ Plain(c) /\ Has(c, S) /\ Only(c, S) /\ Once(c)
    BY <1>s, <2>1, <2>2, RowFacts
  <2> QED
    BY <1>3, <2>2, <2>3 DEF Rows, c
<1>4. CASE format = "csv"
  <2>1. c = Between(q, NewLine)
    BY <1>4 DEF Converted, CsvLines
  <2> QED
    BY <1>s, <1>1, <1>4, <2>1
<1> QED
  BY <1>2, <1>3, <1>4 DEF Formats

-----------------------------------------------------------------------------
(* The invariant *)

\* The part of the scan order whose items are in the temporary file.
Scanned == IF phase = "scan" THEN {i \in Items : i <= cursor} ELSE Items

Assembly == {"opening", "body", "closing", "remove"}
Running == {"scan"} \cup Assembly

OpeningText == CASE format = "json" -> <<Open>>
                 [] format = "csv" -> <<Header, NewLine>>
                 [] OTHER -> <<>>
ClosingText == CASE format = "json" -> <<Close>>
                 [] format = "csv" -> <<NewLine>>
                 [] OTHER -> <<>>

\* What was scanned is in the temporary file, each item once.
Collected == phase \in Running => /\ Has(tmp, always \cap Scanned)
                                  /\ Only(tmp, ever \cap Scanned)
                                  /\ Once(tmp)

Counted == /\ phase = "scan" => pages <= cursor
           /\ phase \in Assembly => pages > 0
           /\ phase \in Running /\ pages = 0 => tmp = <<>> /\ ~gap

\* How the pages are joined.
Joined == phase \in Running /\ pages > 0 =>
            /\ format = "json" => /\ tmp # <<>> /\ tmp[Len(tmp)] = Comma
                                  /\ ~gap => Rows(tmp, Comma)
                                  /\ pages = 1 /\ gap => tmp = <<Comma>>
            /\ format = "jsonl" => Rows(tmp, NewLine)
            /\ format = "csv" /\ pages = 1 => tmp = <<>> \/ Rows(tmp \o <<NewLine>>, NewLine)

Assembled == /\ phase \in {"tmp", "scan", "opening"} => output = <<>>
             /\ phase = "body" => output = OpeningText
             /\ phase = "closing" => output = OpeningText \o Body
             /\ phase = "remove" => output = OpeningText \o Body \o ClosingText

\* Nothing closes an array before the export ends.
Unclosed == ~whole => \A n \in DOMAIN output : output[n] # Close

ExportInv == /\ TypeOK
             /\ Plain(tmp)
             /\ Collected
             /\ Counted
             /\ Joined
             /\ Assembled
             /\ Unclosed
             /\ ExportIsComplete
             /\ OutputIsWellFormed

\* What is put around the body holds no item, and a bracket only at the end.
LEMMA AroundFacts ==
  ASSUME format \in Formats
  PROVE  /\ OpeningText \in Seq(Tokens) /\ ClosingText \in Seq(Tokens)
         /\ \A n \in DOMAIN OpeningText : ~IsItem(OpeningText[n]) /\ OpeningText[n] # Close
         /\ \A n \in DOMAIN ClosingText : ~IsItem(ClosingText[n])
<1>1. ASSUME NEW t \in {Open, Close, Header, NewLine}
      PROVE  <<t>> \in Seq(Tokens) /\ DOMAIN <<t>> = {1} /\ <<t>>[1] = t /\ ~IsItem(t)
  BY TokenFacts
<1>2. ASSUME NEW t \in {Header}, NEW u \in {NewLine}
      PROVE  /\ <<t, u>> \in Seq(Tokens) /\ DOMAIN <<t, u>> = {1, 2}
             /\ <<t, u>>[1] = t /\ <<t, u>>[2] = u
  BY TokenFacts
<1>3. <<>> \in Seq(Tokens) /\ DOMAIN <<>> = {}
  OBVIOUS
<1>4. Open # Close /\ Header # Close /\ NewLine # Close
  BY TokenFacts DEF Separators
<1>5. CASE format = "json"
  <2>1. OpeningText = <<Open>> /\ ClosingText = <<Close>>
    BY <1>5 DEF OpeningText, ClosingText
  <2> QED
    BY <1>1, <1>4, <2>1
<1>6. CASE format = "jsonl"
  <2>1. OpeningText = <<>> /\ ClosingText = <<>>
    BY <1>6 DEF OpeningText, ClosingText
  <2> QED
    BY <1>3, <2>1
<1>7. CASE format = "csv"
  <2>1. OpeningText = <<Header, NewLine>> /\ ClosingText = <<NewLine>>
    BY <1>7 DEF OpeningText, ClosingText
  <2> QED
    BY <1>1, <1>2, <1>4, <2>1
<1> QED
  BY <1>5, <1>6, <1>7 DEF Formats

\* The body lists what was scanned.
LEMMA BodyFacts ==
  ASSUME ExportInv, phase \in Assembly
  PROVE  /\ Body \in Seq(Tokens) /\ Plain(Body)
         /\ Has(Body, always) /\ Only(Body, ever) /\ Once(Body)
<1>1. Scanned = Items
  BY DEF Scanned, Assembly
<1>2. always \cap Items = always
  BY DEF ExportInv, TypeOK
<1>3. /\ tmp \in Seq(Tokens) /\ Plain(tmp) /\ Once(tmp)
      /\ Has(tmp, always) /\ Only(tmp, ever)
  BY <1>1, <1>2 DEF ExportInv, TypeOK, Collected, Running, Only
<1>4. CASE format = "json"
  <2>1. pages > 0
    BY DEF ExportInv, Counted
  <2>2. tmp # <<>> /\ tmp[Len(tmp)] = Comma
    BY <1>4, <2>1 DEF ExportInv, Joined, Running
  <2>3. ~IsItem(tmp[Len(tmp)])
    BY <2>2, TokenFacts
  <2>4. Body = SubSeq(tmp, 1, Len(tmp) - 1)
    BY <1>4 DEF Body
  <2> QED
    BY <1>3, <2>2, <2>3, <2>4, Cutting
<1>5. CASE format # "json"
  BY <1>3, <1>5 DEF Body
<1> QED
  BY <1>4, <1>5

\* A finished file lists what was scanned.
LEMMA OutputLists ==
  ASSUME ExportInv, phase = "remove"
  PROVE  Has(output, always) /\ Only(output, ever) /\ Once(output)
<1> DEFINE a == OpeningText
           b == Body
           c == ClosingText
<1>1. phase \in Assembly /\ format \in Formats /\ output = (a \o b) \o c
  BY DEF Assembly, ExportInv, TypeOK, Assembled
<1>2. /\ a \in Seq(Tokens) /\ Has(a, {}) /\ Only(a, {}) /\ Once(a)
      /\ c \in Seq(Tokens) /\ Has(c, {}) /\ Only(c, {}) /\ Once(c)
  BY <1>1, AroundFacts, NoItems
<1>3. b \in Seq(Tokens) /\ Has(b, always) /\ Only(b, ever) /\ Once(b)
  BY <1>1, BodyFacts
<1> HIDE DEF a, b, c
<1>4. /\ {} \cup always = always /\ {} \cup ever = ever
      /\ always \cup {} = always /\ ever \cup {} = ever
      /\ {} \cap ever = {} /\ ever \cap {} = {}
  OBVIOUS
<1>5. /\ a \o b \in Seq(Tokens)
      /\ Has(a \o b, {} \cup always) /\ Only(a \o b, {} \cup ever) /\ Once(a \o b)
  <2>1. a \o b \in Seq(Tokens)
    BY <1>2, <1>3
  <2>2. Has(a \o b, {} \cup always)
    BY <1>2, <1>3, Joining
  <2>3. Only(a \o b, {} \cup ever) /\ Once(a \o b)
    BY <1>2, <1>3, <1>4, Joining
  <2> QED
    BY <2>1, <2>2, <2>3
<1>6. /\ Has((a \o b) \o c, always \cup {}) /\ Only((a \o b) \o c, ever \cup {})
      /\ Once((a \o b) \o c)
  BY <1>2, <1>4, <1>5, Joining
<1> QED
  BY <1>1, <1>4, <1>6

\* It is well-formed under the conditions stated.
LEMMA OutputFormed ==
  ASSUME ExportInv, phase = "remove"
  PROVE  /\ format = "jsonl" => IsLines(output)
         /\ format = "json" /\ (pages = 1 \/ ~gap) => IsJson(output)
         /\ format = "csv" /\ pages = 1 => IsCsv(output)
<1>1. /\ output = OpeningText \o Body \o ClosingText
      /\ pages > 0 /\ tmp \in Seq(Tokens)
  BY DEF ExportInv, Assembled, Counted, Assembly, TypeOK
<1>2. ASSUME format = "jsonl" PROVE IsLines(output)
  <2>1. OpeningText = <<>> /\ ClosingText = <<>> /\ Body = tmp
    BY <1>2 DEF OpeningText, ClosingText, Body
  <2>2. output = tmp
    BY <1>1, <2>1
  <2>3. Rows(tmp, NewLine)
    BY <1>1, <1>2 DEF ExportInv, Joined, Running, Assembly
  <2> QED
    BY <2>2, <2>3 DEF Rows, IsLines, IsItem
<1>3. ASSUME format = "json", pages = 1 \/ ~gap PROVE IsJson(output)
  <2>1. OpeningText = <<Open>> /\ ClosingText = <<Close>> /\ Body = SubSeq(tmp, 1, Len(tmp) - 1)
    BY <1>3 DEF OpeningText, ClosingText, Body
  <2>2. /\ tmp # <<>> /\ tmp[Len(tmp)] = Comma
        /\ Rows(tmp, Comma) \/ tmp = <<Comma>>
    BY <1>1, <1>3 DEF ExportInv, Joined, Running, Assembly
  <2>3. ~IsItem(tmp[Len(tmp)])
    BY <2>2, TokenFacts
  <2> DEFINE b == Body
  <2>4. /\ b \in Seq(Tokens) /\ Len(b) = Len(tmp) - 1 /\ Len(tmp) \in Nat \ {0}
        /\ \A n \in DOMAIN b : n \in DOMAIN tmp /\ b[n] = tmp[n]
    BY <1>1, <2>1, <2>2, <2>3, Cutting
  <2>5. output = <<Open>> \o b \o <<Close>>
    BY <1>1, <2>1
  <2> HIDE DEF b
  <2>6. Open \in Tokens /\ Close \in Tokens
    BY TokenFacts
  <2>7. /\ Len(output) = Len(b) + 2 /\ Len(b) \in Nat
        /\ output[1] = Open /\ output[Len(output)] = Close
        /\ SubSeq(output, 2, Len(output) - 1) = b
    BY <2>4, <2>5, <2>6, Inner
  <2>8. b = <<>> \/ (Len(b) % 2 = 1 /\ \A n \in DOMAIN b : IF n % 2 = 1 THEN b[n][1] = "item"
                                                                      ELSE b[n] = Comma)
    <3>1. CASE tmp = <<Comma>>
      BY <2>4, <3>1
    <3>2. CASE Rows(tmp, Comma)
      <4>1. PICK k \in Nat : k = Len(tmp) /\ k % 2 = 0 /\ k # 0
        BY <2>4, <3>2 DEF Rows
      <4>2. Len(b) % 2 = 1
        BY <2>4, <4>1
      <4> QED
        BY <2>4, <3>2, <4>2 DEF Rows, IsItem
    <3> QED
      BY <2>2, <3>1, <3>2
  <2> DEFINE inner == SubSeq(output, 2, Len(output) - 1)
  <2>9. Len(output) >= 2 /\ inner = b
    BY <2>7
  <2> HIDE DEF inner
  <2>10. \/ inner = <<>>
         \/ /\ Len(inner) % 2 = 1
            /\ \A n \in DOMAIN inner : IF n % 2 = 1 THEN inner[n][1] = "item" ELSE inner[n] = Comma
    BY <2>8, <2>9
  <2> QED
    BY <2>7, <2>9, <2>10 DEF IsJson, inner
<1>4. ASSUME format = "csv", pages = 1 PROVE IsCsv(output)
  <2>1. OpeningText = <<Header, NewLine>> /\ ClosingText = <<NewLine>> /\ Body = tmp
    BY <1>4 DEF OpeningText, ClosingText, Body
  <2>2. tmp = <<>> \/ Rows(tmp \o <<NewLine>>, NewLine)
    BY <1>1, <1>4 DEF ExportInv, Joined, Running, Assembly
  <2> DEFINE r == tmp \o <<NewLine>>
  <2>3. /\ <<NewLine>> \in Seq(Tokens) /\ <<Header, NewLine>> \in Seq(Tokens)
        /\ Len(<<Header, NewLine>>) = 2
        /\ <<Header, NewLine>>[1] = Header /\ <<Header, NewLine>>[2] = NewLine
    BY TokenFacts
  <2>4. r \in Seq(Tokens)
    BY <1>1, <2>3
  <2>5. output = <<Header, NewLine>> \o r
    <3>1. (<<Header, NewLine>> \o tmp) \o <<NewLine>> = <<Header, NewLine>> \o (tmp \o <<NewLine>>)
      BY <1>1, <2>3
    <3> QED
      BY <1>1, <2>1, <3>1
  <2>6. tmp = <<>> => r = <<NewLine>>
    BY <2>3
  <2> HIDE DEF r
  <2>7. SubSeq(output, 1, 2) = <<Header, NewLine>> /\ SubSeq(output, 3, Len(output)) = r
    <3> DEFINE h == <<Header, NewLine>>
    <3>1. h \in Seq(Tokens) /\ Len(h) = 2
      BY <2>3
    <3> HIDE DEF h
    <3>2. /\ output \in Seq(Tokens) /\ Len(output) = Len(r) + 2 /\ Len(r) \in Nat
          /\ output[1] = h[1] /\ output[2] = h[2]
          /\ \A n \in 1..Len(r) : output[n + 2] = r[n]
      BY <2>4, <2>5, <3>1 DEF h
    <3>3. /\ SubSeq(output, 1, 2) \in Seq(Tokens) /\ Len(SubSeq(output, 1, 2)) = 2
          /\ SubSeq(output, 1, 2)[1] = h[1] /\ SubSeq(output, 1, 2)[2] = h[2]
      BY <3>2
    <3>4. SubSeq(output, 1, 2) = h
      <4>1. \A n \in 1..2 : n = 1 \/ n = 2
        OBVIOUS
      <4> QED
        BY <3>1, <3>3, <4>1
    <3>5. /\ SubSeq(output, 3, Len(output)) \in Seq(Tokens)
          /\ Len(SubSeq(output, 3, Len(output))) = Len(r)
          /\ \A n \in 1..Len(r) : SubSeq(output, 3, Len(output))[n] = output[n + 2]
      BY <3>2
    <3>6. SubSeq(output, 3, Len(output)) = r
      BY <2>4, <3>2, <3>5
    <3> QED
      BY <3>4, <3>6 DEF h
  <2> QED
    BY <2>2, <2>6, <2>7 DEF IsCsv, IsLines, Rows, IsItem, r
<1> QED
  BY <1>2, <1>3, <1>4

-----------------------------------------------------------------------------
(* Init and Next *)

\* Before the first export nothing is promised.
LEMMA ExportInit == Init => ExportInv
<1> SUFFICES ASSUME Init PROVE ExportInv
  OBVIOUS
<1>1. <<>> \in Seq(Tokens) /\ <<Old>> \in Seq(Tokens)
  BY TokenFacts
<1>2. DOMAIN <<>> = {} /\ DOMAIN <<Old>> = {1} /\ <<Old>>[1] = Old
  OBVIOUS
<1>3. TypeOK
  <2>1. 0 \in 0..Size /\ 0 \in 0..Size + 1
    BY SizeAssumption
  <2>2. output \in Seq(Tokens) /\ tmp \in Seq(Tokens)
    BY <1>1 DEF Init
  <2> QED
    BY <2>1, <2>2 DEF Init, TypeOK, Phases
<1>4. Plain(tmp)
  BY <1>2 DEF Init, Plain
<1>5. Unclosed
  BY <1>2, TokenFacts DEF Init, Unclosed
<1> QED
  BY <1>3, <1>4, <1>5 DEF Init, ExportInv, Collected, Counted, Joined, Assembled, ExportIsComplete,
                          OutputIsWellFormed, Running, Assembly

\* One page more.
LEMMA ScanStep ==
  ASSUME ExportInv, NEW e \in 0..Size, NEW more \in BOOLEAN, NEW page,
         Answer(page, e, more), ScanPage(page, e, more)
  PROVE  ExportInv'
<1>1. /\ phase = "scan" /\ phase' \in {"scan", "opening"}
      /\ pages' = pages + 1 /\ gap' = (gap \/ page = {})
      /\ IF more THEN cursor' = e /\ phase' = "scan" ELSE cursor' = cursor /\ phase' = "opening"
      /\ UNCHANGED <<table, recent, writes, always, ever, format, output, runs, whole>>
  BY DEF ScanPage, tableVars
<1>2. PICK q \in Listings(page) : tmp' = tmp \o Converted(q)
  BY DEF ScanPage
<1>3. TypeOK
  BY DEF ExportInv
<1>4. /\ table \cup recent \in SUBSET Items
      /\ \A i \in page : i \in table \cup recent /\ cursor < i /\ i <= e
      /\ \A i \in table \ recent : cursor < i /\ i <= e => i \in page
      /\ page \in SUBSET Items
  BY <1>3 DEF TypeOK, Answer, Readable
<1>e. e > cursor \/ (~more /\ e = Size)
  <2>1. cursor \in Int /\ e \in Int
    BY <1>3, SizeAssumption DEF TypeOK
  <2> QED
    BY <1>4, <2>1 DEF Answer
<1>5. /\ cursor \in 0..Size /\ cursor \in Int /\ e \in Int /\ cursor <= e
      /\ Scanned' = Scanned \cup {i \in Items : cursor < i /\ i <= e}
      /\ Scanned = {i \in Items : i <= cursor}
  <2>1. cursor \in 0..Size /\ cursor <= e /\ \A i \in Items : i \in Int /\ i <= Size
    BY <1>3, <1>e, SizeAssumption DEF TypeOK, Items
  <2>2. Scanned = {i \in Items : i <= cursor}
    BY <1>1 DEF Scanned
  <2>3. CASE more
    BY <1>1, <2>1, <2>2, <2>3 DEF Scanned
  <2>4. CASE ~more
    <3>1. e = Size /\ Scanned' = Items
      BY <1>1, <2>4 DEF Answer, Scanned
    <3> QED
      BY <2>1, <2>2, <3>1
  <2> QED
    BY <2>1, <2>2, <2>3, <2>4, SizeAssumption
<1> DEFINE c == Converted(q)
<1>6. /\ c \in Seq(Tokens) /\ Plain(c) /\ Has(c, page) /\ Only(c, page) /\ Once(c)
      /\ format = "json" => /\ c # <<>> /\ c[Len(c)] = Comma
                            /\ page = {} => c = <<Comma>>
                            /\ page # {} => Rows(c, Comma)
      /\ format = "jsonl" => Rows(c, NewLine)
      /\ format = "csv" => /\ page = {} => c = <<>>
                           /\ page # {} => Rows(c \o <<NewLine>>, NewLine)
  BY <1>3, <1>4, ConvertedFacts DEF TypeOK
<1>7. tmp \in Seq(Tokens) /\ Plain(tmp)
  BY <1>3 DEF ExportInv, TypeOK
<1>8. Has(tmp, always \cap Scanned) /\ Only(tmp, ever \cap Scanned) /\ Once(tmp)
  BY <1>1 DEF ExportInv, Collected, Running
<1>9. pages \in Nat /\ pages <= cursor
  BY <1>1, <1>3 DEF ExportInv, Counted, TypeOK
<1>10. /\ page \subseteq ever
       /\ \A i \in always : i \in Scanned' => i \in always \cap Scanned \/ i \in page
       /\ page \subseteq Scanned'
       /\ page \cap Scanned = {}
       /\ Scanned \subseteq Scanned'
  <2>1. always \subseteq table \ recent /\ table \cup recent \subseteq ever /\ table \subseteq Items
    BY <1>3 DEF TypeOK
  <2>2. \A i \in Items : i \in Int
    BY SizeAssumption DEF Items
  <2>3. page \subseteq ever /\ page \subseteq Scanned' /\ Scanned \subseteq Scanned'
    BY <1>4, <1>5, <2>1
  <2>4. page \cap Scanned = {}
    BY <1>4, <1>5, <2>2
  <2>5. \A i \in always : i \in Scanned' => i \in always \cap Scanned \/ i \in page
    BY <1>4, <1>5, <2>1
  <2> QED
    BY <2>1, <2>3, <2>4, <2>5
<1> HIDE DEF c
<1>11. TypeOK'
  <2>1. tmp' \in Seq(Tokens)
    BY <1>2, <1>6, <1>7 DEF c
  <2>2. pages' \in 0..Size + 1 /\ cursor' \in 0..Size
    BY <1>1, <1>5, <1>9, SizeAssumption
  <2> QED
    BY <1>1, <1>3, <2>1, <2>2 DEF TypeOK, Phases
<1>12. /\ Plain(tmp') /\ Once(tmp')
       /\ Has(tmp', (always \cap Scanned) \cup page)
       /\ Only(tmp', (ever \cap Scanned) \cup page)
  <2>1. (ever \cap Scanned) \cap page = {}
    BY <1>10
  <2>2. tmp' = tmp \o c
    BY <1>2 DEF c
  <2>3. Plain(tmp') /\ Has(tmp', (always \cap Scanned) \cup page)
    BY <1>6, <1>7, <1>8, <2>2, Joining
  <2>4. Only(tmp', (ever \cap Scanned) \cup page) /\ Once(tmp')
    BY <1>6, <1>7, <1>8, <2>1, <2>2, Joining
  <2> QED
    BY <2>3, <2>4
<1>13. Collected'
  <2>1. Has(tmp', always \cap Scanned')
    BY <1>10, <1>12 DEF Has
  <2>2. Only(tmp', ever \cap Scanned')
    BY <1>10, <1>12 DEF Only
  <2> QED
    BY <1>1, <1>12, <2>1, <2>2 DEF Collected, Has, Only, Once
<1>14. Counted'
  <2>1. phase' = "scan" => pages' <= cursor'
    BY <1>1, <1>5, <1>9, <1>e
  <2> QED
    BY <1>1, <1>9, <2>1 DEF Counted
<1>15. Joined'
  <2>0. tmp' = tmp \o c /\ format' = format /\ pages' = pages + 1
    BY <1>1, <1>2 DEF c
  <2>1. pages = 0 => tmp = <<>> /\ ~gap
    BY <1>1 DEF ExportInv, Counted, Running
  <2>2. pages = 0 => tmp' = c
    BY <1>6, <2>0, <2>1
  <2>3. pages' = 1 => pages = 0
    BY <1>9, <2>0
  <2>4. ASSUME format = "json"
        PROVE  /\ tmp' # <<>> /\ tmp'[Len(tmp')] = Comma
               /\ ~gap' => Rows(tmp', Comma)
               /\ pages' = 1 /\ gap' => tmp' = <<Comma>>
    <3>1. tmp' # <<>> /\ tmp'[Len(tmp')] = Comma
      BY <1>6, <1>7, <2>0, <2>4
    <3>2. ASSUME ~gap' PROVE Rows(tmp', Comma)
      <4>1. page # {} /\ ~gap
        BY <1>1, <3>2
      <4>2. Rows(c, Comma)
        BY <1>6, <2>4, <4>1
      <4>3. CASE pages = 0
        BY <2>2, <4>2, <4>3
      <4>4. CASE pages # 0
        <5>1. Rows(tmp, Comma)
          BY <1>1, <1>9, <2>4, <4>1, <4>4 DEF ExportInv, Joined, Running
        <5> QED
          BY <1>6, <1>7, <2>0, <4>2, <5>1, RowsJoined
      <4> QED
        BY <4>3, <4>4
    <3>3. pages' = 1 /\ gap' => tmp' = <<Comma>>
      BY <1>1, <1>6, <2>1, <2>2, <2>3, <2>4
    <3> QED
      BY <3>1, <3>2, <3>3
  <2>5. ASSUME format = "jsonl" PROVE Rows(tmp', NewLine)
    <3>1. CASE pages = 0
      BY <1>6, <2>2, <2>5, <3>1
    <3>2. CASE pages # 0
      <4>1. Rows(tmp, NewLine)
        BY <1>1, <1>9, <2>5, <3>2 DEF ExportInv, Joined, Running
      <4> QED
        BY <1>6, <1>7, <2>0, <2>5, <4>1, RowsJoined
    <3> QED
      BY <3>1, <3>2
  <2>6. ASSUME format = "csv", pages' = 1
        PROVE  tmp' = <<>> \/ Rows(tmp' \o <<NewLine>>, NewLine)
    BY <1>6, <2>2, <2>3, <2>6
  <2> QED
    BY <2>0, <2>4, <2>5, <2>6 DEF Joined, Rows
<1>16. Assembled' /\ Unclosed'
  BY <1>1 DEF ExportInv, Assembled, Unclosed
<1>17. ExportIsComplete' /\ OutputIsWellFormed'
  BY <1>1 DEF ExportIsComplete, OutputIsWellFormed
<1> QED
  BY <1>11, <1>12, <1>13, <1>14, <1>15, <1>16, <1>17 DEF ExportInv, Plain

\* The export goes on to put its file together, from the same pages.
LEMMA AssemblyStep ==
  ASSUME ExportInv, phase \in Assembly, phase' \in Assembly, output' \in Seq(Tokens),
         UNCHANGED <<table, recent, writes, always, ever, format, cursor, pages, gap, tmp>>,
         Assembled', Unclosed'
  PROVE  ExportInv'
<1>1. TypeOK'
  BY DEF ExportInv, TypeOK, Assembly, Phases
<1>2. Scanned' = Scanned
  BY DEF Scanned, Assembly
<1>3. Collected' /\ Plain(tmp')
  BY <1>2 DEF ExportInv, Collected, Running, Has, Only, Once, Plain
<1>4. Counted'
  BY DEF ExportInv, Counted, Running, Assembly
<1>5. Joined'
  BY DEF ExportInv, Joined, Running, Rows
<1>6. ExportIsComplete' /\ OutputIsWellFormed'
  BY DEF ExportIsComplete, OutputIsWellFormed, Assembly
<1> QED
  BY <1>1, <1>3, <1>4, <1>5, <1>6 DEF ExportInv, Plain

\* Items that come and go while others write, at each replica in its time: fewer
\* stay, more were there.
LEMMA OthersStep ==
  ASSUME ExportInv, NEW i \in Items, Put(i) \/ Delete(i) \/ Replicate(i)
  PROVE  ExportInv'
<1>1. /\ always' \subseteq always /\ ever \subseteq ever'
      /\ UNCHANGED <<format, phase, cursor, pages, gap, output, tmp, runs, whole>>
  BY DEF Put, Delete, Replicate
<1>2. TypeOK'
  <2>1. /\ table' \subseteq Items /\ recent' \subseteq Items
        /\ always' \subseteq table' \ recent' /\ table' \cup recent' \subseteq ever'
    BY DEF ExportInv, TypeOK, Put, Delete, Replicate
  <2> QED
    BY <1>1, <2>1 DEF ExportInv, TypeOK
<1>3. Scanned' = Scanned
  BY <1>1 DEF Scanned
<1>4. Collected' /\ Plain(tmp')
  BY <1>1, <1>3 DEF ExportInv, Collected, Has, Only, Once, Plain
<1>5. Counted' /\ Assembled' /\ Unclosed'
  BY <1>1 DEF ExportInv, Counted, Assembled, Unclosed, OpeningText, ClosingText, Body
<1>6. Joined'
  BY <1>1 DEF ExportInv, Joined, Rows
<1>7. ExportIsComplete'
  BY <1>1 DEF ExportInv, ExportIsComplete
<1>8. OutputIsWellFormed'
  BY <1>1 DEF ExportInv, OutputIsWellFormed, IsLines, IsJson, IsCsv
<1> QED
  BY <1>2, <1>4, <1>5, <1>6, <1>7, <1>8 DEF ExportInv, Plain

\* Outside a scan, an assembly and a finished export nothing is promised of the
\* pages.
LEMMA IdleStep ==
  ASSUME TypeOK', Plain(tmp), tmp' = tmp, Unclosed', phase' \notin Running \cup {"done"},
         phase' = "tmp" => output' = <<>>
  PROVE  ExportInv'
<1>1. Collected' /\ Counted' /\ Joined' /\ Assembled' /\ Plain(tmp')
  BY DEF Collected, Counted, Joined, Assembled, Running, Assembly, Plain
<1>2. ExportIsComplete' /\ OutputIsWellFormed'
  BY DEF ExportIsComplete, OutputIsWellFormed
<1> QED
  BY <1>1, <1>2 DEF ExportInv, Plain

\* Every step keeps the invariant.
LEMMA ExportStep == ExportInv /\ [Next]_vars => ExportInv'
<1> SUFFICES ASSUME ExportInv, [Next]_vars PROVE ExportInv'
  OBVIOUS
<1>0. TypeOK /\ Plain(tmp) /\ Unclosed /\ format \in Formats
  BY DEF ExportInv, TypeOK
<1>1. CASE Begin
  <2>1. TypeOK'
    BY <1>0, <1>1 DEF Begin, tableVars, TypeOK, Phases
  <2> QED
    BY <1>0, <1>1, <2>1, IdleStep DEF Begin, Unclosed, Running, Assembly
<1>2. CASE Cancel
  <2>1. TypeOK'
    BY <1>0, <1>2 DEF Cancel, tableVars, TypeOK, Phases
  <2> QED
    BY <1>0, <1>2, <2>1, IdleStep DEF Cancel, Unclosed, Running, Assembly
<1>3. CASE Truncate
  <2>0. <<>> \in Seq(Tokens) /\ DOMAIN <<>> = {}
    OBVIOUS
  <2>1. TypeOK'
    BY <1>0, <1>3, <2>0 DEF Truncate, tableVars, TypeOK, Phases
  <2>2. Unclosed'
    BY <1>3, <2>0 DEF Truncate, Unclosed
  <2> QED
    BY <1>0, <1>3, <2>1, <2>2, IdleStep DEF Truncate, Running, Assembly
<1>4. CASE OpenTmp
  <2>0. <<>> \in Seq(Tokens) /\ DOMAIN <<>> = {} /\ 0 \in 0..Size /\ 0 \in 0..Size + 1
    BY SizeAssumption
  <2>1. TypeOK'
    BY <1>0, <1>4, <2>0 DEF OpenTmp, TypeOK, Phases
  <2>2. Scanned' = {}
    BY <1>4 DEF OpenTmp, Scanned, Items
  <2>3. Collected' /\ Plain(tmp')
    BY <1>4, <2>0, <2>2 DEF OpenTmp, Collected, Has, Only, Once, Plain
  <2>4. Counted' /\ Joined' /\ Assembled' /\ Unclosed'
    BY <1>0, <1>4 DEF OpenTmp, Counted, Joined, Assembled, Unclosed, ExportInv, Assembly
  <2>5. ExportIsComplete' /\ OutputIsWellFormed'
    BY <1>4 DEF OpenTmp, ExportIsComplete, OutputIsWellFormed
  <2> QED
    BY <2>1, <2>3, <2>4, <2>5 DEF ExportInv, Plain
<1>5. CASE ScanNext
  BY <1>5, ScanStep DEF ScanNext
<1>6. CASE WriteOpening
  <2>1. /\ phase = "opening" /\ phase' = "body" /\ output = <<>> /\ output' = output \o OpeningText
        /\ UNCHANGED <<table, recent, writes, always, ever, format, cursor, pages, gap, tmp, whole>>
    BY <1>6 DEF WriteOpening, OpeningText, tableVars, ExportInv, Assembled
  <2>2. OpeningText \in Seq(Tokens) /\ \A n \in DOMAIN OpeningText : OpeningText[n] # Close
    BY <1>0, AroundFacts
  <2>3. output' = OpeningText
    BY <2>1, <2>2
  <2>4. OpeningText' = OpeningText
    BY <2>1 DEF OpeningText
  <2>5. Assembled' /\ Unclosed'
    BY <2>1, <2>2, <2>3, <2>4 DEF Assembled, Unclosed
  <2> QED
    BY <2>1, <2>2, <2>3, <2>5, AssemblyStep DEF Assembly
<1>7. CASE WriteBody
  <2>1. /\ phase = "body" /\ phase' = "closing" /\ output = OpeningText /\ output' = output \o Body
        /\ UNCHANGED <<table, recent, writes, always, ever, format, cursor, pages, gap, tmp, whole>>
    BY <1>7 DEF WriteBody, tableVars, ExportInv, Assembled
  <2>2. OpeningText \in Seq(Tokens) /\ \A n \in DOMAIN OpeningText : OpeningText[n] # Close
    BY <1>0, AroundFacts
  <2>3. Body \in Seq(Tokens) /\ Plain(Body)
    BY <2>1, BodyFacts DEF Assembly
  <2>4. OpeningText' = OpeningText /\ Body' = Body
    BY <2>1 DEF OpeningText, Body
  <2>5. output' \in Seq(Tokens) /\ \A n \in DOMAIN output' : output'[n] # Close
    <3> DEFINE a == OpeningText
               b == Body
    <3>1. /\ a \o b \in Seq(Tokens)
          /\ \A n \in DOMAIN (a \o b) : \/ n \in DOMAIN a /\ (a \o b)[n] = a[n]
                                        \/ n - Len(a) \in DOMAIN b /\ (a \o b)[n] = b[n - Len(a)]
      BY <2>2, <2>3, Halves
    <3>2. \A n \in DOMAIN b : b[n] # Close
      BY <2>3, TokenFacts DEF Plain
    <3> HIDE DEF a, b
    <3> QED
      BY <2>1, <2>2, <3>1, <3>2 DEF a, b
  <2>6. Assembled' /\ Unclosed'
    BY <2>1, <2>4, <2>5 DEF Assembled, Unclosed
  <2> QED
    BY <2>1, <2>5, <2>6, AssemblyStep DEF Assembly
<1>8. CASE WriteClosing
  <2>1. /\ phase = "closing" /\ phase' = "remove" /\ output = OpeningText \o Body
        /\ output' = output \o ClosingText /\ whole'
        /\ UNCHANGED <<table, recent, writes, always, ever, format, cursor, pages, gap, tmp>>
    BY <1>8 DEF WriteClosing, ClosingText, tableVars, ExportInv, Assembled
  <2>2. OpeningText' = OpeningText /\ Body' = Body /\ ClosingText' = ClosingText
    BY <2>1 DEF OpeningText, Body, ClosingText
  <2>3. output' \in Seq(Tokens)
    BY <1>0, <2>1, AroundFacts DEF TypeOK
  <2>4. Assembled' /\ Unclosed'
    BY <2>1, <2>2 DEF Assembled, Unclosed
  <2> QED
    BY <2>1, <2>3, <2>4, AssemblyStep DEF Assembly
<1>9. CASE RemoveTmp
  <2>1. /\ phase = "remove" /\ phase' = "done" /\ tmp' = <<>>
        /\ UNCHANGED <<table, recent, writes, always, ever, format, cursor, pages, gap, output, whole>>
    BY <1>9 DEF RemoveTmp, tableVars
  <2>2. <<>> \in Seq(Tokens) /\ DOMAIN <<>> = {}
    OBVIOUS
  <2>3. TypeOK' /\ Plain(tmp')
    BY <1>0, <2>1, <2>2 DEF TypeOK, Phases, Plain
  <2>4. Collected' /\ Counted' /\ Joined' /\ Assembled' /\ Unclosed'
    BY <1>0, <2>1 DEF Collected, Counted, Joined, Assembled, Unclosed, Running, Assembly
  <2>5. ExportIsComplete'
    BY <2>1, OutputLists DEF ExportIsComplete, Has, Only, Once, IsItem
  <2>6. OutputIsWellFormed'
    <3>1. /\ format = "jsonl" => IsLines(output)
          /\ format = "json" /\ (pages = 1 \/ ~gap) => IsJson(output)
          /\ format = "csv" /\ pages = 1 => IsCsv(output)
      BY <2>1, OutputFormed
    <3>2. IsLines(output') = IsLines(output) /\ IsJson(output') = IsJson(output) /\ IsCsv(output') = IsCsv(output)
      BY <2>1
    <3> QED
      BY <2>1, <3>1, <3>2 DEF OutputIsWellFormed, IsLines, IsJson, IsCsv
  <2> QED
    BY <2>3, <2>4, <2>5, <2>6 DEF ExportInv, Plain
<1>10. CASE Die
  <2>1. /\ phase' = "idle" /\ whole' = whole /\ tmp' = tmp
        /\ UNCHANGED <<table, recent, writes, always, ever, format, cursor, pages, gap>>
    BY <1>10 DEF Die, tableVars
  <2>2. output' \in Seq(Tokens) /\ Unclosed'
    <3>1. CASE phase = "body"
      <4>1. PICK n \in 0..Len(Body) : output' = output \o SubSeq(Body, 1, n)
        BY <1>10, <3>1 DEF Die
      <4>2. Body \in Seq(Tokens) /\ Plain(Body)
        BY <3>1, BodyFacts DEF Assembly
      <4> DEFINE b == SubSeq(Body, 1, n)
      <4>3. b \in Seq(Tokens) /\ \A k \in DOMAIN b : k \in DOMAIN Body /\ b[k] = Body[k]
        BY <4>2
      <4>4. \A k \in DOMAIN b : b[k] # Close
        BY <4>2, <4>3, TokenFacts DEF Plain
      <4> HIDE DEF b
      <4>5. output \in Seq(Tokens) /\ output' = output \o b
        BY <1>0, <4>1 DEF TypeOK, b
      <4>6. /\ output' \in Seq(Tokens)
            /\ \A k \in DOMAIN output' : \/ k \in DOMAIN output /\ output'[k] = output[k]
                                         \/ k - Len(output) \in DOMAIN b /\ output'[k] = b[k - Len(output)]
        BY <4>3, <4>5, Halves
      <4> QED
        BY <1>0, <2>1, <4>4, <4>6 DEF Unclosed
    <3>2. CASE phase # "body"
      BY <1>0, <1>10, <2>1, <3>2 DEF Die, Unclosed, TypeOK
    <3> QED
      BY <3>1, <3>2
  <2>3. TypeOK'
    BY <1>0, <2>1, <2>2 DEF TypeOK, Phases
  <2> QED
    BY <1>0, <2>1, <2>2, <2>3, IdleStep DEF Running, Assembly
<1>11. CASE \E i \in Items : Put(i) \/ Delete(i) \/ Replicate(i)
  BY <1>11, OthersStep
<1>12. CASE UNCHANGED vars
  <2>1. TypeOK' /\ Plain(tmp') /\ Unclosed' /\ Counted' /\ Assembled' /\ ExportIsComplete'
    BY <1>12 DEF vars, tableVars, ExportInv, TypeOK, Plain, Unclosed, Counted, Assembled, OpeningText,
                 ClosingText, Body, ExportIsComplete
  <2>2. Collected' /\ Joined'
    BY <1>12 DEF vars, tableVars, ExportInv, Collected, Joined, Scanned, Has, Only, Once, Rows
  <2>3. OutputIsWellFormed'
    BY <1>12 DEF vars, ExportInv, OutputIsWellFormed, IsLines, IsJson, IsCsv
  <2> QED
    BY <2>1, <2>2, <2>3 DEF ExportInv, Plain
<1> QED
  BY <1>1, <1>2, <1>3, <1>4, <1>5, <1>6, <1>7, <1>8, <1>9, <1>10, <1>11, <1>12 DEF Next

\* It holds in every state.
LEMMA ExportInvariant == Spec => []ExportInv
  BY ExportInit, ExportStep, PTL DEF Spec

-----------------------------------------------------------------------------
(* Results *)

\* Files hold tokens, and a scan of a table of Size places takes at most
\* Size + 1 pages.
THEOREM TypeCorrect == Spec => []TypeOK
<1>1. ExportInv => TypeOK
  BY DEF ExportInv
<1> QED
  BY <1>1, ExportInvariant, PTL

\* An export that ends with Ok has every item that all replicas had when the scan
\* began and that stayed, although its reads may miss recent changes; none that no
\* replica had since, none twice and none of an earlier run.
THEOREM Complete == Spec => []ExportIsComplete
<1>1. ExportInv => ExportIsComplete
  BY DEF ExportInv
<1> QED
  BY <1>1, ExportInvariant, PTL

\* JSON Lines are well-formed however the table was paged, JSON unless the last page
\* of several was empty, CSV when there was one page.
THEOREM WellFormed == Spec => []OutputIsWellFormed
<1>1. ExportInv => OutputIsWellFormed
  BY DEF ExportInv
<1> QED
  BY <1>1, ExportInvariant, PTL

\* An output file that parses as JSON was written to its end, wherever an export
\* was cut off.
THEOREM OnlyWholeParses == Spec => []UnfinishedJsonIsInvalid
<1>1. ExportInv => UnfinishedJsonIsInvalid
  <2> SUFFICES ASSUME ExportInv, IsJson(output), ~whole PROVE FALSE
    BY DEF UnfinishedJsonIsInvalid
  <2>1. output \in Seq(Tokens) /\ Len(output) >= 2 /\ output[Len(output)] = Close
    BY DEF ExportInv, TypeOK, IsJson
  <2>2. Len(output) \in DOMAIN output
    BY <2>1
  <2> QED
    BY <2>1, <2>2 DEF ExportInv, Unclosed
<1> QED
  BY <1>1, ExportInvariant, PTL

\* A scan that fails leaves an empty file, as nothing is written to it until the scan
\* is over.
THEOREM NothingOfAFailedScan == Spec => FailedScanLeavesNothing
<1>1. ExportInv /\ [Next]_vars => (phase = "scan" /\ phase' = "idle" => output' = <<>>)
  <2> SUFFICES ASSUME ExportInv, [Next]_vars, phase = "scan", phase' = "idle" PROVE output' = <<>>
    OBVIOUS
  <2>1. output = <<>>
    BY DEF ExportInv, Assembled
  <2>2. Die
    BY DEF Next, vars, Begin, Cancel, Truncate, OpenTmp, ScanNext, ScanPage, WriteOpening, WriteBody,
           WriteClosing, RemoveTmp, Put, Delete, Replicate
  <2> QED
    BY <2>1, <2>2 DEF Die
<1> QED
  BY <1>1, ExportInvariant, PTL DEF Spec, FailedScanLeavesNothing
=============================================================================
