------------------------------ MODULE Recursion ------------------------------
(***************************************************************************)
(* Recursive functions, for proofs about them: that they exist, and what   *)
(* those of SequencesExt compute.                                          *)
(***************************************************************************)
EXTENDS Integers, Sequences, FiniteSets, SequencesExt, WellFoundedInduction, SequenceTheorems, TLAPS

-----------------------------------------------------------------------------
(* Induction, without a predicate as a parameter *)

\* Every nonempty set of natural numbers has a least element, the first
\* counterexample of a proof by induction.
LEMMA Least ==
  ASSUME NEW T \in SUBSET Nat, T # {}
  PROVE  \E x \in T : \A y \in T : x <= y
<1>1. IsWellFoundedOn(OpToRel(<, Nat), Nat)
  BY NatLessThanWellFounded
<1>2. PICK x \in T : \A y \in T : <<y, x>> \notin OpToRel(<, Nat)
  BY <1>1, WFMin
<1>3. ASSUME NEW y \in T PROVE x <= y
  <2>1. y \in Nat /\ x \in Nat /\ <<y, x>> \in Nat \X Nat
    OBVIOUS
  <2>2. ~ (y < x)
    BY <1>2, <2>1 DEF OpToRel
  <2> QED
    BY <2>1, <2>2
<1> QED
  BY <1>3

\* A set of natural numbers up to n with 0 and with the successor of each of its
\* members has all of them.
LEMMA UpTo ==
  ASSUME NEW n \in Nat, NEW T, 0 \in T,
         \A k \in 1..n : k - 1 \in T => k \in T
  PROVE  \A k \in 0..n : k \in T
<1> SUFFICES ASSUME NEW k \in 0..n, k \notin T PROVE FALSE
  OBVIOUS
<1> DEFINE C == {i \in 0..n : i \notin T}
<1>0. C \in SUBSET Nat /\ C # {}
  OBVIOUS
<1> HIDE DEF C
<1>1. PICK x \in C : \A y \in C : x <= y
  BY <1>0, Least, Zenon
<1> USE DEF C
<1>2. x # 0
  BY <1>1
<1>3. x - 1 \in T
  BY <1>1, <1>2
<1> QED
  BY <1>1, <1>2, <1>3

-----------------------------------------------------------------------------
(* Recursive functions *)

\* A definition of a function on N: at each n from its values at what is lower.
Definition(N, V, height, step) ==
  /\ V # {}
  /\ height \in [N -> Nat]
  /\ step \in [N -> [[N -> V] -> V]]
  /\ \A n \in N : \A f, g \in [N -> V] :
       (\A m \in N : height[m] < height[n] => f[m] = g[m]) => step[n][f] = step[n][g]

\* f is as defined at all that is lower than k.
Solves(N, height, step, f, k) == \A n \in N : height[n] < k => f[n] = step[n][f]

\* There is such an f for every k.
LEMMA SolvedUpTo ==
  ASSUME NEW N, NEW V, NEW height, NEW step, Definition(N, V, height, step), NEW k \in Nat
  PROVE  \E f \in [N -> V] : Solves(N, height, step, f, k)
<1> DEFINE Solved == {j \in Nat : \E f \in [N -> V] : Solves(N, height, step, f, j)}
<1>1. 0 \in Solved
  <2>1. PICK v \in V : TRUE
    BY DEF Definition
  <2>2. [n \in N |-> v] \in [N -> V] /\ Solves(N, height, step, [n \in N |-> v], 0)
    BY <2>1 DEF Solves, Definition
  <2> QED
    BY <2>2
<1>2. ASSUME NEW i \in 1..k, i - 1 \in Solved PROVE i \in Solved
  <2>1. PICK f \in [N -> V] : Solves(N, height, step, f, i - 1)
    BY <1>2
  <2> DEFINE g == [n \in N |-> IF height[n] < i - 1 THEN f[n] ELSE step[n][f]]
  <2>2. g \in [N -> V]
    BY DEF Definition
  <2>3. ASSUME NEW n \in N, height[n] < i PROVE g[n] = step[n][g]
    <3>1. height[n] \in Nat /\ height[n] <= i - 1
      BY <2>3 DEF Definition
    <3>2. \A m \in N : height[m] < height[n] => f[m] = g[m]
      BY <3>1 DEF Definition
    <3>3. step[n][f] = step[n][g]
      BY <2>2, <3>2 DEF Definition
    <3>4. g[n] = step[n][f]
      BY <2>1 DEF Solves
    <3> QED
      BY <3>3, <3>4
  <2> HIDE DEF g
  <2> QED
    BY <2>2, <2>3 DEF Solves
<1> HIDE DEF Solved
<1>3. \A i \in 0..k : i \in Solved
  BY <1>1, <1>2, UpTo, Zenon
<1>4. k \in Solved
  BY <1>3
<1> QED
  BY <1>4 DEF Solved

\* Two of them agree as far as both are as defined.
LEMMA SolutionsAgree ==
  ASSUME NEW N, NEW V, NEW height, NEW step, Definition(N, V, height, step),
         NEW k \in Nat, NEW l \in Nat, k <= l, NEW f \in [N -> V], NEW g \in [N -> V],
         Solves(N, height, step, f, k), Solves(N, height, step, g, l)
  PROVE  \A m \in N : height[m] < k => f[m] = g[m]
<1> DEFINE Agree == {i \in Nat : \A n \in N : height[n] < i /\ height[n] < k => f[n] = g[n]}
<1>1. 0 \in Agree
  BY DEF Definition
<1>2. ASSUME NEW i \in 1..k, i - 1 \in Agree PROVE i \in Agree
  <2>1. ASSUME NEW n \in N, height[n] < i, height[n] < k PROVE f[n] = g[n]
    <3>1. \A j \in N : height[j] < height[n] => f[j] = g[j]
      <4>1. i \in Nat /\ height \in [N -> Nat]
        BY DEF Definition
      <4>2. \A j \in N : height[j] < height[n] => height[j] < i - 1 /\ height[j] < k
        BY <2>1, <4>1
      <4> QED
        BY <1>2, <4>2
    <3>2. step[n][f] = step[n][g]
      BY <3>1 DEF Definition
    <3>3. height[n] < l
      BY <2>1 DEF Definition
    <3>4. f[n] = step[n][f] /\ g[n] = step[n][g]
      BY <2>1, <3>3 DEF Solves
    <3> QED
      BY <3>2, <3>4
  <2> QED
    BY <2>1
<1> HIDE DEF Agree
<1>3. \A i \in 0..k : i \in Agree
  BY <1>1, <1>2, UpTo, Zenon
<1>4. k \in Agree
  BY <1>3
<1> QED
  BY <1>4 DEF Agree

\* So there is a function that is as defined everywhere.
LEMMA RecursiveFunction ==
  ASSUME NEW N, NEW V, NEW height, NEW step, Definition(N, V, height, step)
  PROVE  \E f \in [N -> V] : \A n \in N : f[n] = step[n][f]
<1> DEFINE Upto(k) == CHOOSE f \in [N -> V] : Solves(N, height, step, f, k)
           F == [n \in N |-> Upto(height[n] + 1)[n]]
<1>1. ASSUME NEW k \in Nat PROVE Upto(k) \in [N -> V] /\ Solves(N, height, step, Upto(k), k)
  BY SolvedUpTo
<1> HIDE DEF Upto
<1>2. \A n \in N : height[n] \in Nat /\ height[n] + 1 \in Nat
  BY DEF Definition
<1>3. F \in [N -> V]
  BY <1>1, <1>2
<1>4. ASSUME NEW n \in N PROVE F[n] = step[n][F]
  <2> DEFINE g == Upto(height[n] + 1)
  <2>1. g \in [N -> V] /\ Solves(N, height, step, g, height[n] + 1)
    BY <1>1, <1>2
  <2>2. ASSUME NEW m \in N, height[m] < height[n] PROVE F[m] = g[m]
    <3> DEFINE f == Upto(height[m] + 1)
    <3>1. f \in [N -> V] /\ Solves(N, height, step, f, height[m] + 1)
      BY <1>1, <1>2
    <3>2. height[m] + 1 <= height[n] + 1 /\ height[m] < height[m] + 1
      BY <1>2, <2>2
    <3>3. F[m] = f[m]
      OBVIOUS
    <3> HIDE DEF f, g
    <3>4. f[m] = g[m]
      BY <1>2, <2>1, <3>1, <3>2, SolutionsAgree
    <3> QED
      BY <3>3, <3>4
  <2>3. F[n] = g[n]
    OBVIOUS
  <2> HIDE DEF g
  <2>4. step[n][F] = step[n][g]
    BY <1>3, <2>1, <2>2 DEF Definition
  <2>5. g[n] = step[n][g]
    BY <1>2, <2>1 DEF Solves
  <2> QED
    BY <2>3, <2>4, <2>5
<1> HIDE DEF F
<1> QED
  BY <1>3, <1>4

-----------------------------------------------------------------------------
(* Walks over a sequence *)

\* The states of a walk over t from s, by a function from state and element to state.
Walk(op, s, t) ==
  LET run[k \in 0..Len(t)] == IF k = 0 THEN s ELSE op[run[k - 1]][t[k]] IN run

\* Where it ends.
Fold(op, s, t) == Walk(op, s, t)[Len(t)]

\* op moves between states of S, by elements of A.
Moves(op, S, A) == op \in [S -> [A -> S]]

\* The walk goes from s through every element.
LEMMA WalkSteps ==
  ASSUME NEW S, NEW A, NEW op, Moves(op, S, A), NEW s \in S, NEW t \in Seq(A)
  PROVE  /\ Walk(op, s, t) \in [0..Len(t) -> S]
         /\ Walk(op, s, t)[0] = s
         /\ \A k \in 1..Len(t) : Walk(op, s, t)[k] = op[Walk(op, s, t)[k - 1]][t[k]]
<1> DEFINE D == 0..Len(t)
           rank == [k \in D |-> k]
           next == [k \in D |-> [f \in [D -> S] |-> IF k = 0 THEN s ELSE op[f[k - 1]][t[k]]]]
<1>0. op \in [S -> [A -> S]]
  BY DEF Moves
<1>1. Len(t) \in Nat /\ \A k \in 1..Len(t) : t[k] \in A
  OBVIOUS
<1>2. Definition(D, S, rank, next)
  <2>1. S # {} /\ rank \in [D -> Nat]
    BY <1>1
  <2>2. next \in [D -> [[D -> S] -> S]]
    <3>1. ASSUME NEW k \in D, NEW f \in [D -> S] PROVE (IF k = 0 THEN s ELSE op[f[k - 1]][t[k]]) \in S
      <4>1. CASE k # 0
        <5>1. k - 1 \in D /\ k \in 1..Len(t)
          BY <1>1, <4>1
        <5>2. f[k - 1] \in S /\ t[k] \in A
          BY <1>1, <5>1
        <5> QED
          BY <1>0, <4>1, <5>2
      <4> QED
        BY <4>1
    <3> QED
      BY <3>1
  <2>3. ASSUME NEW k \in D, NEW f \in [D -> S], NEW g \in [D -> S],
               \A m \in D : rank[m] < rank[k] => f[m] = g[m]
        PROVE  next[k][f] = next[k][g]
    <3>1. k # 0 => k - 1 \in D /\ rank[k - 1] < rank[k]
      BY <1>1
    <3>2. k # 0 => f[k - 1] = g[k - 1]
      BY <2>3, <3>1
    <3> QED
      BY <3>2
  <2> HIDE DEF rank, next
  <2> QED
    BY <2>1, <2>2, <2>3 DEF Definition
<1>3. PICK f \in [D -> S] : \A k \in D : f[k] = next[k][f]
  <2> HIDE DEF D, rank, next
  <2> QED
    BY <1>2, RecursiveFunction
<1> DEFINE Runs(run) == run = [k \in D |-> IF k = 0 THEN s ELSE op[run[k - 1]][t[k]]]
<1>4. Runs(f)
  BY <1>3
<1> DEFINE walk == Walk(op, s, t)
<1>5. walk = CHOOSE run : Runs(run)
  BY DEF Walk
<1>6. Runs(walk)
  <2> HIDE DEF Runs, walk
  <2> QED
    BY <1>4, <1>5
<1> HIDE DEF walk
<1>7. DOMAIN walk = D /\ walk[0] = s /\ \A k \in 1..Len(t) : walk[k] = op[walk[k - 1]][t[k]]
  <2>1. 0 \in D /\ \A k \in 1..Len(t) : k \in D /\ k # 0
    BY <1>1
  <2> HIDE DEF D
  <2> QED
    BY <1>6, <2>1
<1> DEFINE T == {k \in D : walk[k] \in S}
<1>8. \A k \in D : k \in T
  <2>1. 0 \in T
    <3>1. 0 \in D /\ walk[0] \in S
      BY <1>1, <1>7
    <3> HIDE DEF D
    <3> QED
      BY <3>1
  <2>2. ASSUME NEW k \in 1..Len(t), k - 1 \in T PROVE k \in T
    <3>1. walk[k - 1] \in S /\ t[k] \in A
      BY <1>1, <2>2
    <3>2. op[walk[k - 1]][t[k]] \in S
      BY <1>0, <3>1
    <3>3. walk[k] = op[walk[k - 1]][t[k]]
      BY <1>7
    <3>4. k \in D
      BY <1>1
    <3> HIDE DEF D
    <3> QED
      BY <3>2, <3>3, <3>4
  <2> HIDE DEF T
  <2> QED
    BY <1>1, <2>1, <2>2, UpTo, Zenon
<1>9. walk = [k \in D |-> walk[k]] /\ \A k \in D : walk[k] \in S
  BY <1>6, <1>8
<1> HIDE DEF D
<1>10. walk \in [D -> S]
  BY <1>9
<1> QED
  BY <1>7, <1>10 DEF D, walk

\* There is one such walk only.
LEMMA WalkIs ==
  ASSUME NEW S, NEW A, NEW op, Moves(op, S, A), NEW s \in S, NEW t \in Seq(A),
         NEW run, run[0] = s,
         \A k \in 1..Len(t) : run[k - 1] \in S => run[k] = op[run[k - 1]][t[k]]
  PROVE  \A k \in 0..Len(t) : run[k] = Walk(op, s, t)[k]
<1>0. /\ Len(t) \in Nat
      /\ Walk(op, s, t) \in [0..Len(t) -> S]
      /\ Walk(op, s, t)[0] = s
      /\ \A k \in 1..Len(t) : Walk(op, s, t)[k] = op[Walk(op, s, t)[k - 1]][t[k]]
  BY WalkSteps
<1> DEFINE walk == Walk(op, s, t)
           n == Len(t)
<1>1. /\ n \in Nat
      /\ walk \in [0..n -> S] /\ walk[0] = s
      /\ \A k \in 1..n : walk[k] = op[walk[k - 1]][t[k]]
  BY <1>0
<1>2. \A k \in 1..n : run[k - 1] \in S => run[k] = op[run[k - 1]][t[k]]
  OBVIOUS
<1> HIDE DEF walk, n
<1> DEFINE T == {k \in 0..n : run[k] = walk[k]}
<1>3. 0 \in T
  BY <1>1
<1>4. ASSUME NEW k \in 1..n, k - 1 \in T PROVE k \in T
  <2>1. k - 1 \in 0..n /\ run[k - 1] = walk[k - 1] /\ k \in 0..n
    BY <1>1, <1>4
  <2>2. run[k - 1] \in S
    BY <1>1, <2>1
  <2> QED
    BY <1>1, <1>2, <2>1, <2>2
<1> HIDE DEF T
<1>5. \A k \in 0..n : k \in T
  BY <1>1, <1>3, <1>4, UpTo, Zenon
<1> QED
  BY <1>5 DEF T, walk, n

\* Walking over nothing and over one more element, and over two sequences in turn.
LEMMA FoldSteps ==
  ASSUME NEW S, NEW A, NEW op, Moves(op, S, A), NEW s \in S
  PROVE  /\ Fold(op, s, <<>>) = s
         /\ \A t \in Seq(A) : Fold(op, s, t) \in S
         /\ \A t \in Seq(A), c \in A : Fold(op, s, Append(t, c)) = op[Fold(op, s, t)][c]
<1>1. Fold(op, s, <<>>) = s
  <2>1. <<>> \in Seq(A) /\ Len(<<>>) = 0
    OBVIOUS
  <2> DEFINE none == <<>>
  <2> HIDE DEF none
  <2>2. none \in Seq(A) => Walk(op, s, none)[0] = s
    BY WalkSteps
  <2> QED
    BY <2>1, <2>2 DEF Fold, none
<1>2. ASSUME NEW t \in Seq(A) PROVE Fold(op, s, t) \in S
  <2>1. Walk(op, s, t) \in [0..Len(t) -> S] /\ Len(t) \in 0..Len(t)
    BY WalkSteps
  <2> QED
    BY <2>1 DEF Fold
<1>3. ASSUME NEW t \in Seq(A), NEW c \in A PROVE Fold(op, s, Append(t, c)) = op[Fold(op, s, t)][c]
  <2> DEFINE u == Append(t, c)
             n == Len(t)
             walk == Walk(op, s, u)
  <2>1. /\ n \in Nat /\ u \in Seq(A) /\ Len(u) = n + 1
        /\ u[n + 1] = c /\ \A k \in 1..n : u[k] = t[k]
    OBVIOUS
  <2>2. /\ walk \in [0..n + 1 -> S] /\ walk[0] = s
        /\ \A k \in 1..n + 1 : walk[k] = op[walk[k - 1]][u[k]]
    <3> HIDE DEF u, n
    <3>0. u \in Seq(A)
      BY <2>1
    <3>1. /\ walk \in [0..Len(u) -> S] /\ walk[0] = s
          /\ \A k \in 1..Len(u) : walk[k] = op[walk[k - 1]][u[k]]
      BY <3>0, WalkSteps
    <3> QED
      BY <2>1, <3>1
  <2> HIDE DEF u, walk
  <2>3. \A k \in 1..n : walk[k - 1] \in S => walk[k] = op[walk[k - 1]][t[k]]
    BY <2>1, <2>2
  <2>4. \A k \in 0..n : walk[k] = Walk(op, s, t)[k]
    BY <2>2, <2>3, WalkIs
  <2>5. walk[n] = Fold(op, s, t)
    BY <2>1, <2>4 DEF Fold
  <2>6. walk[n + 1] = op[walk[n]][c]
    BY <2>1, <2>2
  <2>7. Fold(op, s, u) = walk[n + 1]
    BY <2>1 DEF Fold, walk
  <2> QED
    BY <2>5, <2>6, <2>7 DEF u
<1> QED
  BY <1>1, <1>2, <1>3

\* The parts of a sequence up to an index.
LEMMA SeqParts ==
  ASSUME NEW A, NEW u \in Seq(A)
  PROVE  /\ SubSeq(u, 1, 0) = <<>>
         /\ SubSeq(u, 1, Len(u)) = u
         /\ \A k \in 0..Len(u) : SubSeq(u, 1, k) \in Seq(A)
         /\ \A k \in 1..Len(u) : SubSeq(u, 1, k) = Append(SubSeq(u, 1, k - 1), u[k])
<1>1. Len(u) \in Nat /\ \A k \in 1..Len(u) : u[k] \in A
  OBVIOUS
<1>2. SubSeq(u, 1, 0) = <<>>
  OBVIOUS
<1>3. SubSeq(u, 1, Len(u)) = u
  BY SubSeqFull
<1>4. ASSUME NEW k \in 0..Len(u) PROVE SubSeq(u, 1, k) \in Seq(A) /\ Len(SubSeq(u, 1, k)) = k
  BY <1>1
<1>5. ASSUME NEW k \in 1..Len(u) PROVE SubSeq(u, 1, k) = Append(SubSeq(u, 1, k - 1), u[k])
  <2>1. k - 1 \in 0..Len(u) /\ k \in 0..Len(u)
    BY <1>1
  <2>2. /\ SubSeq(u, 1, k - 1) \in Seq(A) /\ Len(SubSeq(u, 1, k - 1)) = k - 1
        /\ SubSeq(u, 1, k) \in Seq(A) /\ Len(SubSeq(u, 1, k)) = k
    BY <1>4, <2>1
  <2> QED
    BY <1>1, <2>1, <2>2
<1> QED
  BY <1>2, <1>3, <1>4, <1>5

\* A walk over two sequences, one after the other.
LEMMA FoldConcat ==
  ASSUME NEW S, NEW A, NEW op, Moves(op, S, A), NEW s \in S, NEW t \in Seq(A), NEW u \in Seq(A)
  PROVE  Fold(op, s, t \o u) = Fold(op, Fold(op, s, t), u)
<1> DEFINE n == Len(u)
           P(k) == Fold(op, s, t \o SubSeq(u, 1, k)) = Fold(op, Fold(op, s, t), SubSeq(u, 1, k))
           T == {k \in 0..n : P(k)}
<1>1. n \in Nat /\ \A k \in 1..n : u[k] \in A
  OBVIOUS
<1>2. Fold(op, s, t) \in S
  BY FoldSteps
<1>3. 0 \in T
  <2>1. t \o <<>> = t
    OBVIOUS
  <2>2. Fold(op, Fold(op, s, t), <<>>) = Fold(op, s, t)
    BY <1>2, FoldSteps
  <2>3. SubSeq(u, 1, 0) = <<>>
    OBVIOUS
  <2>4. P(0)
    BY <2>1, <2>2, <2>3
  <2> HIDE DEF P
  <2> QED
    BY <1>1, <2>4
<1>4. ASSUME NEW k \in 1..n, k - 1 \in T PROVE k \in T
  <2> DEFINE v == SubSeq(u, 1, k - 1)
  <2>1. k - 1 \in 0..n /\ P(k - 1)
    BY <1>4
  <2>2. v \in Seq(A) /\ SubSeq(u, 1, k) = Append(v, u[k]) /\ u[k] \in A
    BY <1>1, <2>1, SeqParts
  <2> HIDE DEF v
  <2>3. t \o Append(v, u[k]) = Append(t \o v, u[k]) /\ t \o v \in Seq(A)
    BY <2>2
  <2>4. Fold(op, s, t \o v) = Fold(op, Fold(op, s, t), v)
    BY <2>1 DEF v
  <2>5. Fold(op, s, Append(t \o v, u[k])) = op[Fold(op, s, t \o v)][u[k]]
    <3> DEFINE w == t \o v
               c == u[k]
    <3>1. w \in Seq(A) /\ c \in A
      BY <2>2, <2>3
    <3> HIDE DEF w, c
    <3>2. Fold(op, s, Append(w, c)) = op[Fold(op, s, w)][c]
      BY <3>1, FoldSteps
    <3> QED
      BY <3>2 DEF w, c
  <2>6. Fold(op, Fold(op, s, t), Append(v, u[k])) = op[Fold(op, Fold(op, s, t), v)][u[k]]
    BY <1>2, <2>2, FoldSteps
  <2>7. P(k)
    BY <2>2, <2>3, <2>4, <2>5, <2>6
  <2> HIDE DEF P
  <2> QED
    BY <1>1, <2>7
<1>5. \A k \in 0..n : k \in T
  <2> HIDE DEF T
  <2> QED
    BY <1>1, <1>3, <1>4, UpTo, Zenon
<1>6. n \in T
  BY <1>1, <1>5
<1>7. P(n)
  BY <1>6
<1> QED
  BY <1>7, SeqParts

-----------------------------------------------------------------------------
(* FoldLeft of SequencesExt, which walks over the sets of indices *)

\* A set of indices that is not empty has a greatest one.
LEMMA GreatestIndex ==
  ASSUME NEW n \in Nat, NEW x \in SUBSET (1..n), x # {}
  PROVE  Max(x) \in x /\ \A y \in x : y <= Max(x)
<1> DEFINE T == {n - y : y \in x}
<1>1. T \in SUBSET Nat /\ T # {}
  <2>1. \A y \in x : n - y \in Nat
    OBVIOUS
  <2>2. \A e \in T : e \in Nat
    BY <2>1
  <2> QED
    BY <2>2
<1>2. PICK d \in T : \A e \in T : d <= e
  <2> HIDE DEF T
  <2> QED
    BY <1>1, Least
<1>3. PICK m \in x : d = n - m
  BY <1>2
<1>4. m \in x /\ \A y \in x : m >= y
  BY <1>2, <1>3
<1>5. Max(x) \in x /\ \A y \in x : Max(x) >= y
  BY <1>4 DEF Max
<1> QED
  BY <1>5

\* The greatest of the first k indices is k, and without it they are the first k - 1.
LEMMA GreatestOfFirst ==
  ASSUME NEW k \in Nat \ {0}
  PROVE  Max(1..k) = k /\ (1..k) \ {k} = 1..k - 1
<1>1. Max(1..k) \in 1..k /\ \A y \in 1..k : y <= Max(1..k)
  <2> DEFINE x == 1..k
  <2>1. x \in SUBSET (1..k) /\ x # {}
    OBVIOUS
  <2> HIDE DEF x
  <2>2. Max(x) \in x /\ \A y \in x : y <= Max(x)
    BY <2>1, GreatestIndex
  <2> QED
    BY <2>2 DEF x
<1> QED
  BY <1>1

\* The function FoldLeft is made of, for a fold by op.
Folds(op, s, t, iter) ==
  iter = [x \in SUBSET DOMAIN t |-> IF x = {} THEN s ELSE op[iter[x \ {Max(x)}]][t[Max(x)]]]

\* There is one.
LEMMA FoldsExists ==
  ASSUME NEW S, NEW A, NEW op, Moves(op, S, A), NEW s \in S, NEW t \in Seq(A)
  PROVE  \E iter \in [SUBSET DOMAIN t -> S] : Folds(op, s, t, iter)
<1> DEFINE D == SUBSET DOMAIN t
           n == Len(t)
           rank == [x \in D |-> IF x = {} THEN 0 ELSE Max(x)]
           next == [x \in D |-> [f \in [D -> S] |->
                      IF x = {} THEN s ELSE op[f[x \ {Max(x)}]][t[Max(x)]]]]
<1>1. n \in Nat /\ DOMAIN t = 1..n /\ D = SUBSET (1..n) /\ \A k \in 1..n : t[k] \in A
  OBVIOUS
<1>2. ASSUME NEW x \in D, x # {}
      PROVE  Max(x) \in 1..n /\ x \ {Max(x)} \in D /\ rank[x] = Max(x) /\ rank[x \ {Max(x)}] < Max(x)
  <2> DEFINE y == x \ {Max(x)}
  <2>1. Max(x) \in x /\ \A z \in x : z <= Max(x)
    BY <1>1, <1>2, GreatestIndex
  <2>2. y \in D /\ Max(x) \in 1..n
    BY <1>1, <2>1
  <2>3. y # {} => Max(y) \in y
    BY <1>1, <2>2, GreatestIndex
  <2>4. rank[y] = (IF y = {} THEN 0 ELSE Max(y)) /\ rank[x] = Max(x)
    BY <1>2, <2>2
  <2> HIDE DEF rank
  <2>5. rank[y] < Max(x)
    <3>1. CASE y = {}
      BY <2>2, <2>4, <3>1
    <3>2. CASE y # {}
      <4>1. Max(y) \in x /\ Max(y) # Max(x)
        BY <2>3, <3>2
      <4>2. Max(y) \in 1..n
        BY <1>1, <4>1
      <4> QED
        BY <2>1, <2>2, <2>4, <3>2, <4>1, <4>2
    <3> QED
      BY <3>1, <3>2
  <2> QED
    BY <2>2, <2>4, <2>5
<1>3. op \in [S -> [A -> S]]
  BY DEF Moves
<1>4. Definition(D, S, rank, next)
  <2>1. S # {} /\ rank \in [D -> Nat]
    <3>1. ASSUME NEW x \in D, x # {} PROVE Max(x) \in Nat
      <4>1. Max(x) \in 1..n
        BY <1>2, <3>1
      <4> QED
        BY <1>1, <4>1
    <3> QED
      BY <3>1
  <2>2. next \in [D -> [[D -> S] -> S]]
    <3>1. ASSUME NEW x \in D, NEW f \in [D -> S]
          PROVE  (IF x = {} THEN s ELSE op[f[x \ {Max(x)}]][t[Max(x)]]) \in S
      <4>1. CASE x # {}
        <5>1. f[x \ {Max(x)}] \in S /\ t[Max(x)] \in A
          <6> HIDE DEF D
          <6> QED
            BY <1>1, <1>2, <4>1
        <5>2. op[f[x \ {Max(x)}]][t[Max(x)]] \in S
          BY <1>3, <5>1
        <5> QED
          BY <4>1, <5>2
      <4> QED
        BY <4>1
    <3> HIDE DEF D
    <3> QED
      BY <3>1
  <2>3. ASSUME NEW x \in D, NEW f \in [D -> S], NEW g \in [D -> S],
               \A m \in D : rank[m] < rank[x] => f[m] = g[m]
        PROVE  next[x][f] = next[x][g]
    <3>1. x # {} => f[x \ {Max(x)}] = g[x \ {Max(x)}]
      <4> HIDE DEF rank, D
      <4> QED
        BY <1>2, <2>3
    <3> HIDE DEF D
    <3> QED
      BY <3>1
  <2> HIDE DEF D, rank, next
  <2> QED
    BY <2>1, <2>2, <2>3 DEF Definition
<1>5. PICK f \in [D -> S] : \A x \in D : f[x] = next[x][f]
  <2> HIDE DEF D, rank, next
  <2> QED
    BY <1>4, RecursiveFunction
<1>6. \A x \in D : f[x] = IF x = {} THEN s ELSE op[f[x \ {Max(x)}]][t[Max(x)]]
  <2> HIDE DEF D
  <2> QED
    BY <1>5
<1>7. Folds(op, s, t, f)
  BY <1>6 DEF Folds
<1> QED
  BY <1>7

\* And what a function like it gives for all indices is the end of the walk.
LEMMA FoldsIs ==
  ASSUME NEW S, NEW A, NEW op, Moves(op, S, A), NEW s \in S, NEW t \in Seq(A),
         NEW iter, iter[{}] = s,
         \A k \in 1..Len(t) :
           iter[1..k - 1] \in S => iter[1..k] = op[iter[1..k - 1]][t[k]]
  PROVE  iter[DOMAIN t] = Fold(op, s, t)
<1> DEFINE n == Len(t)
           run == [k \in 0..n |-> iter[1..k]]
<1>1. n \in Nat /\ DOMAIN t = 1..n
  OBVIOUS
<1>2. run[0] = s
  <2>1. 1..0 = {} /\ 0 \in 0..n
    BY <1>1
  <2> QED
    BY <2>1
<1>3. ASSUME NEW k \in 1..n, run[k - 1] \in S PROVE run[k] = op[run[k - 1]][t[k]]
  <2>1. k \in 0..n /\ k - 1 \in 0..n
    BY <1>1
  <2>2. run[k] = iter[1..k] /\ run[k - 1] = iter[1..k - 1]
    BY <2>1
  <2> QED
    BY <1>3, <2>2
<1>4. run[n] = iter[DOMAIN t]
  BY <1>1
<1> HIDE DEF run
<1>5. \A k \in 0..n : run[k] = Walk(op, s, t)[k]
  BY <1>2, <1>3, WalkIs
<1> QED
  BY <1>1, <1>4, <1>5 DEF Fold

-----------------------------------------------------------------------------
(* FlattenSeq of SequencesExt *)

\* Putting a sequence behind another.
Behind(S) == [a \in Seq(S) |-> [b \in Seq(S) |-> a \o b]]

\* FlattenSeq is a walk that puts them one behind the other.
LEMMA FlattenIsWalk ==
  ASSUME NEW S, NEW seqs \in Seq(Seq(S))
  PROVE  /\ Moves(Behind(S), Seq(S), Seq(S))
         /\ FlattenSeq(seqs) = Fold(Behind(S), <<>>, seqs)
<1> DEFINE n == Len(seqs)
           op == Behind(S)
           walk == Walk(op, <<>>, seqs)
           Flat(f) == f = [i \in 1..n |-> IF i = 1 THEN seqs[i] ELSE f[i - 1] \o seqs[i]]
           flat == CHOOSE f : Flat(f)
<1>1. n \in Nat /\ \A i \in 1..n : seqs[i] \in Seq(S)
  OBVIOUS
<1>2. Moves(op, Seq(S), Seq(S)) /\ <<>> \in Seq(S)
  BY DEF Behind, Moves
<1>3. /\ walk \in [0..n -> Seq(S)] /\ walk[0] = <<>>
      /\ \A i \in 1..n : walk[i] = op[walk[i - 1]][seqs[i]]
  <2> DEFINE none == <<>>
             A == Seq(S)
  <2>1. Moves(op, A, A) /\ none \in A
    BY <1>2
  <2> HIDE DEF none, A, op
  <2>2. seqs \in Seq(A)
    BY DEF A
  <2>3. /\ Walk(op, none, seqs) \in [0..Len(seqs) -> A] /\ Walk(op, none, seqs)[0] = none
        /\ \A i \in 1..Len(seqs) : Walk(op, none, seqs)[i] = op[Walk(op, none, seqs)[i - 1]][seqs[i]]
    BY <2>1, <2>2, WalkSteps
  <2> QED
    BY <2>3 DEF none, A
<1> HIDE DEF walk
<1>4. ASSUME NEW i \in 1..n
      PROVE  /\ i - 1 \in 0..n /\ i \in 0..n /\ walk[i - 1] \in Seq(S)
             /\ walk[i] = walk[i - 1] \o seqs[i]
  <2>1. i - 1 \in 0..n /\ i \in 0..n
    BY <1>1
  <2>2. walk[i - 1] \in Seq(S) /\ seqs[i] \in Seq(S)
    BY <1>1, <1>3, <2>1
  <2> QED
    BY <1>3, <2>1, <2>2 DEF Behind
<1>5. Flat([i \in 1..n |-> walk[i]])
  <2> DEFINE f == [i \in 1..n |-> walk[i]]
  <2>1. ASSUME NEW i \in 1..n PROVE walk[i] = IF i = 1 THEN seqs[i] ELSE f[i - 1] \o seqs[i]
    <3>1. CASE i = 1
      <4> HIDE DEF n
      <4>0. i - 1 = 0
        BY <3>1
      <4>1. walk[i] = walk[i - 1] \o seqs[i] /\ walk[i - 1] = <<>> /\ seqs[i] \in Seq(S)
        BY <4>0, <1>1, <1>3, <1>4, <3>1
      <4> QED
        BY <3>1, <4>1
    <3>2. CASE i # 1
      <4>1. i - 1 \in 1..n
        BY <1>1, <3>2
      <4> QED
        BY <1>4, <3>2, <4>1
    <3> QED
      BY <3>1, <3>2
  <2> HIDE DEF n
  <2> QED
    BY <2>1
<1>6. Flat(flat)
  <2> HIDE DEF Flat
  <2> QED
    BY <1>5
<1>7. n # 0 => FlattenSeq(seqs) = flat[n]
  BY DEF FlattenSeq
<1> HIDE DEF flat
<1>8. CASE n # 0
  <2> DEFINE T == {i \in 0..n : i = 0 \/ flat[i] = walk[i]}
  <2>1. ASSUME NEW i \in 1..n, i - 1 \in T PROVE i \in T
    <3>1. flat[i] = IF i = 1 THEN seqs[i] ELSE flat[i - 1] \o seqs[i]
      <4> HIDE DEF n
      <4> QED
        BY <1>6
    <3>2. flat[i] = walk[i]
      <4>1. CASE i = 1
        <5> HIDE DEF n
        <5>0. i - 1 = 0
          BY <4>1
        <5>1. walk[i] = walk[i - 1] \o seqs[i] /\ walk[i - 1] = <<>> /\ seqs[i] \in Seq(S)
          BY <5>0, <1>1, <1>3, <1>4, <4>1
        <5> QED
          BY <3>1, <4>1, <5>1
      <4>2. CASE i # 1
        <5>1. flat[i - 1] = walk[i - 1]
          BY <2>1, <4>2
        <5> QED
          BY <1>4, <3>1, <4>2, <5>1
      <4> QED
        BY <4>1, <4>2
    <3> QED
      BY <1>4, <3>2
  <2>2. 0 \in T
    BY <1>1
  <2> HIDE DEF T, n
  <2>3. \A i \in 0..n : i \in T
    BY <1>1, <2>1, <2>2, UpTo, Zenon
  <2>4. n \in T
    BY <1>1, <2>3
  <2>5. flat[n] = walk[n]
    BY <1>8, <2>4 DEF T
  <2> QED
    BY <1>2, <1>7, <1>8, <2>5 DEF Fold, walk, n
<1>9. CASE n = 0
  <2>1. seqs = <<>>
    BY <1>9
  <2>2. FlattenSeq(seqs) = <<>>
    BY <1>9, <2>1 DEF FlattenSeq
  <2>3. Fold(op, <<>>, seqs) = walk[0]
    BY <1>9 DEF Fold, walk
  <2> QED
    BY <1>2, <1>3, <2>2, <2>3
<1> QED
  BY <1>8, <1>9

\* What FlattenSeq makes of no sequences, and of one more.
LEMMA FlattenSteps ==
  ASSUME NEW S
  PROVE  /\ FlattenSeq(<<>>) = <<>>
         /\ \A seqs \in Seq(Seq(S)) : FlattenSeq(seqs) \in Seq(S)
         /\ \A seqs \in Seq(Seq(S)), x \in Seq(S) :
              FlattenSeq(Append(seqs, x)) = FlattenSeq(seqs) \o x
<1> DEFINE A == Seq(S)
           op == Behind(S)
           none == <<>>
<1>1. none \in A /\ none \in Seq(A) /\ Moves(op, A, A)
  <2>1. none \in Seq(A) /\ none \in A
    OBVIOUS
  <2> HIDE DEF none
  <2> QED
    BY <2>1, FlattenIsWalk
<1>2. \A seqs \in Seq(A) : FlattenSeq(seqs) = Fold(op, none, seqs)
  BY FlattenIsWalk
<1>3. \A a, b \in A : op[a][b] = a \o b
  BY DEF Behind
<1>4. FlattenSeq(<<>>) = <<>>
  BY DEF FlattenSeq
<1> HIDE DEF A, op, none
<1>5. \A seqs \in Seq(A) : Fold(op, none, seqs) \in A
  BY <1>1, FoldSteps
<1>6. ASSUME NEW seqs \in Seq(A), NEW x \in A
      PROVE  FlattenSeq(Append(seqs, x)) = FlattenSeq(seqs) \o x
  <2>1. Append(seqs, x) \in Seq(A)
    OBVIOUS
  <2>2. Fold(op, none, Append(seqs, x)) = op[Fold(op, none, seqs)][x]
    BY <1>1, FoldSteps
  <2> QED
    BY <1>2, <1>3, <1>5, <2>1, <2>2
<1> QED
  BY <1>2, <1>4, <1>5, <1>6 DEF A

\* The pieces lead from each state of at to the next.
PiecesLead(op, S, A, piece, B, at) ==
  /\ piece \in [B -> Seq(A)] /\ at \in [Seq(B) -> S]
  /\ \A u \in Seq(B), c \in B : Fold(op, at[u], piece[c]) = at[Append(u, c)]

\* Then all the pieces of a sequence lead to the last.
LEMMA FoldPieces ==
  ASSUME NEW S, NEW A, NEW op, Moves(op, S, A),
         NEW B, NEW piece, NEW at, PiecesLead(op, S, A, piece, B, at), NEW t \in Seq(B)
  PROVE  /\ FlattenSeq([i \in DOMAIN t |-> piece[t[i]]]) \in Seq(A)
         /\ Fold(op, at[<<>>], FlattenSeq([i \in DOMAIN t |-> piece[t[i]]])) = at[t]
<1> DEFINE n == Len(t)
           Pieces(u) == [i \in DOMAIN u |-> piece[u[i]]]
           P(u) == FlattenSeq(Pieces(u)) \in Seq(A) /\ Fold(op, at[<<>>], FlattenSeq(Pieces(u))) = at[u]
           T == {k \in 0..n : P(SubSeq(t, 1, k))}
<1>0. /\ piece \in [B -> Seq(A)] /\ at \in [Seq(B) -> S]
      /\ \A u \in Seq(B), c \in B : Fold(op, at[u], piece[c]) = at[Append(u, c)]
  BY DEF PiecesLead
<1>1. n \in Nat /\ \A k \in 1..n : t[k] \in B
  OBVIOUS
<1>2. P(<<>>)
  <2>1. Pieces(<<>>) = <<>>
    OBVIOUS
  <2>2. <<>> \in Seq(A) /\ <<>> \in Seq(B)
    OBVIOUS
  <2> DEFINE s == at[<<>>]
  <2>3. s \in S
    BY <1>0, <2>2
  <2> HIDE DEF s
  <2>4. Fold(op, s, <<>>) = s /\ FlattenSeq(<<>>) = <<>>
    BY <2>3, FlattenSteps, FoldSteps
  <2> QED
    BY <2>1, <2>2, <2>4 DEF s
<1>3. ASSUME NEW u \in Seq(B), NEW c \in B, P(u) PROVE P(Append(u, c))
  <2>1. Pieces(u) \in Seq(Seq(A)) /\ piece[c] \in Seq(A)
    <3>1. Len(u) \in Nat /\ DOMAIN u = 1..Len(u) /\ \A i \in 1..Len(u) : u[i] \in B
      OBVIOUS
    <3>2. piece[c] \in Seq(A) /\ \A i \in 1..Len(u) : piece[u[i]] \in Seq(A)
      BY <1>0, <3>1
    <3> QED
      BY <3>1, <3>2
  <2>2. Pieces(Append(u, c)) = Append(Pieces(u), piece[c])
    OBVIOUS
  <2>3. FlattenSeq(Pieces(Append(u, c))) = FlattenSeq(Pieces(u)) \o piece[c]
    BY <2>1, <2>2, FlattenSteps
  <2> DEFINE flat == FlattenSeq(Pieces(u))
             x == piece[c]
             s == at[<<>>]
  <2>4. flat \in Seq(A) /\ x \in Seq(A) /\ s \in S /\ Fold(op, s, flat) = at[u]
    <3>1. <<>> \in Seq(B)
      OBVIOUS
    <3> QED
      BY <1>0, <1>3, <2>1, <3>1
  <2> HIDE DEF flat, x, s
  <2>5. Fold(op, s, flat \o x) = Fold(op, at[u], x) /\ flat \o x \in Seq(A)
    BY <2>4, FoldConcat
  <2>6. Fold(op, at[u], x) = at[Append(u, c)]
    BY <1>0 DEF x
  <2> QED
    BY <2>3, <2>5, <2>6 DEF flat, x, s
<1> HIDE DEF P
<1>4. /\ SubSeq(t, 1, 0) = <<>> /\ SubSeq(t, 1, n) = t
      /\ \A k \in 0..n : SubSeq(t, 1, k) \in Seq(B)
      /\ \A k \in 1..n : SubSeq(t, 1, k) = Append(SubSeq(t, 1, k - 1), t[k])
  BY SeqParts
<1>5. 0 \in T
  <2>1. 0 \in 0..n
    BY <1>1
  <2> QED
    BY <1>2, <1>4, <2>1
<1>6. ASSUME NEW k \in 1..n, k - 1 \in T PROVE k \in T
  <2>1. k - 1 \in 0..n /\ k \in 0..n /\ t[k] \in B /\ P(SubSeq(t, 1, k - 1))
    BY <1>1, <1>6
  <2> DEFINE u == SubSeq(t, 1, k - 1)
             c == t[k]
  <2>2. u \in Seq(B) /\ c \in B /\ P(u) /\ SubSeq(t, 1, k) = Append(u, c)
    BY <1>4, <2>1
  <2> HIDE DEF u, c
  <2>3. P(Append(u, c))
    BY <1>3, <2>2
  <2> QED
    BY <2>1, <2>2, <2>3
<1> HIDE DEF T
<1>7. \A k \in 0..n : k \in T
  BY <1>1, <1>5, <1>6, UpTo
<1>8. n \in T
  BY <1>1, <1>7
<1>9. P(t)
  BY <1>4, <1>8 DEF T
<1> QED
  BY <1>9 DEF P

\* Walking over one, two, four and six elements.
LEMMA FoldOne ==
  ASSUME NEW S, NEW A, NEW op, Moves(op, S, A), NEW s \in S,
         NEW a \in A
  PROVE  Fold(op, s, <<a>>) = op[s][a]
<1>0. /\ <<>> \in Seq(A) /\ Fold(op, s, <<>>) = s
      /\ \A t \in Seq(A), x \in A : Append(t, x) \in Seq(A) /\ Fold(op, s, Append(t, x)) = op[Fold(op, s, t)][x]
  <2>1. <<>> \in Seq(A) /\ \A t \in Seq(A), x \in A : Append(t, x) \in Seq(A)
    OBVIOUS
  <2> QED
    BY <2>1, FoldSteps
<1> DEFINE t0 == <<>>
           t1 == Append(t0, a)
<1>1. <<a>> = t1
  OBVIOUS
<1>2. t0 \in Seq(A) /\ Fold(op, s, t0) = s
  BY <1>0
<1> HIDE DEF t0
<1>3. t1 \in Seq(A) /\ Fold(op, s, t1) = op[Fold(op, s, t0)][a]
  BY <1>0, <1>2
<1> HIDE DEF t1
<1> QED
  BY <1>1, <1>2, <1>3

\* Two.
LEMMA FoldTwo ==
  ASSUME NEW S, NEW A, NEW op, Moves(op, S, A), NEW s \in S,
         NEW a \in A, NEW b \in A
  PROVE  Fold(op, s, <<a, b>>) = op[op[s][a]][b]
<1>0. /\ <<>> \in Seq(A) /\ Fold(op, s, <<>>) = s
      /\ \A t \in Seq(A), x \in A : Append(t, x) \in Seq(A) /\ Fold(op, s, Append(t, x)) = op[Fold(op, s, t)][x]
  <2>1. <<>> \in Seq(A) /\ \A t \in Seq(A), x \in A : Append(t, x) \in Seq(A)
    OBVIOUS
  <2> QED
    BY <2>1, FoldSteps
<1> DEFINE t0 == <<>>
           t1 == Append(t0, a)
           t2 == Append(t1, b)
<1>1. <<a, b>> = t2
  OBVIOUS
<1>2. t0 \in Seq(A) /\ Fold(op, s, t0) = s
  BY <1>0
<1> HIDE DEF t0
<1>3. t1 \in Seq(A) /\ Fold(op, s, t1) = op[Fold(op, s, t0)][a]
  BY <1>0, <1>2
<1> HIDE DEF t1
<1>4. t2 \in Seq(A) /\ Fold(op, s, t2) = op[Fold(op, s, t1)][b]
  BY <1>0, <1>3
<1> HIDE DEF t2
<1> QED
  BY <1>1, <1>2, <1>3, <1>4

\* Four.
Four(a, b, c, d) == <<a, b, c, d>>
FourMoves(op, s, a, b, c, d) == op[op[op[op[s][a]][b]][c]][d]
LEMMA FoldFour ==
  ASSUME NEW S, NEW A, NEW op, Moves(op, S, A), NEW s \in S,
         NEW a \in A, NEW b \in A, NEW c \in A, NEW d \in A
  PROVE  Fold(op, s, Four(a, b, c, d)) = FourMoves(op, s, a, b, c, d)
<1>0. /\ <<>> \in Seq(A) /\ Fold(op, s, <<>>) = s
      /\ \A t \in Seq(A), x \in A : Append(t, x) \in Seq(A) /\ Fold(op, s, Append(t, x)) = op[Fold(op, s, t)][x]
  <2>1. <<>> \in Seq(A) /\ \A t \in Seq(A), x \in A : Append(t, x) \in Seq(A)
    OBVIOUS
  <2> QED
    BY <2>1, FoldSteps
<1> DEFINE t0 == <<>>
           t1 == Append(t0, a)
           t2 == Append(t1, b)
           t3 == Append(t2, c)
           t4 == Append(t3, d)
<1>1. Four(a, b, c, d) = t4
  BY DEF Four
<1>2. t0 \in Seq(A) /\ Fold(op, s, t0) = s
  BY <1>0
<1> HIDE DEF t0
<1>3. t1 \in Seq(A) /\ Fold(op, s, t1) = op[Fold(op, s, t0)][a]
  BY <1>0, <1>2
<1> HIDE DEF t1
<1>4. t2 \in Seq(A) /\ Fold(op, s, t2) = op[Fold(op, s, t1)][b]
  BY <1>0, <1>3
<1> HIDE DEF t2
<1>5. t3 \in Seq(A) /\ Fold(op, s, t3) = op[Fold(op, s, t2)][c]
  BY <1>0, <1>4
<1> HIDE DEF t3
<1>6. t4 \in Seq(A) /\ Fold(op, s, t4) = op[Fold(op, s, t3)][d]
  BY <1>0, <1>5
<1> HIDE DEF t4
<1> QED
  BY <1>1, <1>2, <1>3, <1>4, <1>5, <1>6 DEF FourMoves

\* Six.
Six(a, b, c, d, e, f) == <<a, b, c, d, e, f>>
SixMoves(op, s, a, b, c, d, e, f) == op[op[op[op[op[op[s][a]][b]][c]][d]][e]][f]
LEMMA FoldSix ==
  ASSUME NEW S, NEW A, NEW op, Moves(op, S, A), NEW s \in S,
         NEW a \in A, NEW b \in A, NEW c \in A, NEW d \in A, NEW e \in A, NEW f \in A
  PROVE  Fold(op, s, Six(a, b, c, d, e, f)) = SixMoves(op, s, a, b, c, d, e, f)
<1>0. /\ <<>> \in Seq(A) /\ Fold(op, s, <<>>) = s
      /\ \A t \in Seq(A), x \in A : Append(t, x) \in Seq(A) /\ Fold(op, s, Append(t, x)) = op[Fold(op, s, t)][x]
  <2>1. <<>> \in Seq(A) /\ \A t \in Seq(A), x \in A : Append(t, x) \in Seq(A)
    OBVIOUS
  <2> QED
    BY <2>1, FoldSteps
<1> DEFINE t0 == <<>>
           t1 == Append(t0, a)
           t2 == Append(t1, b)
           t3 == Append(t2, c)
           t4 == Append(t3, d)
           t5 == Append(t4, e)
           t6 == Append(t5, f)
<1>1. Six(a, b, c, d, e, f) = t6
  BY DEF Six
<1>2. t0 \in Seq(A) /\ Fold(op, s, t0) = s
  BY <1>0
<1> HIDE DEF t0
<1>3. t1 \in Seq(A) /\ Fold(op, s, t1) = op[Fold(op, s, t0)][a]
  BY <1>0, <1>2
<1> HIDE DEF t1
<1>4. t2 \in Seq(A) /\ Fold(op, s, t2) = op[Fold(op, s, t1)][b]
  BY <1>0, <1>3
<1> HIDE DEF t2
<1>5. t3 \in Seq(A) /\ Fold(op, s, t3) = op[Fold(op, s, t2)][c]
  BY <1>0, <1>4
<1> HIDE DEF t3
<1>6. t4 \in Seq(A) /\ Fold(op, s, t4) = op[Fold(op, s, t3)][d]
  BY <1>0, <1>5
<1> HIDE DEF t4
<1>7. t5 \in Seq(A) /\ Fold(op, s, t5) = op[Fold(op, s, t4)][e]
  BY <1>0, <1>6
<1> HIDE DEF t5
<1>8. t6 \in Seq(A) /\ Fold(op, s, t6) = op[Fold(op, s, t5)][f]
  BY <1>0, <1>7
<1> HIDE DEF t6
<1> QED
  BY <1>1, <1>2, <1>3, <1>4, <1>5, <1>6, <1>7, <1>8 DEF SixMoves

\* Each element of B leads from a state of at to the next.
ElementsLead(op, S, A, B, at) ==
  /\ B \subseteq A /\ at \in [Seq(B) -> S]
  /\ \A u \in Seq(B), c \in B : op[at[u]][c] = at[Append(u, c)]

\* Then the elements of a sequence lead to the last.
LEMMA FoldAlong ==
  ASSUME NEW S, NEW A, NEW op, Moves(op, S, A),
         NEW B, NEW at, ElementsLead(op, S, A, B, at), NEW t \in Seq(B)
  PROVE  Fold(op, at[<<>>], t) = at[t]
<1> DEFINE n == Len(t)
           s == at[<<>>]
           P(u) == Fold(op, s, u) = at[u]
           T == {k \in 0..n : P(SubSeq(t, 1, k))}
<1>0. /\ B \subseteq A /\ at \in [Seq(B) -> S]
      /\ \A u \in Seq(B), c \in B : op[at[u]][c] = at[Append(u, c)]
  BY DEF ElementsLead
<1>1. n \in Nat /\ \A k \in 1..n : t[k] \in B
  OBVIOUS
<1>2. <<>> \in Seq(B)
  OBVIOUS
<1>3. s \in S
  BY <1>0, <1>2
<1>4. P(<<>>)
  <2> HIDE DEF s
  <2>1. Fold(op, s, <<>>) = s
    BY <1>3, FoldSteps
  <2> QED
    BY <2>1 DEF s
<1>5. ASSUME NEW u \in Seq(B), NEW c \in B, P(u) PROVE P(Append(u, c))
  <2>1. u \in Seq(A) /\ c \in A
    BY <1>0
  <2> HIDE DEF s
  <2>2. Fold(op, s, Append(u, c)) = op[Fold(op, s, u)][c]
    BY <1>3, <2>1, FoldSteps
  <2> QED
    BY <1>0, <1>5, <2>2
<1> HIDE DEF P
<1>6. /\ SubSeq(t, 1, 0) = <<>> /\ SubSeq(t, 1, n) = t
      /\ \A k \in 0..n : SubSeq(t, 1, k) \in Seq(B)
      /\ \A k \in 1..n : SubSeq(t, 1, k) = Append(SubSeq(t, 1, k - 1), t[k])
  BY SeqParts
<1>7. 0 \in T
  <2>1. 0 \in 0..n
    BY <1>1
  <2> QED
    BY <1>4, <1>6, <2>1
<1>8. ASSUME NEW k \in 1..n, k - 1 \in T PROVE k \in T
  <2>1. k - 1 \in 0..n /\ k \in 0..n /\ t[k] \in B /\ P(SubSeq(t, 1, k - 1))
    BY <1>1, <1>8
  <2> DEFINE u == SubSeq(t, 1, k - 1)
             c == t[k]
  <2>2. u \in Seq(B) /\ c \in B /\ P(u) /\ SubSeq(t, 1, k) = Append(u, c)
    BY <1>6, <2>1
  <2> HIDE DEF u, c
  <2>3. P(Append(u, c))
    BY <1>5, <2>2
  <2> QED
    BY <2>1, <2>2, <2>3
<1> HIDE DEF T
<1>9. \A k \in 0..n : k \in T
  BY <1>1, <1>7, <1>8, UpTo
<1>10. n \in T
  BY <1>1, <1>9
<1>11. P(t)
  BY <1>6, <1>10 DEF T
<1> QED
  BY <1>11 DEF P

-----------------------------------------------------------------------------
(* Putting sequences together *)

\* A function on the first numbers is a sequence.
LEMMA FunctionIsSeq ==
  ASSUME NEW A, NEW n \in Nat, NEW f \in [1..n -> A]
  PROVE  f \in Seq(A) /\ Len(f) = n /\ DOMAIN f = 1..n
  OBVIOUS

\* What grows by each sequence in turn is what they make together.
LEMMA FlattenIs ==
  ASSUME NEW S, NEW seqs \in Seq(Seq(S)), NEW at, at[0] = <<>>,
         \A k \in 1..Len(seqs) : at[k - 1] \in Seq(S) => at[k] = at[k - 1] \o seqs[k]
  PROVE  at[Len(seqs)] = FlattenSeq(seqs)
<1> DEFINE A == Seq(S)
           op == Behind(S)
           none == <<>>
           n == Len(seqs)
<1>1. Moves(op, A, A) /\ FlattenSeq(seqs) = Fold(op, none, seqs)
  BY FlattenIsWalk
<1>2. n \in Nat /\ none \in A /\ \A k \in 1..n : seqs[k] \in A
  OBVIOUS
<1>3. ASSUME NEW k \in 1..n, at[k - 1] \in A PROVE at[k] = op[at[k - 1]][seqs[k]]
  <2>1. seqs[k] \in A
    BY <1>2
  <2>2. at[k] = at[k - 1] \o seqs[k]
    BY <1>3
  <2>3. op[at[k - 1]][seqs[k]] = at[k - 1] \o seqs[k]
    BY <1>3, <2>1 DEF Behind
  <2> QED
    BY <2>2, <2>3
<1>4. at[0] = none /\ seqs \in Seq(A)
  OBVIOUS
<1>5. \A k \in 1..Len(seqs) : at[k - 1] \in A => at[k] = op[at[k - 1]][seqs[k]]
  BY <1>3
<1> HIDE DEF A, op, none
<1>6. \A k \in 0..Len(seqs) : at[k] = Walk(op, none, seqs)[k]
  BY <1>1, <1>2, <1>4, <1>5, WalkIs
<1> QED
  BY <1>1, <1>2, <1>6 DEF Fold

\* Two elements.
LEMMA Couple ==
  ASSUME NEW S, NEW a \in S, NEW b \in S
  PROVE  Append(<<a>>, b) = <<a, b>> /\ <<a>> \o <<b>> = <<a, b>>
<1>1. <<a, b>> = Append(<<a>>, b)
  OBVIOUS
<1>2. <<a>> \in Seq(S) /\ \A u \in Seq(S), x \in S : Append(u, x) = u \o <<x>>
  OBVIOUS
<1> QED
  BY <1>1, <1>2

\* The sequence of its own elements.
LEMMA FlattenSingles ==
  ASSUME NEW S, NEW s \in Seq(S)
  PROVE  FlattenSeq([i \in DOMAIN s |-> <<s[i]>>]) = s
<1> DEFINE seqs == [i \in DOMAIN s |-> <<s[i]>>]
           at == [k \in 0..Len(s) |-> SubSeq(s, 1, k)]
<1>1. Len(s) \in Nat /\ DOMAIN s = 1..Len(s) /\ \A k \in 1..Len(s) : s[k] \in S
  OBVIOUS
<1>2. seqs \in Seq(Seq(S)) /\ Len(seqs) = Len(s)
  <2> DEFINE A == Seq(S)
             n == Len(s)
  <2>1. \A i \in 1..n : <<s[i]>> \in A
    BY <1>1
  <2>2. n \in Nat /\ seqs = [i \in 1..n |-> <<s[i]>>]
    BY <1>1
  <2> HIDE DEF A, n, seqs
  <2>3. seqs \in [1..n -> A]
    BY <2>1, <2>2
  <2>4. seqs \in Seq(A) /\ Len(seqs) = n
    BY <2>2, <2>3, FunctionIsSeq
  <2> QED
    BY <2>4 DEF A, n
<1>3. at[0] = <<>> /\ at[Len(s)] = s
  BY <1>1, SeqParts
<1>4. ASSUME NEW k \in 1..Len(seqs) PROVE at[k] = at[k - 1] \o seqs[k]
  <2>1. k \in 0..Len(s) /\ k - 1 \in 0..Len(s) /\ k \in 1..Len(s)
    BY <1>1, <1>2
  <2>2. SubSeq(s, 1, k) = Append(SubSeq(s, 1, k - 1), s[k]) /\ SubSeq(s, 1, k - 1) \in Seq(S)
    BY <2>1, SeqParts
  <2>3. at[k] = SubSeq(s, 1, k) /\ at[k - 1] = SubSeq(s, 1, k - 1) /\ seqs[k] = <<s[k]>>
    BY <1>1, <2>1
  <2> HIDE DEF at, seqs
  <2>4. \A u \in Seq(S), x \in S : Append(u, x) = u \o <<x>>
    OBVIOUS
  <2> QED
    BY <1>1, <2>1, <2>2, <2>3, <2>4
<1> HIDE DEF at, seqs
<1>5. at[Len(seqs)] = FlattenSeq(seqs)
  BY <1>2, <1>3, <1>4, FlattenIs
<1> QED
  BY <1>2, <1>3, <1>5 DEF seqs

\* Concatenation of sequences is associative.
LEMMA ConcatMoves ==
  ASSUME NEW S
  PROVE  \A a, b, c \in Seq(S) : (a \o b) \o c = a \o (b \o c) /\ a \o b \in Seq(S)
  OBVIOUS

\* So is adding an element.
LEMMA AppendMoves ==
  ASSUME NEW A, NEW u \in Seq(A), NEW w \in Seq(A), NEW x \in A
  PROVE  u \o Append(w, x) = Append(u \o w, x) /\ u \o w \in Seq(A)
  OBVIOUS

\* Sequences of sequences, one after the other.
LEMMA FlattenConcat ==
  ASSUME NEW S, NEW u \in Seq(Seq(S)), NEW v \in Seq(Seq(S))
  PROVE  FlattenSeq(u \o v) = FlattenSeq(u) \o FlattenSeq(v)
<1> DEFINE n == Len(v)
           A == Seq(S)
           P(k) == FlattenSeq(u \o SubSeq(v, 1, k)) = FlattenSeq(u) \o FlattenSeq(SubSeq(v, 1, k))
           T == {k \in 0..n : P(k)}
<1>1. n \in Nat /\ \A k \in 1..n : v[k] \in A
  OBVIOUS
<1>2. /\ FlattenSeq(<<>>) = <<>>
      /\ \A w \in Seq(A) : FlattenSeq(w) \in A
      /\ \A w \in Seq(A), x \in A : FlattenSeq(Append(w, x)) = FlattenSeq(w) \o x
  BY FlattenSteps
<1>c. \A a, b, c \in A : (a \o b) \o c = a \o (b \o c) /\ a \o b \in A
  BY ConcatMoves
<1>3. 0 \in T
  <2>1. SubSeq(v, 1, 0) = <<>> /\ u \o <<>> = u
    OBVIOUS
  <2>2. FlattenSeq(u) \o <<>> = FlattenSeq(u)
    BY <1>2
  <2>3. P(0)
    BY <1>2, <2>1, <2>2
  <2> HIDE DEF P
  <2> QED
    BY <1>1, <2>3
<1>4. ASSUME NEW k \in 1..n, k - 1 \in T PROVE k \in T
  <2> DEFINE w == SubSeq(v, 1, k - 1)
             x == v[k]
  <2>1. k - 1 \in 0..n /\ P(k - 1)
    BY <1>4
  <2>2. w \in Seq(A) /\ SubSeq(v, 1, k) = Append(w, x) /\ x \in A
    BY <1>1, <2>1, SeqParts
  <2>3. FlattenSeq(u \o w) = FlattenSeq(u) \o FlattenSeq(w)
    BY <2>1
  <2> HIDE DEF w, x
  <2>4. u \o Append(w, x) = Append(u \o w, x) /\ u \o w \in Seq(A)
    <3> HIDE DEF A
    <3>1. u \in Seq(A)
      BY DEF A
    <3> QED
      BY <2>2, <3>1, AppendMoves
  <2>5. FlattenSeq(Append(u \o w, x)) = FlattenSeq(u \o w) \o x
    <3> DEFINE y == u \o w
    <3>1. y \in Seq(A)
      BY <2>4
    <3> HIDE DEF y
    <3>2. FlattenSeq(Append(y, x)) = FlattenSeq(y) \o x
      BY <1>2, <2>2, <3>1
    <3> QED
      BY <3>2 DEF y
  <2>6. FlattenSeq(u) \in A /\ FlattenSeq(w) \in A /\ FlattenSeq(Append(w, x)) = FlattenSeq(w) \o x
    BY <1>2, <2>2
  <2>7. (FlattenSeq(u) \o FlattenSeq(w)) \o x = FlattenSeq(u) \o (FlattenSeq(w) \o x)
    <3> DEFINE p == FlattenSeq(u)
               q == FlattenSeq(w)
    <3>1. p \in A /\ q \in A /\ x \in A
      BY <2>2, <2>6
    <3> HIDE DEF p, q, A
    <3>2. (p \o q) \o x = p \o (q \o x)
      BY <3>1, <1>c
    <3> QED
      BY <3>2 DEF p, q
  <2>8. P(k)
    BY <2>2, <2>3, <2>4, <2>5, <2>6, <2>7
  <2> HIDE DEF P
  <2> QED
    BY <1>1, <2>8
<1>5. \A k \in 0..n : k \in T
  <2> HIDE DEF T
  <2> QED
    BY <1>1, <1>3, <1>4, UpTo, Zenon
<1>6. n \in T
  BY <1>1, <1>5
<1>7. P(n) /\ SubSeq(v, 1, n) = v
  BY <1>6, SeqParts
<1> QED
  BY <1>7

\* n sequences with something between them, in front of the next or behind the last.
Separates(S, n, a, sep, before, after) ==
  /\ n \in Nat
  /\ a \in [1..n -> Seq(S)]
  /\ sep \in [1..n -> Seq(S)]
  /\ n > 0 => sep[1] = <<>>
  /\ before = [i \in 1..n |-> sep[i] \o a[i]]
  /\ after = [i \in 1..n |-> IF i < n THEN a[i] \o sep[i + 1] ELSE a[i]]

\* What stands between two sequences may be counted to the one after it or to the one
\* before it.
LEMMA Separated ==
  ASSUME NEW S, NEW n, NEW a, NEW sep, NEW before, NEW after, Separates(S, n, a, sep, before, after)
  PROVE  FlattenSeq(before) = FlattenSeq(after)
<1>0. /\ n \in Nat
      /\ a \in [1..n -> Seq(S)]
      /\ sep \in [1..n -> Seq(S)]
      /\ n > 0 => sep[1] = <<>>
      /\ before = [i \in 1..n |-> sep[i] \o a[i]]
      /\ after = [i \in 1..n |-> IF i < n THEN a[i] \o sep[i + 1] ELSE a[i]]
  BY DEF Separates
<1> USE <1>0
<1> DEFINE upto(k) == FlattenSeq(SubSeq(before, 1, k))
           at == [k \in 0..n |-> IF k < n THEN upto(k) \o sep[k + 1] ELSE upto(k)]
           A == Seq(S)
<1>c. \A x, y, z \in A : (x \o y) \o z = x \o (y \o z) /\ x \o y \in A
  BY ConcatMoves
<1>1. \A i \in 1..n : a[i] \in A /\ sep[i] \in A /\ (i < n => sep[i + 1] \in A)
  <2> HIDE DEF A
  <2>1. a \in [1..n -> A] /\ sep \in [1..n -> A]
    BY DEF A
  <2>2. \A i \in 1..n : i < n => i + 1 \in 1..n
    OBVIOUS
  <2> QED
    BY <2>1, <2>2
<1>2. \A x, y \in A : x \o y \in A
  OBVIOUS
<1>3. \A i \in 1..n : before[i] \in A /\ after[i] \in A
  <2> HIDE DEF A
  <2> QED
    BY <1>1, <1>2
<1>4. before \in Seq(A) /\ Len(before) = n /\ after \in Seq(A) /\ Len(after) = n
  <2> HIDE DEF A
  <2>1. before \in [1..n -> A] /\ after \in [1..n -> A]
    BY <1>3
  <2> QED
    BY <2>1, FunctionIsSeq
<1>5. /\ SubSeq(before, 1, 0) = <<>> /\ SubSeq(before, 1, n) = before
      /\ \A k \in 0..n : SubSeq(before, 1, k) \in Seq(A)
      /\ \A k \in 1..n : SubSeq(before, 1, k) = Append(SubSeq(before, 1, k - 1), before[k])
  BY <1>4, SeqParts
<1>6. /\ upto(0) = <<>>
      /\ \A k \in 0..n : upto(k) \in A
  BY <1>5, FlattenSteps
<1>7. ASSUME NEW k \in 1..n PROVE upto(k) = upto(k - 1) \o (sep[k] \o a[k])
  <2> DEFINE u == SubSeq(before, 1, k - 1)
             x == before[k]
  <2>0. k - 1 \in 0..n
    OBVIOUS
  <2>1. u \in Seq(A) /\ x \in A /\ SubSeq(before, 1, k) = Append(u, x)
    <3> HIDE DEF A
    <3> QED
      BY <1>3, <1>5, <2>0
  <2>2. x = sep[k] \o a[k]
    OBVIOUS
  <2> HIDE DEF u, x
  <2>3. FlattenSeq(Append(u, x)) = FlattenSeq(u) \o x
    BY <2>1, FlattenSteps
  <2> QED
    BY <2>1, <2>2, <2>3 DEF u
<1> HIDE DEF upto
<1>8. at[0] = <<>>
  <2>1. <<>> \o <<>> = <<>>
    OBVIOUS
  <2> QED
    BY <1>6, <2>1
<1>9. ASSUME NEW k \in 1..n PROVE at[k] = at[k - 1] \o after[k]
  <2>1. k - 1 \in 0..n /\ k \in 0..n /\ k - 1 < n /\ k - 1 + 1 = k
    OBVIOUS
  <2>2. at[k - 1] = upto(k - 1) \o sep[k]
    BY <2>1
  <2> DEFINE u == upto(k - 1)
             b == sep[k]
             c == a[k]
             d == sep[k + 1]
  <2>3. u \in A /\ b \in A /\ c \in A /\ (k < n => d \in A)
    BY <1>1, <1>6, <2>1
  <2>4. upto(k) = u \o (b \o c)
    BY <1>7
  <2>5. CASE k < n
    <3>1. at[k] = upto(k) \o d /\ after[k] = c \o d
      BY <2>1, <2>5
    <3>2. at[k - 1] = u \o b
      BY <2>2
    <3> HIDE DEF at, u, b, c, d, A
    <3>3. (u \o (b \o c)) \o d = (u \o b) \o (c \o d)
      <4>1. (u \o b) \o c = u \o (b \o c) /\ u \o b \in A
        BY <2>3, <1>c
      <4> DEFINE y == u \o b
      <4>2. y \in A
        BY <4>1
      <4> HIDE DEF y
      <4>3. (y \o c) \o d = y \o (c \o d)
        BY <2>3, <2>5, <4>2, <1>c
      <4> QED
        BY <4>1, <4>3 DEF y
    <3> QED
      BY <2>4, <3>1, <3>2, <3>3
  <2>6. CASE ~ k < n
    <3>1. at[k] = upto(k) /\ after[k] = c
      BY <2>1, <2>6
    <3>2. at[k - 1] = u \o b
      BY <2>2
    <3> HIDE DEF at, u, b, c, d, A
    <3>3. u \o (b \o c) = (u \o b) \o c
      <4>1. (u \o b) \o c = u \o (b \o c) /\ u \o b \in A
        BY <2>3, <1>c
      <4> QED
        BY <4>1, Zenon
    <3> QED
      BY <2>4, <3>1, <3>2, <3>3
  <2> QED
    BY <2>5, <2>6
<1>10. at[n] = upto(n)
  OBVIOUS
<1> HIDE DEF at
<1>11. at[Len(after)] = FlattenSeq(after)
  BY <1>4, <1>8, <1>9, FlattenIs
<1>12. FlattenSeq(before) = FlattenSeq(after)
  BY <1>4, <1>5, <1>10, <1>11 DEF upto
<1> QED
  BY <1>12
=============================================================================
