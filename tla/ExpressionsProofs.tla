------------------------- MODULE ExpressionsProofs -------------------------
(***************************************************************************)
(* Proofs about Expressions: for every set of calls and every expression,  *)
(* placeholders are numbered without gaps, an attribute keeps the one it   *)
(* has, a request defines exactly the placeholders it uses, what one call  *)
(* returned keeps its meaning under the maps a later one returns, a sort   *)
(* key is compared with values of its type, suggestions are accepted, and  *)
(* what a request says, its placeholders replaced, is what was written.    *)
(***************************************************************************)
EXTENDS Expressions, Recursion, FiniteSetTheorems

-----------------------------------------------------------------------------
(* Maps numbered from 0 *)

Numbered(f) == \E n \in Nat : DOMAIN f = 0..n - 1
Next0(f) == Cardinality(DOMAIN f)

\* The size of a numbered map is the first free number, as the code assumes of len().
LEMMA NumberedCount ==
  ASSUME NEW f, Numbered(f)
  PROVE  /\ Next0(f) \in Nat
         /\ DOMAIN f = 0..Next0(f) - 1
         /\ Prefix(f)
<1>1. PICK n \in Nat : DOMAIN f = 0..n - 1
  BY DEF Numbered
<1>2. Cardinality(0..n - 1) = n
  <2>1. 0 \in Int /\ n - 1 \in Int
    OBVIOUS
  <2>2. Cardinality(0..n - 1) = IF 0 > n - 1 THEN 0 ELSE n - 1 - 0 + 1
    BY <2>1, FS_Interval
  <2> QED
    BY <2>2
<1> QED
  BY <1>1, <1>2 DEF Next0, Prefix

\* A new entry takes the first free number, and the old ones stay.
LEMMA NumberedInsert ==
  ASSUME NEW f, NEW v, Numbered(f)
  PROVE  LET g == Insert(f, Next0(f), v)
         IN /\ Numbered(g)
            /\ DOMAIN g = DOMAIN f \cup {Next0(f)}
            /\ Next0(f) \notin DOMAIN f
            /\ g[Next0(f)] = v
            /\ \A r \in DOMAIN f : g[r] = f[r]
<1> DEFINE n == Next0(f)
           g == Insert(f, n, v)
<1>1. n \in Nat /\ DOMAIN f = 0..n - 1
  BY NumberedCount
<1> HIDE DEF n
<1>2. DOMAIN g = DOMAIN f \cup {n}
  BY DEF Insert
<1>3. 0..n - 1 \cup {n} = 0..(n + 1) - 1
  BY <1>1
<1>4. Numbered(g)
  BY <1>1, <1>2, <1>3 DEF Numbered
<1>5. n \notin DOMAIN f
  BY <1>1
<1>6. g[n] = v /\ \A r \in DOMAIN f : g[r] = f[r]
  BY <1>2, <1>5 DEF Insert
<1> QED
  BY <1>2, <1>4, <1>5, <1>6 DEF n

\* The maps of a new parser are numbered.
LEMMA NumberedEmpty == Numbered(NoNames) /\ Numbered(NoValues)
<1>1. DOMAIN NoNames = 0..0 - 1 /\ DOMAIN NoValues = 0..0 - 1
  BY DEF NoNames, NoValues
<1> QED
  BY <1>1 DEF Numbered

-----------------------------------------------------------------------------
(* The placeholders in an expression *)

IsSeq(s) == \E S : s \in Seq(S)

\* What Append does, for a sequence over any set.
LEMMA AppendIsSeq ==
  ASSUME NEW s, NEW x, IsSeq(s)
  PROVE  /\ IsSeq(Append(s, x))
         /\ Len(Append(s, x)) = Len(s) + 1
         /\ Len(s) \in Nat
         /\ DOMAIN s = 1..Len(s)
         /\ DOMAIN Append(s, x) = 1..Len(s) + 1
         /\ Append(s, x)[Len(s) + 1] = x
         /\ \A i \in DOMAIN s : Append(s, x)[i] = s[i]
<1>1. PICK S : s \in Seq(S)
  BY DEF IsSeq
<1>2. s \in Seq(S \cup {x}) /\ x \in S \cup {x}
  BY <1>1
<1>3. Append(s, x) \in Seq(S \cup {x})
  BY <1>2
<1> QED
  BY <1>2, <1>3 DEF IsSeq

\* A token adds its own placeholder.
LEMMA RefsAppend ==
  ASSUME NEW s, NEW t, NEW kind, IsSeq(s)
  PROVE  Refs(Append(s, t), kind) = Refs(s, kind) \cup (IF t.kind = kind THEN {t.ref} ELSE {})
<1> DEFINE e == Append(s, t)
           n == Len(s)
<1>1. /\ n \in Nat
      /\ DOMAIN s = 1..n
      /\ DOMAIN e = 1..n + 1
      /\ e[n + 1] = t
      /\ \A i \in DOMAIN s : e[i] = s[i]
  BY AppendIsSeq
<1> HIDE DEF e, n
<1>2. ASSUME NEW r PROVE r \in Refs(e, kind) <=> \E i \in DOMAIN e : e[i].kind = kind /\ e[i].ref = r
  BY DEF Refs
<1>3. ASSUME NEW r PROVE r \in Refs(s, kind) <=> \E i \in DOMAIN s : s[i].kind = kind /\ s[i].ref = r
  BY DEF Refs
<1>4. DOMAIN e = DOMAIN s \cup {n + 1}
  BY <1>1
<1>5. ASSUME NEW r
      PROVE r \in Refs(e, kind) <=> (r \in Refs(s, kind) \/ (t.kind = kind /\ t.ref = r))
  BY <1>1, <1>2, <1>3, <1>4
<1> QED
  BY <1>5 DEF e

\* The empty expression has none.
LEMMA RefsEmpty == ASSUME NEW kind PROVE Refs(<<>>, kind) = {}
  BY DEF Refs

\* Two expressions put together use the placeholders of both.
LEMMA RefsConcat ==
  ASSUME NEW s, NEW t, NEW kind, IsSeq(s), IsSeq(t)
  PROVE  /\ IsSeq(s \o t)
         /\ Refs(s \o t, kind) = Refs(s, kind) \cup Refs(t, kind)
<1>1. PICK S : s \in Seq(S)
  BY DEF IsSeq
<1>2. PICK T : t \in Seq(T)
  BY DEF IsSeq
<1>3. s \in Seq(S \cup T) /\ t \in Seq(S \cup T)
  BY <1>1, <1>2
<1> DEFINE e == s \o t
           m == Len(s)
           n == Len(t)
<1>4. /\ e \in Seq(S \cup T)
      /\ m \in Nat /\ DOMAIN s = 1..m
      /\ n \in Nat /\ DOMAIN t = 1..n
      /\ DOMAIN e = 1..m + n
      /\ \A i \in 1..m : e[i] = s[i]
      /\ \A i \in 1..n : e[m + i] = t[i]
  BY <1>3
<1> HIDE DEF e, m, n
<1>5. ASSUME NEW r PROVE r \in Refs(e, kind) <=> \E i \in DOMAIN e : e[i].kind = kind /\ e[i].ref = r
  BY DEF Refs
<1>6. ASSUME NEW r PROVE r \in Refs(s, kind) <=> \E i \in DOMAIN s : s[i].kind = kind /\ s[i].ref = r
  BY DEF Refs
<1>7. ASSUME NEW r PROVE r \in Refs(t, kind) <=> \E i \in DOMAIN t : t[i].kind = kind /\ t[i].ref = r
  BY DEF Refs
<1>8. ASSUME NEW i \in DOMAIN e
      PROVE  \/ i \in DOMAIN s /\ e[i] = s[i]
             \/ i - m \in DOMAIN t /\ e[i] = t[i - m]
  <2>1. CASE i <= m
    BY <1>4, <2>1
  <2>2. CASE ~ i <= m
    <3>1. i - m \in 1..n /\ m + (i - m) = i
      BY <1>4, <2>2
    <3> QED
      BY <1>4, <3>1
  <2> QED
    BY <2>1, <2>2
<1>9. ASSUME NEW r, r \in Refs(e, kind) PROVE r \in Refs(s, kind) \cup Refs(t, kind)
  BY <1>5, <1>6, <1>7, <1>8, <1>9
<1>10. ASSUME NEW r, r \in Refs(s, kind) PROVE r \in Refs(e, kind)
  <2>1. PICK i \in 1..m : s[i].kind = kind /\ s[i].ref = r
    BY <1>4, <1>6, <1>10
  <2>2. i \in DOMAIN e /\ e[i] = s[i]
    BY <1>4
  <2> QED
    BY <1>5, <2>1, <2>2
<1>11. ASSUME NEW r, r \in Refs(t, kind) PROVE r \in Refs(e, kind)
  <2>1. PICK i \in 1..n : t[i].kind = kind /\ t[i].ref = r
    BY <1>4, <1>7, <1>11
  <2>2. m + i \in DOMAIN e /\ e[m + i] = t[i]
    BY <1>4
  <2> QED
    BY <1>5, <2>1, <2>2
<1>12. Refs(e, kind) = Refs(s, kind) \cup Refs(t, kind)
  BY <1>9, <1>10, <1>11
<1> QED
  BY <1>4, <1>12 DEF IsSeq, e

\* What Tail does, for a sequence over any set.
LEMMA TailIsSeq ==
  ASSUME NEW s, IsSeq(s), s # <<>>
  PROVE  /\ IsSeq(Tail(s))
         /\ Len(s) \in Nat \ {0}
         /\ DOMAIN s = 1..Len(s)
         /\ 1 \in DOMAIN s
         /\ Head(s) = s[1]
         /\ Len(Tail(s)) = Len(s) - 1
         /\ \A i \in DOMAIN Tail(s) : i + 1 \in DOMAIN s /\ Tail(s)[i] = s[i + 1]
         /\ Len(s) = 1 => Tail(s) = <<>>
<1>1. PICK S : s \in Seq(S)
  BY DEF IsSeq
<1>2. Tail(s) \in Seq(S)
  BY <1>1
<1>3. Len(s) \in Nat \ {0} /\ DOMAIN s = 1..Len(s) /\ Head(s) = s[1]
  BY <1>1
<1>4. Len(Tail(s)) = Len(s) - 1 /\ DOMAIN Tail(s) = 1..Len(s) - 1
  BY <1>1, <1>2
<1>5. \A i \in DOMAIN Tail(s) : i + 1 \in DOMAIN s /\ Tail(s)[i] = s[i + 1]
  BY <1>1, <1>3, <1>4
<1>6. Len(s) = 1 => Tail(s) = <<>>
  BY <1>2, <1>4
<1> QED
  BY <1>2, <1>3, <1>4, <1>5, <1>6 DEF IsSeq

-----------------------------------------------------------------------------
(* The steps, by what they do to the expression and to the results *)

\* base defines what it uses.
BaseOK == /\ IsSeq(base.exp)
          /\ DOMAIN base.names = Refs(base.exp, "name")
          /\ DOMAIN base.values = Refs(base.exp, "value")

BaseChanges == base' = base \/ (Head(calls).kind \in Alone /\ BaseOK')

Begins == /\ ~busy
          /\ calls # <<>>
          /\ \E n \in Trees(Head(calls)) : work' = <<n>>
          /\ busy' = TRUE
          /\ BaseChanges
          /\ UNCHANGED <<calls, parser, out, results>>

Complete(r) == /\ IsSeq(r.exp)
               /\ DOMAIN r.names = Refs(r.exp, "name")
               /\ DOMAIN r.values = Refs(r.exp, "value")

\* A call returns without a tree: it fails, or it needs no parser.
Answers == /\ ~busy
           /\ calls # <<>>
           /\ calls' = Tail(calls)
           /\ \E r : /\ results' = Append(results, r)
                     /\ \/ ~r.ok /\ r.exp = <<>>
                        \/ Head(calls).kind \in Alone /\ Complete(r)
           /\ BaseChanges
           /\ UNCHANGED <<parser, work, out, busy>>

HeadCall == calls # <<>> => WellFormed(Head(calls))

\* A sort key condition begins a tree or is answered with a failure.
LEMMA SortKeySteps ==
  ASSUME NEW w, NEW key, NEW strict, SortKey(w, key, strict), ~busy, calls # <<>>,
         Condition(w, key.type, strict) # Rejected =>
           ConditionNode(Condition(w, key.type, strict), key.name) \in Trees(Head(calls)),
         BaseChanges, UNCHANGED <<parser, out>>
  PROVE  Begins \/ Answers
<1> DEFINE c == Condition(w, key.type, strict)
           s == IF strict THEN Suggestion(w, key.type) ELSE Rejected
<1>1. CASE c = Rejected /\ Fails(s) /\ calls' = Tail(calls) /\ UNCHANGED <<work, busy>>
  <2> DEFINE r == [call |-> Head(calls), ok |-> FALSE, exp |-> <<>>,
                   names |-> NoNames, values |-> NoValues, suggest |-> s]
  <2>1. results' = Append(results, r) /\ ~r.ok /\ r.exp = <<>>
    BY <1>1 DEF Fails, Returned
  <2> HIDE DEF r
  <2> QED
    BY <1>1, <2>1 DEF Answers, parser
<1>2. CASE c # Rejected /\ Starts(ConditionNode(c, key.name)) /\ UNCHANGED <<calls, results>>
  BY <1>2 DEF Begins, Starts, parser
<1> QED
  BY <1>1, <1>2 DEF SortKey

\* The condition on the partition key.
QueryBase(t, v) ==
  [exp |-> <<NameRef(Pk), Written("="), ValueRef(Pk)>>,
   names |-> [r \in {Pk} |-> t.pk.name],
   values |-> [r \in {Pk} |-> [type |-> t.pk.type, text |-> v]]]

\* It defines the two placeholders it uses.
LEMMA QueryBaseComplete ==
  ASSUME NEW t, NEW v
  PROVE  Complete(QueryBase(t, v))
<1> DEFINE e == <<NameRef(Pk), Written("="), ValueRef(Pk)>>
<1>1. /\ DOMAIN e = 1..3
      /\ e[1] = NameRef(Pk) /\ e[2] = Written("=") /\ e[3] = ValueRef(Pk)
  OBVIOUS
<1>2. e \in Seq({NameRef(Pk), Written("="), ValueRef(Pk)})
  OBVIOUS
<1>3. /\ e[1].kind = "name" /\ e[1].ref = Pk
      /\ e[2].kind = "text"
      /\ e[3].kind = "value" /\ e[3].ref = Pk
  BY <1>1 DEF NameRef, Written, ValueRef
<1> HIDE DEF e
<1>4. 1..3 = {1, 2, 3}
  OBVIOUS
<1>5. Refs(e, "name") = {Pk}
  BY <1>1, <1>3, <1>4 DEF Refs
<1>6. Refs(e, "value") = {Pk}
  BY <1>1, <1>3, <1>4 DEF Refs
<1>7. QueryBase(t, v).exp = e
  BY DEF QueryBase, e
<1>8. DOMAIN QueryBase(t, v).names = {Pk} /\ DOMAIN QueryBase(t, v).values = {Pk}
  BY DEF QueryBase
<1> QED
  BY <1>2, <1>5, <1>6, <1>7, <1>8 DEF Complete, IsSeq

\* An update begins its tree.
LEMMA UpdateSteps == ASSUME Update PROVE Begins
<1>1. Head(calls).tree \in Trees(Head(calls))
  BY DEF Update, Trees
<1> QED
  BY <1>1 DEF Update, Begins, Starts, BaseChanges, parser

\* A sort key condition alone.
LEMMA SortSteps == ASSUME Sort PROVE Begins \/ Answers
<1> DEFINE c == Head(calls)
<1>1. /\ ~busy /\ calls # <<>> /\ c.kind = "sort"
      /\ SortKey(c.written, c.key, c.strict)
      /\ UNCHANGED <<parser, base, out>>
  BY DEF Sort
<1>2. Trees(c) = {ConditionNode(x, c.key.name) :
                    x \in {Condition(c.written, c.key.type, c.strict)} \ {Rejected}}
  BY <1>1 DEF Trees
<1>3. Condition(c.written, c.key.type, c.strict) # Rejected =>
        ConditionNode(Condition(c.written, c.key.type, c.strict), c.key.name) \in Trees(c)
  BY <1>2
<1>4. BaseChanges
  BY <1>1 DEF BaseChanges
<1> HIDE DEF c
<1>5. SortKey(c.written, c.key, c.strict) /\ UNCHANGED <<parser, out>>
  BY <1>1
<1> QED
  BY <1>1, <1>3, <1>4, <1>5, SortKeySteps DEF c

\* A query fails, is answered, or begins the tree of its sort key condition.
LEMMA QuerySteps == ASSUME Query PROVE Begins \/ Answers
<1> DEFINE c == Head(calls)
           targets == Targets(c.schema, c.index)
<1>1. ~busy /\ calls # <<>> /\ c.kind = "query" /\ UNCHANGED <<parser, out>>
  BY DEF Query
<1>2. CASE /\ Fails(Rejected)
           /\ calls' = Tail(calls)
           /\ UNCHANGED <<base, work, busy>>
  <2> DEFINE r == [call |-> Head(calls), ok |-> FALSE, exp |-> <<>>,
                   names |-> NoNames, values |-> NoValues, suggest |-> Rejected]
  <2>1. results' = Append(results, r) /\ ~r.ok /\ r.exp = <<>>
    BY <1>2 DEF Fails, Returned
  <2> HIDE DEF r
  <2> QED
    BY <1>1, <1>2, <2>1 DEF Answers, BaseChanges, parser
<1>3. ASSUME NEW t \in targets,
             base' = QueryBase(t, c.pval),
             \/ /\ c.sort = <<>>
                /\ Succeeds(base'.exp, base'.names, base'.values)
                /\ calls' = Tail(calls)
                /\ UNCHANGED <<work, busy>>
             \/ /\ c.sort # <<>>
                /\ t.sk # <<>>
                /\ SortKey(c.sort[1], t.sk[1], c.strict)
      PROVE  Begins \/ Answers
  <2>1. BaseChanges
    BY <1>1, <1>3, QueryBaseComplete DEF BaseChanges, BaseOK, Complete, Alone
  <2>2. CASE /\ Succeeds(base'.exp, base'.names, base'.values)
             /\ calls' = Tail(calls)
             /\ UNCHANGED <<work, busy>>
    <3> DEFINE b == QueryBase(t, c.pval)
               r == [call |-> Head(calls), ok |-> TRUE, exp |-> b.exp,
                     names |-> b.names, values |-> b.values, suggest |-> Rejected]
    <3>1. results' = Append(results, r)
      BY <1>3, <2>2 DEF Succeeds, Returned
    <3>2. r.exp = b.exp /\ r.names = b.names /\ r.values = b.values
      OBVIOUS
    <3>3. Complete(r)
      BY <3>2, QueryBaseComplete DEF Complete
    <3>4. Head(calls).kind \in Alone
      BY <1>1 DEF Alone
    <3> HIDE DEF r
    <3> QED
      BY <1>1, <2>1, <2>2, <3>1, <3>3, <3>4 DEF Answers, parser
  <2>3. CASE c.sort # <<>> /\ t.sk # <<>> /\ SortKey(c.sort[1], t.sk[1], c.strict)
    <3> DEFINE x == Condition(c.sort[1], t.sk[1].type, c.strict)
    <3>1. Trees(c) = UNION {{ConditionNode(y, u.sk[1].name) :
                               y \in {Condition(c.sort[1], u.sk[1].type, c.strict)} \ {Rejected}} :
                            u \in {z \in Targets(c.schema, c.index) : c.sort # <<>> /\ z.sk # <<>>}}
      BY <1>1 DEF Trees
    <3>2. t \in {z \in Targets(c.schema, c.index) : c.sort # <<>> /\ z.sk # <<>>}
      BY <1>3, <2>3
    <3>3. ASSUME x # Rejected
          PROVE  ConditionNode(x, t.sk[1].name) \in
                   {ConditionNode(y, t.sk[1].name) : y \in {x} \ {Rejected}}
      BY <3>3
    <3>4. x # Rejected => ConditionNode(x, t.sk[1].name) \in Trees(c)
      BY <3>1, <3>2, <3>3
    <3> HIDE DEF targets
    <3> QED
      BY <1>1, <2>1, <2>3, <3>4, SortKeySteps
  <2> QED
    BY <1>3, <2>2, <2>3
<1> QED
  BY <1>2, <1>3 DEF Query, QueryBase

\* A projection: the keys under refs, the other m attributes from 0.
LEMMA ProjectionRefs ==
  ASSUME NEW n \in Nat, NEW m \in Nat, NEW refs, DOMAIN refs = 1..n
  PROVE  LET e == [i \in 1..n + m |-> NameRef(IF i <= n THEN refs[i] ELSE i - n - 1)]
         IN /\ IsSeq(e)
            /\ Refs(e, "name") = Range(refs) \cup 0..m - 1
            /\ Refs(e, "value") = {}
<1> DEFINE ref(i) == IF i <= n THEN refs[i] ELSE i - n - 1
           e == [i \in 1..n + m |-> NameRef(ref(i))]
<1>1. n + m \in Nat
  OBVIOUS
<1>2. DOMAIN e = 1..n + m
  OBVIOUS
<1>3. \A i \in 1..n + m : e[i].kind = "name" /\ e[i].ref = ref(i)
  BY DEF NameRef
<1>4. IsSeq(e)
  <2>1. e \in [1..n + m -> {NameRef(ref(i)) : i \in 1..n + m}]
    OBVIOUS
  <2>2. e \in Seq({NameRef(ref(i)) : i \in 1..n + m})
    BY <1>1, <2>1, SeqDef
  <2> QED
    BY <2>2 DEF IsSeq
<1> HIDE DEF e
<1>5. Refs(e, "value") = {}
  BY <1>2, <1>3 DEF Refs
<1>6. ASSUME NEW i \in 1..n + m PROVE ref(i) \in Range(refs) \cup 0..m - 1
  <2>1. CASE i <= n
    BY <2>1 DEF Range
  <2>2. CASE ~ i <= n
    BY <2>2
  <2> QED
    BY <2>1, <2>2
<1>7. ASSUME NEW r \in Range(refs) \cup 0..m - 1 PROVE \E i \in 1..n + m : ref(i) = r
  <2>1. CASE r \in Range(refs)
    <3>1. PICK i \in 1..n : refs[i] = r
      BY <2>1 DEF Range
    <3>2. i \in 1..n + m /\ ref(i) = r
      BY <3>1
    <3> QED
      BY <3>2
  <2>2. CASE r \in 0..m - 1
    <3> DEFINE i == r + n + 1
    <3>1. i \in 1..n + m /\ ~(i <= n) /\ i - n - 1 = r
      BY <2>2
    <3> HIDE DEF i
    <3>2. ref(i) = i - n - 1
      BY <3>1
    <3> QED
      BY <3>1, <3>2
  <2> QED
    BY <2>1, <2>2
<1> HIDE DEF ref
<1>8. Refs(e, "name") = {ref(i) : i \in 1..n + m}
  BY <1>2, <1>3 DEF Refs
<1>9. Refs(e, "name") = Range(refs) \cup 0..m - 1
  BY <1>6, <1>7, <1>8
<1> QED
  BY <1>4, <1>5, <1>9 DEF e, ref

\* The attributes of the option that are no keys, one after the other.
LEMMA ProjectedType ==
  ASSUME NEW S, NEW schema, NEW attributes \in Seq(S)
  PROVE  Projected(schema, attributes) \in Seq(S)
<1> DEFINE n == Len(attributes)
           A == Seq(S)
           piece == [i \in DOMAIN attributes |->
                       IF attributes[i] \in ToSet(KeysOf(schema)) THEN <<>> ELSE <<attributes[i]>>]
<1>1. n \in Nat /\ DOMAIN attributes = 1..n /\ \A i \in 1..n : attributes[i] \in S
  OBVIOUS
<1>2. <<>> \in A /\ \A x \in S : <<x>> \in A
  OBVIOUS
<1> HIDE DEF A, n
<1>3. piece \in [1..n -> A]
  BY <1>1, <1>2
<1> HIDE DEF piece
<1>4. piece \in Seq(A)
  BY <1>1, <1>3, FunctionIsSeq
<1>5. FlattenSeq(piece) \in A
  BY <1>4, FlattenSteps DEF A
<1> QED
  BY <1>5 DEF A, piece, Projected

\* A scan is answered with a projection that defines what it uses.
LEMMA ScanSteps == ASSUME Scan, HeadCall PROVE Answers
<1> DEFINE c == Head(calls)
           keys == <<c.schema.pk>> \o c.schema.sk
           n == Len(keys)
           refs == SubSeq(<<Pk, Sk>>, 1, n)
           rest == Projected(c.schema, c.attributes)
           m == Len(rest)
           e == [i \in 1..n + m |-> NameRef(IF i <= n THEN refs[i] ELSE i - n - 1)]
           ns == Extended([r \in Range(refs) |-> IF r = Pk THEN keys[1].name ELSE keys[2].name],
                          [r \in 0..m - 1 |-> rest[r + 1]])
           res == [call |-> c, ok |-> TRUE, exp |-> e, names |-> ns, values |-> NoValues,
                   suggest |-> Rejected]
<1>1. /\ ~busy /\ calls # <<>> /\ c.kind = "scan" /\ calls' = Tail(calls)
      /\ UNCHANGED <<parser, base, work, out, busy>>
      /\ Succeeds(e, ns, NoValues)
  BY DEF Scan
<1>2. /\ c.schema.sk = <<>> \/ c.schema.sk = <<c.schema.sk[1]>>
      /\ rest \in Seq(ToSet(c.attributes))
  BY <1>1, ProjectedType DEF HeadCall, WellFormed
<1>3. m \in Nat
  BY <1>2
<1>4. n \in {1, 2}
  <2> DEFINE S == {c.schema.pk, c.schema.sk[1]}
             sk == c.schema.sk
  <2>1. sk \in Seq(S) /\ Len(sk) \in {0, 1}
    <3>1. <<>> \in Seq(S) /\ Len(<<>>) = 0
      OBVIOUS
    <3>2. <<c.schema.sk[1]>> \in Seq(S) /\ Len(<<c.schema.sk[1]>>) = 1
      OBVIOUS
    <3> QED
      BY <1>2, <3>1, <3>2
  <2>2. <<c.schema.pk>> \in Seq(S) /\ Len(<<c.schema.pk>>) = 1
    OBVIOUS
  <2> HIDE DEF S, sk
  <2>3. Len(<<c.schema.pk>> \o sk) = 1 + Len(sk)
    BY <2>1, <2>2
  <2>4. \A k \in {0, 1} : 1 + k \in {1, 2}
    OBVIOUS
  <2> QED
    BY <2>1, <2>3, <2>4, Zenon DEF sk
<1> HIDE DEF n, m, keys, rest, c
<1>5. DOMAIN refs = 1..n /\ n \in Nat
  BY <1>4
<1> HIDE DEF refs
<1>6. IsSeq(e) /\ Refs(e, "name") = Range(refs) \cup 0..m - 1 /\ Refs(e, "value") = {}
  BY <1>3, <1>5, ProjectionRefs
<1> HIDE DEF e
<1>7. DOMAIN ns = Range(refs) \cup 0..m - 1
  BY DEF Extended
<1>8. DOMAIN NoValues = {}
  BY DEF NoValues
<1> HIDE DEF ns
<1>9. res.exp = e /\ res.names = ns /\ res.values = NoValues
  OBVIOUS
<1>10. results' = Append(results, res)
  BY <1>1 DEF Succeeds, Returned, c
<1>11. Complete(res)
  BY <1>6, <1>7, <1>8, <1>9 DEF Complete
<1>12. Head(calls).kind \in Alone
  BY <1>1 DEF Alone, c
<1> HIDE DEF res
<1> QED
  BY <1>1, <1>10, <1>11, <1>12 DEF Answers, BaseChanges, parser

\* Every step is of one of these forms.
LEMMA NextSteps ==
  ASSUME [Next]_vars, HeadCall
  PROVE  \/ Begins \/ Answers
         \/ Expand \/ PushText \/ Attribute \/ Value \/ Return
         \/ UNCHANGED vars
  BY UpdateSteps, SortSteps, QuerySteps, ScanSteps DEF Next

-----------------------------------------------------------------------------
(* Types *)

CallsOK == /\ IsSeq(calls)
           /\ \A i \in DOMAIN calls : WellFormed(calls[i])

TypeInv == /\ TypeOK
           /\ Numbered(names)
           /\ Numbered(values)
           /\ IsSeq(out)
           /\ CallsOK

\* The two ways to say that placeholders are defined.
LEMMA RefsIn ==
  ASSUME NEW s, NEW kind, NEW D
  PROVE  (\A i \in DOMAIN s : s[i].kind = kind => s[i].ref \in D) <=> Refs(s, kind) \subseteq D
  BY DEF Refs

\* A call that is left is well-formed.
LEMMA CallsLeft ==
  ASSUME CallsOK, calls # <<>>
  PROVE  /\ WellFormed(Head(calls))
         /\ calls' = Tail(calls) => CallsOK'
         /\ calls' = calls => CallsOK'
<1>1. WellFormed(Head(calls))
  BY TailIsSeq DEF CallsOK
<1>2. ASSUME calls' = Tail(calls) PROVE CallsOK'
  <2>1. IsSeq(Tail(calls)) /\ \A i \in DOMAIN Tail(calls) : WellFormed(Tail(calls)[i])
    BY TailIsSeq DEF CallsOK
  <2>2. IsSeq(calls') /\ \A i \in DOMAIN calls' : WellFormed(calls'[i])
    BY <1>2, <2>1
  <2> QED
    BY <2>2 DEF CallsOK
<1>3. ASSUME calls' = calls PROVE CallsOK'
  BY <1>3 DEF CallsOK
<1> QED
  BY <1>1, <1>2, <1>3

\* What is known of a part that is processed.
LEMMA HeadPart ==
  ASSUME work \in Seq(Nodes), work # <<>>
  PROVE  Head(work) \in Nodes /\ Tail(work) \in Seq(Nodes)
  OBVIOUS

\* A token may be added when its placeholder is defined.
LEMMA TokenAdded ==
  ASSUME TypeInv, NEW token, out' = Append(out, token),
         token.kind = "name" => token.ref \in DOMAIN names',
         token.kind = "value" => token.ref \in DOMAIN values',
         DOMAIN names \subseteq DOMAIN names',
         DOMAIN values \subseteq DOMAIN values'
  PROVE  /\ IsSeq(out')
         /\ \A i \in DOMAIN out' :
              /\ out'[i].kind = "name" => out'[i].ref \in DOMAIN names'
              /\ out'[i].kind = "value" => out'[i].ref \in DOMAIN values'
<1>1. IsSeq(out) /\ IsSeq(out')
  BY AppendIsSeq DEF TypeInv
<1>2. Refs(out, "name") \subseteq DOMAIN names /\ Refs(out, "value") \subseteq DOMAIN values
  BY RefsIn DEF TypeInv, TypeOK
<1>3. Refs(out', "name") \subseteq DOMAIN names' /\ Refs(out', "value") \subseteq DOMAIN values'
  BY <1>1, <1>2, RefsAppend
<1> QED
  BY <1>1, <1>3, RefsIn

\* The initial states satisfy the typing invariant.
LEMMA TypeInit == Init => TypeInv
<1> SUFFICES ASSUME Init PROVE TypeInv
  OBVIOUS
<1>1. Numbered(names) /\ Numbered(values)
  BY NumberedEmpty DEF Init
<1>2. Prefix(names) /\ Prefix(values)
  BY <1>1, NumberedCount
<1>3. CallsOK
  BY CallsAssumption DEF Init, CallsOK, IsSeq
<1>4. IsSeq(out)
  <2>1. <<>> \in Seq({})
    OBVIOUS
  <2> QED
    BY <2>1 DEF Init, IsSeq
<1>5. TypeOK
  <2>1. <<>> \in Seq(Nodes) /\ DOMAIN <<>> = {}
    OBVIOUS
  <2>2. DOMAIN names_inv = {}
    BY DEF Init
  <2>3. work = <<>> /\ out = <<>> /\ busy = FALSE
    BY DEF Init
  <2> QED
    BY <1>2, <2>1, <2>2, <2>3 DEF TypeOK
<1> QED
  BY <1>1, <1>3, <1>4, <1>5 DEF TypeInv

\* Every step keeps it.
LEMMA TypeStep == TypeInv /\ [Next]_vars => TypeInv'
<1> SUFFICES ASSUME TypeInv, [Next]_vars PROVE TypeInv'
  OBVIOUS
<1>0. HeadCall
  BY CallsLeft DEF TypeInv, HeadCall
<1>1. CASE Begins
  <2>1. PICK n \in Trees(Head(calls)) : work' = <<n>>
    BY <1>1 DEF Begins
  <2>2. work' \in Seq(Nodes)
    BY <1>0, <1>1, <2>1 DEF HeadCall, WellFormed, Begins
  <2>3. CallsOK'
    BY <1>1, CallsLeft DEF Begins, TypeInv
  <2> QED
    BY <1>1, <2>2, <2>3 DEF Begins, TypeInv, TypeOK, parser, Numbered, Prefix, IsSeq
<1>2. CASE Answers
  <2>1. CallsOK'
    BY <1>2, CallsLeft DEF Answers, TypeInv
  <2> QED
    BY <1>2, <2>1 DEF Answers, TypeInv, TypeOK, parser, Numbered, Prefix, IsSeq
<1>3. CASE Expand
  <2>1. Head(work) \in Nodes /\ Tail(work) \in Seq(Nodes)
    BY <1>3, HeadPart DEF Expand, TypeInv, TypeOK
  <2>2. Parts(Head(work)) \in Seq(Nodes)
    BY <1>3, <2>1, NodesAssumption DEF Expand, MadeOf
  <2>3. work' \in Seq(Nodes)
    BY <1>3, <2>1, <2>2 DEF Expand
  <2>4. CallsOK'
    BY <1>3 DEF Expand, TypeInv, CallsOK
  <2> QED
    BY <1>3, <2>3, <2>4 DEF Expand, TypeInv, TypeOK, parser, Numbered, Prefix, IsSeq
<1>4. CASE PushText
  <2> DEFINE token == Written(Head(work).text)
  <2>1. /\ work' = Tail(work) /\ out' = Append(out, token)
        /\ work # <<>> /\ UNCHANGED <<calls, names, names_inv, values, busy>>
    BY <1>4 DEF PushText, Part, Next1, parser
  <2>2. work' \in Seq(Nodes)
    BY <2>1, HeadPart DEF TypeInv, TypeOK
  <2>3. token.kind = "text"
    BY DEF Written
  <2> HIDE DEF token
  <2>4. /\ IsSeq(out')
        /\ \A i \in DOMAIN out' :
             /\ out'[i].kind = "name" => out'[i].ref \in DOMAIN names'
             /\ out'[i].kind = "value" => out'[i].ref \in DOMAIN values'
    BY <2>1, <2>3, TokenAdded
  <2>5. CallsOK'
    BY <2>1 DEF TypeInv, CallsOK
  <2> QED
    BY <2>1, <2>2, <2>4, <2>5 DEF TypeInv, TypeOK, Numbered, Prefix
<1>5. CASE Attribute
  <2> DEFINE n == Head(work).name
             r == IF n \in DOMAIN names_inv THEN names_inv[n] ELSE Cardinality(DOMAIN names)
  <2>1. /\ work' = Tail(work) /\ out' = Append(out, NameRef(r))
        /\ work # <<>> /\ UNCHANGED <<calls, values, busy>>
        /\ IF n \in DOMAIN names_inv
           THEN UNCHANGED <<names, names_inv>>
           ELSE names_inv' = Insert(names_inv, n, r) /\ names' = Insert(names, r, n)
    BY <1>5 DEF Attribute, Part, Next1
  <2>2. work' \in Seq(Nodes)
    BY <2>1, HeadPart DEF TypeInv, TypeOK
  <2>3. /\ Numbered(names') /\ Prefix(names)'
        /\ r \in DOMAIN names'
        /\ DOMAIN names \subseteq DOMAIN names'
        /\ \A x \in DOMAIN names_inv' : names_inv'[x] \in DOMAIN names'
    <3>1. CASE n \in DOMAIN names_inv
      BY <2>1, <3>1 DEF TypeInv, TypeOK, Numbered, Prefix
    <3>2. CASE n \notin DOMAIN names_inv
      <4>1. r = Next0(names) /\ names' = Insert(names, Next0(names), n)
        BY <2>1, <3>2 DEF Next0
      <4>2. names_inv' = Insert(names_inv, n, r)
        BY <2>1, <3>2
      <4>3. Numbered(names') /\ DOMAIN names' = DOMAIN names \cup {r}
        BY <4>1, NumberedInsert DEF TypeInv
      <4>4. Prefix(names)'
        BY <4>3, NumberedCount DEF Prefix
      <4> HIDE DEF n, r
      <4>5. \A x \in DOMAIN names_inv' : names_inv'[x] \in DOMAIN names'
        BY <4>2, <4>3 DEF Insert, TypeInv, TypeOK
      <4> QED
        BY <4>3, <4>4, <4>5
    <3> QED
      BY <3>1, <3>2
  <2>4. NameRef(r).kind = "name" /\ NameRef(r).ref = r
    BY DEF NameRef
  <2> HIDE DEF n, r
  <2>5. /\ IsSeq(out')
        /\ \A i \in DOMAIN out' :
             /\ out'[i].kind = "name" => out'[i].ref \in DOMAIN names'
             /\ out'[i].kind = "value" => out'[i].ref \in DOMAIN values'
    BY <2>1, <2>3, <2>4, TokenAdded
  <2>6. CallsOK'
    BY <2>1 DEF TypeInv, CallsOK
  <2> QED
    BY <2>1, <2>2, <2>3, <2>5, <2>6 DEF TypeInv, TypeOK, Numbered, Prefix
<1>6. CASE Value
  <2> DEFINE r == Cardinality(DOMAIN values)
  <2>1. /\ work' = Tail(work) /\ out' = Append(out, ValueRef(r))
        /\ work # <<>> /\ UNCHANGED <<calls, names, names_inv, busy>>
        /\ values' = Insert(values, Next0(values), Head(work).val)
        /\ r = Next0(values)
    BY <1>6 DEF Value, Part, Next1, Next0
  <2>2. work' \in Seq(Nodes)
    BY <2>1, HeadPart DEF TypeInv, TypeOK
  <2>3. Numbered(values') /\ DOMAIN values' = DOMAIN values \cup {r}
    BY <2>1, NumberedInsert DEF TypeInv
  <2>4. Prefix(values)'
    BY <2>3, NumberedCount DEF Prefix
  <2>5. ValueRef(r).kind = "value" /\ ValueRef(r).ref = r
    BY DEF ValueRef
  <2> HIDE DEF r
  <2>6. /\ IsSeq(out')
        /\ \A i \in DOMAIN out' :
             /\ out'[i].kind = "name" => out'[i].ref \in DOMAIN names'
             /\ out'[i].kind = "value" => out'[i].ref \in DOMAIN values'
    BY <2>1, <2>3, <2>5, TokenAdded
  <2>7. CallsOK'
    BY <2>1 DEF TypeInv, CallsOK
  <2> QED
    BY <2>1, <2>2, <2>3, <2>4, <2>6, <2>7 DEF TypeInv, TypeOK, Numbered, Prefix
<1>7. CASE Return
  <2>1. /\ calls' = Tail(calls) /\ out' = <<>> /\ busy' = FALSE
        /\ UNCHANGED <<names, names_inv, values, work>>
    BY <1>7 DEF Return, parser
  <2>2. CallsOK'
    BY <1>7, <2>1, CallsLeft DEF Return, TypeInv, TypeOK
  <2>3. <<>> \in Seq({}) /\ DOMAIN <<>> = {}
    OBVIOUS
  <2> QED
    BY <2>1, <2>2, <2>3 DEF TypeInv, TypeOK, Numbered, Prefix, IsSeq
<1>8. CASE UNCHANGED vars
  <2>1. CallsOK'
    BY <1>8 DEF vars, TypeInv, CallsOK
  <2> QED
    BY <1>8, <2>1 DEF vars, parser, TypeInv, TypeOK, Numbered, Prefix, IsSeq
<1> QED
  BY <1>0, <1>1, <1>2, <1>3, <1>4, <1>5, <1>6, <1>7, <1>8, NextSteps

\* It holds throughout.
LEMMA TypesKept == Spec => []TypeInv
  BY TypeInit, TypeStep, PTL DEF Spec

\* Placeholders are numbered without gaps, and the expression under way uses
\* only those that have been given out.
THEOREM ExpressionsTyped == Spec => []TypeOK
  BY TypesKept, PTL DEF TypeInv

-----------------------------------------------------------------------------
(* Names *)

\* Only a new attribute changes the two maps, and both alike.
LEMMA NamesStep == TypeInv /\ NamesAgree /\ [Next]_vars => NamesAgree'
<1> SUFFICES ASSUME TypeInv, NamesAgree, [Next]_vars PROVE NamesAgree'
  OBVIOUS
<1>0. HeadCall
  BY CallsLeft DEF TypeInv, HeadCall
<1>1. CASE UNCHANGED <<names, names_inv>>
  BY <1>1 DEF NamesAgree
<1>2. CASE Attribute
  <2> DEFINE n == Head(work).name
             r == Next0(names)
  <2>1. \/ UNCHANGED <<names, names_inv>>
        \/ /\ n \notin DOMAIN names_inv
           /\ names_inv' = Insert(names_inv, n, r)
           /\ names' = Insert(names, r, n)
    BY <1>2 DEF Attribute, Next0
  <2>2. CASE /\ n \notin DOMAIN names_inv
             /\ names_inv' = Insert(names_inv, n, r)
             /\ names' = Insert(names, r, n)
    <3>3. names' = Insert(names, Next0(names), n) /\ Numbered(names)
      BY <2>2 DEF TypeInv
    <3> HIDE DEF n
    <3>1. /\ DOMAIN names' = DOMAIN names \cup {r}
          /\ r \notin DOMAIN names
          /\ names'[r] = n
          /\ \A x \in DOMAIN names : names'[x] = names[x]
      <4> DEFINE g == Insert(names, Next0(names), n)
      <4>1. /\ DOMAIN g = DOMAIN names \cup {r}
            /\ r \notin DOMAIN names
            /\ g[r] = n
            /\ \A x \in DOMAIN names : g[x] = names[x]
        BY <3>3, NumberedInsert, Zenon
      <4> QED
        BY <3>3, <4>1
    <3>2. /\ DOMAIN names_inv' = DOMAIN names_inv \cup {n}
          /\ names_inv'[n] = r
          /\ \A x \in DOMAIN names_inv : names_inv'[x] = names_inv[x]
      BY <2>2 DEF Insert
    <3> HIDE DEF r
    <3> QED
      BY <2>2, <3>1, <3>2 DEF NamesAgree
  <2> QED
    BY <1>1, <2>1, <2>2
<1> QED
  BY <1>0, <1>1, <1>2, NextSteps
     DEF Begins, Answers, Expand, PushText, Value, Return, vars, parser

\* An attribute keeps one placeholder, in every sequence of calls on a parser.
THEOREM NamesInverse == Spec => []NamesAgree
<1>1. Init => NamesAgree
  BY DEF Init, NamesAgree, NoNames
<1> QED
  BY <1>1, TypesKept, NamesStep, PTL DEF Spec

-----------------------------------------------------------------------------
(* Requests *)

\* query and scan are the only call on their parser.
Lone == /\ BaseOK
        /\ IsSeq(results)
        /\ ~busy => out = <<>>
        /\ \A i \in DOMAIN calls : calls[i].kind \in Alone => Len(calls) = 1 /\ results = <<>>
        /\ base = NoBase \/ Len(calls) <= 1

\* The placeholders given out are those returned or under way.
Defined == calls # <<>> =>
             /\ DOMAIN names = Used(Len(results), "name") \cup Refs(out, "name")
             /\ DOMAIN values = Used(Len(results), "value") \cup Refs(out, "value")

RequestInv == Lone /\ Defined /\ PlaceholdersMatch

\* As long as no call returns, what was returned uses the same placeholders.
LEMMA UsedSame ==
  ASSUME NEW kind, NEW n, results' = results
  PROVE  Used(n, kind)' = Used(n, kind)
  BY DEF Used, Refs

\* A new result adds the placeholders of its expression.
LEMMA UsedAppend ==
  ASSUME NEW kind, NEW r, NEW n \in Nat,
         IsSeq(results), n = Len(results), results' = Append(results, r)
  PROVE  /\ \A k \in 0..n : Used(k, kind)' = Used(k, kind)
         /\ Used(n + 1, kind)' = Used(n, kind) \cup Refs(r.exp, kind)
<1>1. /\ DOMAIN results = 1..n
      /\ results'[n + 1] = r
      /\ \A i \in 1..n : results'[i] = results[i]
  BY AppendIsSeq
<1>2. ASSUME NEW i \in 1..n PROVE Refs(results[i].exp, kind)' = Refs(results[i].exp, kind)
  BY <1>1 DEF Refs
<1>3. Refs(results[n + 1].exp, kind)' = Refs(r.exp, kind)
  BY <1>1 DEF Refs
<1>4. ASSUME NEW k \in 0..n PROVE Used(k, kind)' = Used(k, kind)
  <2>1. \A i \in 1..k : i \in 1..n
    OBVIOUS
  <2> QED
    BY <1>2, <2>1 DEF Used
<1>5. 1..n + 1 = 1..n \cup {n + 1} /\ n \in 0..n
  OBVIOUS
<1>6. Used(n + 1, kind)' = Used(n, kind)' \cup Refs(results[n + 1].exp, kind)'
  BY <1>5, Zenon DEF Used
<1>7. Used(n + 1, kind)' = Used(n, kind) \cup Refs(r.exp, kind)
  BY <1>3, <1>4, <1>5, <1>6
<1> QED
  BY <1>4, <1>7

\* Before the first call nothing is used.
LEMMA UsedNone == ASSUME NEW kind PROVE Used(0, kind) = {}
  BY DEF Used

\* A call returns all that has been used, or fails.
LEMMA ResultAdded ==
  ASSUME NEW r, NEW n \in Nat,
         PlaceholdersMatch, IsSeq(results), n = Len(results), results' = Append(results, r),
         r.ok => /\ DOMAIN r.names = Used(n, "name") \cup Refs(r.exp, "name")
                 /\ DOMAIN r.values = Used(n, "value") \cup Refs(r.exp, "value")
  PROVE  PlaceholdersMatch'
<1>1. /\ DOMAIN results = 1..n
      /\ DOMAIN results' = 1..n + 1
      /\ results'[n + 1] = r
      /\ \A i \in 1..n : results'[i] = results[i]
  BY AppendIsSeq
<1>2. /\ \A k \in 0..n : Used(k, "name")' = Used(k, "name")
      /\ Used(n + 1, "name")' = Used(n, "name") \cup Refs(r.exp, "name")
      /\ \A k \in 0..n : Used(k, "value")' = Used(k, "value")
      /\ Used(n + 1, "value")' = Used(n, "value") \cup Refs(r.exp, "value")
  BY UsedAppend
<1>3. r.ok => /\ DOMAIN r.names = Used(n + 1, "name")'
              /\ DOMAIN r.values = Used(n + 1, "value")'
  BY <1>2
<1>4. ASSUME NEW i \in 1..n + 1, results'[i].ok
      PROVE  /\ DOMAIN results'[i].names = Used(i, "name")'
             /\ DOMAIN results'[i].values = Used(i, "value")'
  <2>1. CASE i = n + 1
    BY <1>1, <1>3, <1>4, <2>1, Zenon
  <2>2. CASE i # n + 1
    <3>1. i \in 1..n /\ i \in 0..n
      BY <2>2
    <3>2. results'[i] = results[i] /\ results[i].ok /\ i \in DOMAIN results
      BY <1>1, <1>4, <3>1
    <3> QED
      BY <1>2, <3>1, <3>2 DEF PlaceholdersMatch
  <2> QED
    BY <2>1, <2>2
<1> QED
  BY <1>1, <1>4 DEF PlaceholdersMatch

\* After a call has returned, those left are no query or scan.
LEMMA LoneLeft ==
  ASSUME Lone, CallsOK, calls # <<>>, calls' = Tail(calls), BaseChanges, NEW r,
         results' = Append(results, r), ~busy' => out' = <<>>
  PROVE  /\ Lone'
         /\ Head(calls).kind \in Alone => calls' = <<>> /\ results = <<>>
         /\ calls' # <<>> => base = NoBase
<1>1. /\ Len(calls) \in Nat \ {0}
      /\ 1 \in DOMAIN calls /\ Head(calls) = calls[1]
      /\ Len(calls') = Len(calls) - 1
      /\ \A i \in DOMAIN calls' : i + 1 \in DOMAIN calls /\ calls'[i] = calls[i + 1]
      /\ Len(calls) = 1 => calls' = <<>>
  BY TailIsSeq DEF CallsOK
<1>2. Head(calls).kind \in Alone => calls' = <<>> /\ results = <<>> /\ Len(calls) = 1
  BY <1>1 DEF Lone
<1>3. calls' # <<>> => base = NoBase
  BY <1>1 DEF Lone
<1>4. ASSUME NEW i \in DOMAIN calls', calls'[i].kind \in Alone PROVE FALSE
  <2>1. Len(calls) = 1
    BY <1>1, <1>4 DEF Lone
  <2>2. calls' = <<>> /\ DOMAIN <<>> = {}
    BY <1>1, <2>1
  <2> QED
    BY <2>2
<1>5. BaseOK'
  BY DEF BaseChanges, Lone, BaseOK, Refs, IsSeq
<1>6. IsSeq(results')
  BY AppendIsSeq DEF Lone
<1>7. base' = NoBase \/ Len(calls') <= 1
  <2>1. CASE base' = base
    BY <1>1, <2>1 DEF Lone, NoBase, NoNames, NoValues
  <2>2. CASE Head(calls).kind \in Alone
    BY <1>1, <1>2, <2>2
  <2> QED
    BY <2>1, <2>2 DEF BaseChanges
<1> QED
  BY <1>2, <1>3, <1>4, <1>5, <1>6, <1>7 DEF Lone, NoBase, NoNames, NoValues

\* A step on a tree.
LEMMA LoneUnder ==
  ASSUME Lone, busy', UNCHANGED <<calls, base, results>>
  PROVE  Lone'
  BY DEF Lone, BaseOK, Refs, IsSeq, NoBase, NoNames, NoValues

\* Reading a tree gives out the placeholders it writes.
LEMMA DefinedUnder ==
  ASSUME RequestInv, IsSeq(out), NEW token, out' = Append(out, token),
         DOMAIN names' = DOMAIN names \cup (IF token.kind = "name" THEN {token.ref} ELSE {}),
         DOMAIN values' = DOMAIN values \cup (IF token.kind = "value" THEN {token.ref} ELSE {}),
         UNCHANGED <<calls, results>>
  PROVE  Defined' /\ PlaceholdersMatch'
<1>1. /\ Refs(out', "name") = Refs(out, "name") \cup (IF token.kind = "name" THEN {token.ref} ELSE {})
      /\ Refs(out', "value") = Refs(out, "value") \cup (IF token.kind = "value" THEN {token.ref} ELSE {})
  BY RefsAppend
<1>2. /\ Used(Len(results), "name")' = Used(Len(results), "name")
      /\ Used(Len(results), "value")' = Used(Len(results), "value")
  BY DEF Used, Refs
<1>3. Refs(out, "name")' = Refs(out', "name") /\ Refs(out, "value")' = Refs(out', "value")
  BY DEF Refs
<1>4. Defined'
  BY <1>1, <1>2, <1>3 DEF RequestInv, Defined
<1>5. PlaceholdersMatch'
  BY DEF RequestInv, PlaceholdersMatch, Used, Refs
<1> QED
  BY <1>4, <1>5

\* base comes before the condition on the sort key.
LEMMA JoinedRefs ==
  ASSUME BaseOK, IsSeq(out)
  PROVE  /\ Refs(Joined, "name") = DOMAIN base.names \cup Refs(out, "name")
         /\ Refs(Joined, "value") = DOMAIN base.values \cup Refs(out, "value")
<1>1. CASE base.exp = <<>>
  BY <1>1, RefsEmpty DEF Joined, BaseOK
<1>2. CASE base.exp # <<>>
  <2> DEFINE and == <<Written(" AND ")>>
  <2> DEFINE w == Written(" AND ")
  <2>0. w.kind = "text"
    BY DEF Written
  <2> HIDE DEF w
  <2>1. IsSeq(and) /\ DOMAIN and = {1} /\ and[1].kind = "text"
    <3>1. <<w>> \in Seq({w}) /\ DOMAIN <<w>> = {1} /\ <<w>>[1] = w
      OBVIOUS
    <3> QED
      BY <2>0, <3>1 DEF IsSeq, w
  <2>2. Refs(and, "name") = {} /\ Refs(and, "value") = {}
    BY <2>1 DEF Refs
  <2> HIDE DEF and
  <2>3. Joined = (base.exp \o and) \o out
    BY <1>2 DEF Joined, and
  <2>4. /\ IsSeq(base.exp \o and)
        /\ Refs(base.exp \o and, "name") = Refs(base.exp, "name")
        /\ Refs(base.exp \o and, "value") = Refs(base.exp, "value")
    BY <2>1, <2>2, RefsConcat DEF BaseOK
  <2> QED
    BY <2>3, <2>4, RefsConcat DEF BaseOK
<1> QED
  BY <1>1, <1>2

\* At the start nothing is given out or used.
LEMMA RequestInit == Init => RequestInv
<1> SUFFICES ASSUME Init PROVE RequestInv
  OBVIOUS
<1>1. <<>> \in Seq({}) /\ DOMAIN <<>> = {} /\ Len(<<>>) = 0
  OBVIOUS
<1>2. BaseOK
  BY <1>1, RefsEmpty DEF Init, NoBase, NoNames, NoValues, BaseOK, IsSeq
<1>3. Lone
  BY <1>1, <1>2, CallsAssumption DEF Init, Lone, IsSeq
<1>4. Defined
  BY <1>1, UsedNone, RefsEmpty DEF Init, Defined, NoNames, NoValues
<1>5. PlaceholdersMatch
  BY <1>1 DEF Init, PlaceholdersMatch
<1> QED
  BY <1>3, <1>4, <1>5 DEF RequestInv

\* Every step keeps what is given out, returned and under way in agreement.
LEMMA RequestStep == TypeInv /\ RequestInv /\ [Next]_vars => RequestInv'
<1> SUFFICES ASSUME TypeInv, RequestInv, [Next]_vars PROVE RequestInv'
  OBVIOUS
<1>0. HeadCall
  BY CallsLeft DEF TypeInv, HeadCall
<1>n. PICK n \in Nat : n = Len(results)
  BY AppendIsSeq DEF RequestInv, Lone
<1>1. CASE Begins
  <2>1. Defined' /\ PlaceholdersMatch'
    BY <1>1 DEF Begins, parser, RequestInv, Defined, PlaceholdersMatch, Used, Refs
  <2>2. BaseOK'
    BY <1>1 DEF Begins, BaseChanges, RequestInv, Lone, BaseOK, Refs, IsSeq
  <2>3. base' = NoBase \/ Len(calls) <= 1
    <3>1. 1 \in DOMAIN calls /\ Head(calls) = calls[1]
      BY <1>1, TailIsSeq DEF Begins, TypeInv, CallsOK
    <3>2. Len(calls) = 1 => Len(calls) <= 1
      OBVIOUS
    <3> QED
      BY <1>1, <3>1, <3>2 DEF Begins, BaseChanges, RequestInv, Lone
  <2>4. Lone'
    BY <1>1, <2>2, <2>3 DEF Begins, RequestInv, Lone, IsSeq, NoBase, NoNames, NoValues
  <2> QED
    BY <2>1, <2>4 DEF RequestInv
<1>2. CASE Answers
  <2>1. PICK r : /\ results' = Append(results, r)
                 /\ \/ ~r.ok /\ r.exp = <<>>
                    \/ Head(calls).kind \in Alone /\ Complete(r)
    BY <1>2 DEF Answers
  <2>2. /\ Lone'
        /\ Head(calls).kind \in Alone => calls' = <<>> /\ results = <<>>
    BY <1>2, <2>1, LoneLeft DEF Answers, RequestInv, TypeInv, Lone
  <2>3. CASE ~r.ok /\ r.exp = <<>>
    <3>1. PlaceholdersMatch'
      BY <1>n, <2>1, <2>3, ResultAdded DEF RequestInv, Lone
    <3>2. /\ Used(n + 1, "name")' = Used(n, "name")
          /\ Used(n + 1, "value")' = Used(n, "value")
      <4>1. IsSeq(results) /\ Refs(r.exp, "name") = {} /\ Refs(r.exp, "value") = {}
        BY <2>3, RefsEmpty DEF RequestInv, Lone
      <4>2. Used(n + 1, "name")' = Used(n, "name") \cup Refs(r.exp, "name")
        BY <1>n, <2>1, <4>1, UsedAppend
      <4>3. Used(n + 1, "value")' = Used(n, "value") \cup Refs(r.exp, "value")
        BY <1>n, <2>1, <4>1, UsedAppend
      <4> QED
        BY <4>1, <4>2, <4>3
    <3>3. Len(results') = n + 1
      BY <1>n, <2>1, AppendIsSeq DEF RequestInv, Lone
    <3>4. Defined'
      BY <1>2, <1>n, <3>2, <3>3 DEF Answers, parser, RequestInv, Defined, Refs
    <3> QED
      BY <2>2, <3>1, <3>4 DEF RequestInv
  <2>4. CASE Head(calls).kind \in Alone /\ Complete(r)
    <3>1. n = 0 /\ Used(n, "name") = {} /\ Used(n, "value") = {}
      BY <1>n, <2>2, <2>4, UsedNone
    <3>2. PlaceholdersMatch'
      BY <1>n, <2>1, <2>4, <3>1, ResultAdded DEF RequestInv, Lone, Complete
    <3>3. Defined'
      BY <2>2, <2>4 DEF Defined
    <3> QED
      BY <2>2, <3>2, <3>3 DEF RequestInv
  <2> QED
    BY <2>1, <2>3, <2>4
<1>3. CASE Expand
  <2>1. Defined' /\ PlaceholdersMatch'
    BY <1>3 DEF Expand, parser, RequestInv, Defined, PlaceholdersMatch, Used, Refs
  <2>2. Lone'
    BY <1>3, LoneUnder DEF Expand, RequestInv
  <2> QED
    BY <2>1, <2>2 DEF RequestInv
<1>4. CASE PushText
  <2> DEFINE token == Written(Head(work).text)
  <2>1. token.kind = "text"
    BY DEF Written
  <2>2. out' = Append(out, token) /\ busy' /\ UNCHANGED <<calls, names, values, base, results>>
    BY <1>4 DEF PushText, Part, Next1, parser
  <2> HIDE DEF token
  <2>3. Defined' /\ PlaceholdersMatch'
    BY <2>1, <2>2, DefinedUnder DEF TypeInv
  <2> QED
    BY <2>2, <2>3, LoneUnder DEF RequestInv
<1>5. CASE Attribute
  <2> DEFINE k == Head(work).name
             r == IF k \in DOMAIN names_inv THEN names_inv[k] ELSE Cardinality(DOMAIN names)
             token == NameRef(r)
  <2>1. token.kind = "name" /\ token.ref = r
    BY DEF NameRef
  <2>2. out' = Append(out, token) /\ busy' /\ UNCHANGED <<calls, values, base, results>>
    BY <1>5 DEF Attribute, Part, Next1
  <2>3. DOMAIN names' = DOMAIN names \cup {r}
    <3>1. CASE k \in DOMAIN names_inv
      BY <1>5, <3>1 DEF Attribute, TypeInv, TypeOK
    <3>2. CASE k \notin DOMAIN names_inv
      BY <1>5, <3>2 DEF Attribute, Insert
    <3> QED
      BY <3>1, <3>2
  <2> HIDE DEF token, r
  <2>4. Defined' /\ PlaceholdersMatch'
    BY <2>1, <2>2, <2>3, DefinedUnder DEF TypeInv
  <2> QED
    BY <2>2, <2>4, LoneUnder DEF RequestInv
<1>6. CASE Value
  <2> DEFINE r == Cardinality(DOMAIN values)
             token == ValueRef(r)
  <2>1. token.kind = "value" /\ token.ref = r
    BY DEF ValueRef
  <2>2. out' = Append(out, token) /\ busy' /\ UNCHANGED <<calls, names, base, results>>
    BY <1>6 DEF Value, Part, Next1
  <2>3. DOMAIN values' = DOMAIN values \cup {r}
    BY <1>6 DEF Value, Insert
  <2> HIDE DEF token, r
  <2>4. Defined' /\ PlaceholdersMatch'
    BY <2>1, <2>2, <2>3, DefinedUnder DEF TypeInv
  <2> QED
    BY <2>2, <2>4, LoneUnder DEF RequestInv
<1>7. CASE Return
  <2> DEFINE ns == Extended(base.names, names)
             vs == Extended(base.values, values)
             r == [call |-> Head(calls), ok |-> TRUE, exp |-> Joined, names |-> ns,
                   values |-> vs, suggest |-> Rejected]
  <2>1. /\ r.exp = Joined /\ r.names = ns /\ r.values = vs
        /\ results' = Append(results, r)
    BY <1>7 DEF Return, Succeeds, Returned
  <2>2. /\ DOMAIN ns = DOMAIN base.names \cup DOMAIN names
        /\ DOMAIN vs = DOMAIN base.values \cup DOMAIN values
    BY DEF Extended
  <2>3. calls # <<>>
    BY <1>7 DEF Return, TypeInv, TypeOK
  <2>4. /\ Refs(Joined, "name") = DOMAIN base.names \cup Refs(out, "name")
        /\ Refs(Joined, "value") = DOMAIN base.values \cup Refs(out, "value")
    BY JoinedRefs DEF RequestInv, Lone, TypeInv
  <2> HIDE DEF r, ns, vs
  <2>5. PICK s : s = r
    OBVIOUS
  <2>6. PlaceholdersMatch'
    BY <1>n, <2>1, <2>2, <2>3, <2>4, <2>5, ResultAdded DEF RequestInv, Lone, Defined
  <2>7. Lone' /\ (calls' # <<>> => base = NoBase)
    BY <1>7, <2>1, <2>3, <2>5, LoneLeft DEF Return, RequestInv, TypeInv, BaseChanges
  <2>8. Defined'
    <3> SUFFICES ASSUME calls' # <<>> PROVE Defined'
      BY DEF Defined
    <3>1. DOMAIN base.names = {} /\ DOMAIN base.values = {}
      BY <2>7 DEF NoBase, NoNames, NoValues
    <3>2. /\ Used(n + 1, "name")' = Used(n, "name") \cup Refs(Joined, "name")
          /\ Used(n + 1, "value")' = Used(n, "value") \cup Refs(Joined, "value")
      BY <1>n, <2>1, <2>5, UsedAppend DEF RequestInv, Lone
    <3>3. Len(results') = n + 1
      BY <1>n, <2>1, AppendIsSeq DEF RequestInv, Lone
    <3>4. Refs(out, "name")' = {} /\ Refs(out, "value")' = {}
      BY <1>7 DEF Return, Refs
    <3>5. UNCHANGED <<names, values>>
      BY <1>7 DEF Return, parser
    <3> QED
      BY <1>n, <2>3, <2>4, <3>1, <3>2, <3>3, <3>4, <3>5 DEF RequestInv, Defined
  <2> QED
    BY <2>6, <2>7, <2>8 DEF RequestInv
<1>8. CASE UNCHANGED vars
  BY <1>8 DEF vars, parser, RequestInv, Lone, BaseOK, Defined, PlaceholdersMatch, Used, Refs, IsSeq,
              NoBase, NoNames, NoValues
<1> QED
  BY <1>0, <1>1, <1>2, <1>3, <1>4, <1>5, <1>6, <1>7, <1>8, NextSteps

\* What a call returns defines the placeholders used and no others, in every
\* sequence of calls on a parser, whichever of them fail.
THEOREM PlaceholdersDefined == Spec => []PlaceholdersMatch
<1>1. RequestInv => PlaceholdersMatch
  BY DEF RequestInv
<1> QED
  BY <1>1, TypesKept, RequestInit, RequestStep, PTL DEF Spec

-----------------------------------------------------------------------------
(* Meaning *)

Includes(g, f) == \A r \in DOMAIN f : r \in DOMAIN g /\ g[r] = f[r]

\* The parser knows what it has returned, as long as there are calls.
Kept == calls # <<>> =>
          \A i \in DOMAIN results :
            results[i].ok => /\ Includes(names, results[i].names)
                             /\ Includes(values, results[i].values)

MergeInv == Kept /\ MergeKeepsMeaning

\* Inclusion of maps is transitive.
LEMMA IncludesTransitive ==
  ASSUME NEW f, NEW g, NEW h, Includes(g, f), Includes(h, g)
  PROVE  Includes(h, f)
  BY DEF Includes

\* extend keeps what the second map says.
LEMMA IncludesExtended ==
  ASSUME NEW f, NEW g
  PROVE  /\ Includes(Extended(f, g), g)
         /\ DOMAIN f = {} => Includes(g, Extended(f, g))
  BY DEF Includes, Extended

\* A new number leaves the others as they are.
LEMMA IncludesInsert ==
  ASSUME NEW f, NEW v, Numbered(f)
  PROVE  Includes(Insert(f, Next0(f), v), f)
<1> DEFINE g == Insert(f, Next0(f), v)
<1>1. DOMAIN g = DOMAIN f \cup {Next0(f)} /\ \A r \in DOMAIN f : g[r] = f[r]
  BY NumberedInsert, Zenon
<1> HIDE DEF g
<1>2. Includes(g, f)
  BY <1>1 DEF Includes
<1> QED
  BY <1>2 DEF g

\* The parser's maps grow.
Grows == Includes(names', names) /\ Includes(values', values)

\* Growing maps keep the meaning of what was returned.
LEMMA KeptUnder ==
  ASSUME MergeInv, Grows, UNCHANGED <<calls, results>>
  PROVE  MergeInv'
<1>1. MergeKeepsMeaning'
  BY DEF MergeInv, MergeKeepsMeaning
<1>2. ASSUME calls # <<>>, NEW i \in DOMAIN results, results[i].ok
      PROVE  /\ Includes(names', results[i].names)
             /\ Includes(values', results[i].values)
  <2>1. Includes(names, results[i].names) /\ Includes(values, results[i].values)
    BY <1>2 DEF MergeInv, Kept
  <2> QED
    BY <2>1, IncludesTransitive DEF Grows
<1>3. Kept'
  BY <1>2 DEF Kept, Includes
<1> QED
  BY <1>1, <1>3 DEF MergeInv

\* A call returns maps that contain the parser's, or it is the first to return,
\* or it fails.
LEMMA MergeAdded ==
  ASSUME NEW r, IsSeq(results), MergeInv, calls # <<>>, results' = Append(results, r),
         UNCHANGED <<names, values>>,
         \/ ~r.ok
         \/ results = <<>>
         \/ Includes(r.names, names) /\ Includes(r.values, values),
         calls' # <<>> /\ r.ok => Includes(names, r.names) /\ Includes(values, r.values)
  PROVE  MergeInv'
<1>n. PICK n \in Nat : n = Len(results)
  BY AppendIsSeq
<1>1. /\ DOMAIN results = 1..n
      /\ DOMAIN results' = 1..n + 1
      /\ results'[n + 1] = r
      /\ \A i \in 1..n : results'[i] = results[i]
  BY <1>n, AppendIsSeq
<1>2. results = <<>> => n = 0
  BY <1>n
<1>3. ASSUME NEW i \in 1..n, results[i].ok
      PROVE  Includes(names, results[i].names) /\ Includes(values, results[i].values)
  BY <1>1, <1>3 DEF MergeInv, Kept
<1>4. ASSUME NEW i \in 1..n, results[i].ok, r.ok
      PROVE  Includes(r.names, results[i].names) /\ Includes(r.values, results[i].values)
  <2>1. Includes(r.names, names) /\ Includes(r.values, values)
    BY <1>2, <1>4
  <2> QED
    BY <1>3, <1>4, <2>1, IncludesTransitive
<1>5. ASSUME NEW i \in 1..n + 1, NEW j \in 1..n + 1, i < j, results'[i].ok, results'[j].ok
      PROVE  /\ Includes(results'[j].names, results'[i].names)
             /\ Includes(results'[j].values, results'[i].values)
  <2>1. i \in 1..n /\ results'[i] = results[i]
    BY <1>1, <1>5
  <2>2. CASE j = n + 1
    BY <1>1, <1>4, <1>5, <2>1, <2>2, Zenon
  <2>3. CASE j \in 1..n
    BY <1>1, <1>5, <2>1, <2>3 DEF MergeInv, MergeKeepsMeaning, Includes
  <2>4. j = n + 1 \/ j \in 1..n
    OBVIOUS
  <2> QED
    BY <2>2, <2>3, <2>4
<1>6. MergeKeepsMeaning'
  BY <1>1, <1>5 DEF MergeKeepsMeaning, Includes
<1>7. ASSUME calls' # <<>>, NEW i \in 1..n + 1, results'[i].ok
      PROVE  Includes(names', results'[i].names) /\ Includes(values', results'[i].values)
  <2>1. CASE i = n + 1
    BY <1>1, <1>7, <2>1, Zenon
  <2>2. CASE i \in 1..n
    BY <1>1, <1>3, <1>7, <2>2
  <2>3. i = n + 1 \/ i \in 1..n
    OBVIOUS
  <2> QED
    BY <2>1, <2>2, <2>3
<1>8. Kept'
  BY <1>1, <1>7 DEF Kept, Includes
<1> QED
  BY <1>6, <1>8 DEF MergeInv

\* Every step keeps the meaning of what was returned.
LEMMA MergeStep == TypeInv /\ RequestInv /\ MergeInv /\ [Next]_vars => MergeInv'
<1> SUFFICES ASSUME TypeInv, RequestInv, MergeInv, [Next]_vars PROVE MergeInv'
  OBVIOUS
<1>0. HeadCall
  BY CallsLeft DEF TypeInv, HeadCall
<1>s. IsSeq(results)
  BY DEF RequestInv, Lone
<1>1. CASE UNCHANGED <<calls, names, values, results>>
  BY <1>1, KeptUnder DEF Grows, Includes
<1>2. CASE Answers
  <2>1. PICK r : /\ results' = Append(results, r)
                 /\ \/ ~r.ok /\ r.exp = <<>>
                    \/ Head(calls).kind \in Alone /\ Complete(r)
    BY <1>2 DEF Answers
  <2>2. Head(calls).kind \in Alone => calls' = <<>> /\ results = <<>>
    BY <1>2, <2>1, LoneLeft DEF Answers, RequestInv, TypeInv, Lone
  <2>3. calls # <<>> /\ UNCHANGED <<names, values>>
    BY <1>2 DEF Answers, parser
  <2> QED
    BY <1>s, <2>1, <2>2, <2>3, MergeAdded
<1>3. CASE Attribute
  <2> DEFINE n == Head(work).name
  <2>1. \/ UNCHANGED names
        \/ names' = Insert(names, Next0(names), n)
    BY <1>3 DEF Attribute, Next0
  <2> HIDE DEF n
  <2>2. Includes(names', names)
    BY <2>1, IncludesInsert DEF TypeInv, Includes
  <2>3. Grows
    BY <1>3, <2>2 DEF Attribute, Grows, Includes
  <2> QED
    BY <1>3, <2>3, KeptUnder DEF Attribute
<1>4. CASE Value
  <2> DEFINE v == Head(work).val
  <2>1. values' = Insert(values, Next0(values), v)
    BY <1>4 DEF Value, Next0
  <2> HIDE DEF v
  <2>2. Includes(values', values)
    BY <2>1, IncludesInsert DEF TypeInv, Includes
  <2>3. Grows
    BY <1>4, <2>2 DEF Value, Grows, Includes
  <2> QED
    BY <1>4, <2>3, KeptUnder DEF Value
<1>5. CASE Return
  <2> DEFINE ns == Extended(base.names, names)
             vs == Extended(base.values, values)
             res == [call |-> Head(calls), ok |-> TRUE, exp |-> Joined, names |-> ns,
                     values |-> vs, suggest |-> Rejected]
  <2>1. /\ res.names = ns /\ res.values = vs
        /\ results' = Append(results, res)
    BY <1>5 DEF Return, Succeeds, Returned
  <2>2. calls # <<>> /\ UNCHANGED <<names, values>> /\ calls' = Tail(calls)
    BY <1>5 DEF Return, TypeInv, TypeOK, parser
  <2>3. Includes(ns, names) /\ Includes(vs, values)
    BY IncludesExtended
  <2>4. ASSUME calls' # <<>> PROVE Includes(names, ns) /\ Includes(values, vs)
    <3>1. base = NoBase
      BY <1>5, <2>1, <2>2, <2>4, LoneLeft DEF Return, RequestInv, TypeInv, BaseChanges
    <3>2. DOMAIN base.names = {} /\ DOMAIN base.values = {}
      BY <3>1 DEF NoBase, NoNames, NoValues
    <3> QED
      BY <3>2, IncludesExtended
  <2> HIDE DEF res, ns, vs
  <2>5. PICK r : r = res
    OBVIOUS
  <2> QED
    BY <1>s, <2>1, <2>2, <2>3, <2>4, <2>5, MergeAdded
<1> QED
  BY <1>0, <1>1, <1>2, <1>3, <1>4, <1>5, NextSteps
     DEF Begins, Expand, PushText, vars, parser

\* What a call returned means the same under the maps of every later call on
\* the same parser.
THEOREM MeaningKept == Spec => []MergeKeepsMeaning
<1>1. Init => MergeInv
  <2>1. DOMAIN <<>> = {}
    OBVIOUS
  <2> QED
    BY <2>1 DEF Init, MergeInv, Kept, MergeKeepsMeaning
<1>2. MergeInv => MergeKeepsMeaning
  BY DEF MergeInv
<1> QED
  BY <1>1, <1>2, TypesKept, RequestInit, RequestStep, MergeStep, PTL DEF Spec

-----------------------------------------------------------------------------
(* Sort keys *)

\* The strict reading of a condition whose operands all have the type is taken.
LEMMA StrictTaken ==
  ASSUME NEW w, NEW type, w.op # "rejected", StrictSyntax(w),
         w.op = "begins_with" => AllOf(w.args, {"quoted"}),
         \A i \in DOMAIN w.args : LiteralType(w.args[i]) = type
  PROVE  /\ Condition(w, type, TRUE) = [op |-> w.op, vals |-> Typed(w.args, LiteralType)]
         /\ Condition(w, type, TRUE) # Rejected
<1> DEFINE c == [op |-> w.op, vals |-> Typed(w.args, LiteralType)]
<1>1. Strict(w) = c
  BY DEF Strict
<1>2. \A i \in DOMAIN c.vals : c.vals[i].type = type
  BY DEF Typed
<1>3. c.op # Rejected.op
  BY DEF Rejected
<1> HIDE DEF c
<1>4. Checked(c, type) = c
  BY <1>2 DEF Checked
<1>5. Condition(w, type, TRUE) = c
  BY <1>1, <1>4 DEF Condition
<1> QED
  BY <1>3, <1>5 DEF c

\* What the second reading made of a rejected condition is shown in a form the
\* strict reading takes for the same.
LEMMA SuggestionStrict ==
  ASSUME NEW w, NEW type, WellWritten(w), Condition(w, type, TRUE) = Rejected,
         Suggestion(w, type) # Rejected
  PROVE  Condition(Shown(Suggestion(w, type)), type, TRUE) = Suggestion(w, type)
<1> DEFINE s == Suggestion(w, type)
           u == Shown(s)
<1> SUFFICES Condition(u, type, TRUE) = s
  OBVIOUS
<1>1. s = Loose(w, type)
  BY DEF Suggestion
<1>2. w.op # "rejected" /\ Equal(w.op) # "rejected" /\ Equal(w.op) # "bare"
  BY DEF WellWritten, Operators, Comparisons, Equal
<1>3. \/ /\ type = "S"
         /\ s = [op |-> Equal(w.op), vals |-> [i \in DOMAIN w.args |-> [type |-> "S", text |-> w.args[i].text]]]
      \/ /\ type = "N"
         /\ w.op = "bare"
         /\ s = [op |-> "=", vals |-> [i \in DOMAIN w.args |-> [type |-> "N", text |-> w.args[i].text]]]
  <2>1. CASE type = "S"
    BY <1>1, <2>1 DEF Loose, Typed
  <2>2. CASE type = "N"
    <3>1. AllOf(w.args, {"number"}) /\ w.op # "begins_with"
      BY <1>1, <2>2 DEF Loose
    <3>2. CASE w.op = "bare"
      BY <1>1, <2>2, <3>1, <3>2 DEF Loose, Typed, Equal
    <3>3. CASE w.op # "bare"
      <4>1. StrictSyntax(w)
        BY <3>1, <3>3 DEF StrictSyntax, AllOf, Forms
      <4>2. \A i \in DOMAIN w.args : LiteralType(w.args[i]) = type
        BY <2>2, <3>1 DEF AllOf, LiteralType
      <4> QED
        BY <1>2, <3>1, <4>1, <4>2, StrictTaken
    <3> QED
      BY <3>2, <3>3
  <2>3. type = "S" \/ type = "N"
    BY <1>1 DEF Loose
  <2> QED
    BY <2>1, <2>2, <2>3
<1> DEFINE vals == [i \in DOMAIN w.args |-> [type |-> type, text |-> w.args[i].text]]
<1> HIDE DEF s, u, vals
<1>4. ASSUME NEW op, op # "bare", op # "rejected",
             s = [op |-> op, vals |-> vals],
             type = "S" \/ (type = "N" /\ op # "begins_with")
      PROVE  Condition(u, type, TRUE) = s
  <2> DEFINE form == IF type = "S" THEN "quoted" ELSE "number"
  <2>1. u = [op |-> op, args |-> [i \in DOMAIN w.args |-> [form |-> form, text |-> w.args[i].text]]]
    BY <1>4 DEF Shown, u, vals
  <2>2. /\ u.op = op
        /\ DOMAIN u.args = DOMAIN w.args
        /\ \A i \in DOMAIN w.args : u.args[i].form = form /\ u.args[i].text = w.args[i].text
    BY <2>1
  <2>3. StrictSyntax(u) /\ (u.op = "begins_with" => AllOf(u.args, {"quoted"}))
    BY <1>4, <2>2 DEF StrictSyntax, AllOf, Forms
  <2>4. \A i \in DOMAIN u.args : LiteralType(u.args[i]) = type
    BY <1>4, <2>2 DEF LiteralType
  <2>5. Condition(u, type, TRUE) = [op |-> u.op, vals |-> Typed(u.args, LiteralType)]
    BY <1>4, <2>2, <2>3, <2>4, StrictTaken
  <2>6. Typed(u.args, LiteralType) = [i \in DOMAIN w.args |-> [type |-> type, text |-> w.args[i].text]]
    BY <2>2, <2>4 DEF Typed
  <2> QED
    BY <1>4, <2>2, <2>5, <2>6 DEF vals
<1>5. CASE type = "S"
  <2> DEFINE op == Equal(w.op)
  <2>1. s = [op |-> op, vals |-> vals]
    BY <1>3, <1>5 DEF vals
  <2>2. op # "bare" /\ op # "rejected"
    BY <1>2
  <2> HIDE DEF op
  <2> QED
    BY <1>4, <1>5, <2>1, <2>2
<1>6. CASE type # "S"
  <2>1. /\ type = "N"
        /\ s = [op |-> "=", vals |-> vals]
    BY <1>3, <1>6 DEF vals
  <2>2. "=" # "bare" /\ "=" # "rejected" /\ "=" # "begins_with"
    OBVIOUS
  <2> QED
    BY <1>4, <2>1, <2>2
<1> QED
  BY <1>5, <1>6

\* A node of the tree of a condition: its literals have the type.
Fits(n, type) ==
  \/ n.kind \in {"text", "attribute"}
  \/ n.kind = "literal" /\ n.val.type = type
  \/ n.kind \in {"compare", "begins_with"} /\ n.vals[1].type = type
  \/ n.kind = "between" /\ n.vals[1].type = type /\ n.vals[2].type = type

\* A condition that is taken has operands of the type, in whichever reading.
LEMMA ConditionFits ==
  ASSUME NEW w, NEW type, NEW strict, NEW name, WellWritten(w),
         Condition(w, type, strict) # Rejected
  PROVE  Fits(ConditionNode(Condition(w, type, strict), name), type)
<1> DEFINE c == Condition(w, type, strict)
<1>1. \A i \in DOMAIN c.vals : c.vals[i].type = type
  <2>1. ASSUME NEW x, Checked(x, type) # Rejected
        PROVE  \A i \in DOMAIN Checked(x, type).vals : Checked(x, type).vals[i].type = type
    BY <2>1 DEF Checked
  <2> QED
    BY <2>1, Zenon DEF Condition
<1>2. c.op = Equal(w.op) /\ DOMAIN c.vals = DOMAIN w.args
  <2>1. c \in {Strict(w), Loose(w, type)}
    BY DEF Condition, Checked
  <2>2. Strict(w) # Rejected => Strict(w).op = Equal(w.op) /\ DOMAIN Strict(w).vals = DOMAIN w.args
    BY DEF Strict, StrictSyntax, Typed, Equal
  <2>3. Loose(w, type) # Rejected =>
          Loose(w, type).op = Equal(w.op) /\ DOMAIN Loose(w, type).vals = DOMAIN w.args
    BY DEF Loose, Typed
  <2> QED
    BY <2>1, <2>2, <2>3
<1> HIDE DEF c
<1>3. DOMAIN c.vals = IF c.op = "between" THEN {1, 2} ELSE {1}
  BY <1>2 DEF WellWritten, Operators, Comparisons, Equal
<1>4. c.op \in Comparisons \cup {"between", "begins_with"}
  BY <1>2 DEF WellWritten, Operators, Comparisons, Equal
<1>5. /\ ConditionNode(c, name).kind = IF c.op \in Comparisons THEN "compare" ELSE c.op
      /\ ConditionNode(c, name).vals = c.vals
  BY DEF ConditionNode
<1>6. "between" \notin Comparisons /\ "begins_with" \notin Comparisons
  BY DEF Comparisons
<1>7. Fits(ConditionNode(c, name), type)
  BY <1>1, <1>3, <1>4, <1>5, <1>6 DEF Fits
<1> QED
  BY <1>7 DEF c

\* The parts of such a node are such nodes.
LEMMA PartsFit ==
  ASSUME NEW n, NEW type, Fits(n, type), n.kind \notin Leaves
  PROVE  /\ IsSeq(Parts(n))
         /\ \A i \in DOMAIN Parts(n) : Fits(Parts(n)[i], type)
<1>1. ASSUME NEW t PROVE Fits(Text(t), type)
  BY DEF Fits, Text
<1>2. ASSUME NEW t PROVE Fits(Attr(t), type)
  BY DEF Fits, Attr
<1>3. ASSUME NEW v, v.type = type PROVE Fits(Literal(v), type)
  <2>1. Literal(v).kind = "literal" /\ Literal(v).val = v
    BY DEF Literal
  <2> QED
    BY <1>3, <2>1 DEF Fits
<1>4. ASSUME NEW a, NEW b, NEW d, Fits(a, type), Fits(b, type), Fits(d, type)
      PROVE  /\ IsSeq(<<a, b, d>>)
             /\ \A i \in DOMAIN <<a, b, d>> : Fits(<<a, b, d>>[i], type)
  <2>1. <<a, b, d>> \in Seq({a, b, d}) /\ \A i \in DOMAIN <<a, b, d>> : <<a, b, d>>[i] \in {a, b, d}
    OBVIOUS
  <2> QED
    BY <1>4, <2>1 DEF IsSeq
<1>5. ASSUME NEW a, NEW b, NEW d, NEW e, NEW f,
             Fits(a, type), Fits(b, type), Fits(d, type), Fits(e, type), Fits(f, type)
      PROVE  /\ IsSeq(<<a, b, d, e, f>>)
             /\ \A i \in DOMAIN <<a, b, d, e, f>> : Fits(<<a, b, d, e, f>>[i], type)
  <2>1. /\ <<a, b, d, e, f>> \in Seq({a, b, d, e, f})
        /\ \A i \in DOMAIN <<a, b, d, e, f>> : <<a, b, d, e, f>>[i] \in {a, b, d, e, f}
    OBVIOUS
  <2> QED
    BY <1>5, <2>1 DEF IsSeq
<1>6. CASE n.kind = "compare"
  <2>1. Parts(n) = <<Attr(n.key), Text(n.op), Literal(n.vals[1])>>
    BY <1>6 DEF Parts
  <2>2. n.vals[1].type = type
    BY <1>6 DEF Fits
  <2> QED
    BY <1>1, <1>2, <1>3, <1>4, <2>1, <2>2
<1>7. CASE n.kind = "begins_with"
  <2>1. Parts(n) = <<Text("begins_with("), Attr(n.key), Text(","), Literal(n.vals[1]), Text(")")>>
    BY <1>7 DEF Parts
  <2>2. n.vals[1].type = type
    BY <1>7 DEF Fits
  <2> QED
    BY <1>1, <1>2, <1>3, <1>5, <2>1, <2>2
<1>8. CASE n.kind = "between"
  <2>1. Parts(n) = <<Attr(n.key), Text(" BETWEEN "), Literal(n.vals[1]), Text(" AND "), Literal(n.vals[2])>>
    BY <1>8 DEF Parts
  <2>2. n.vals[1].type = type /\ n.vals[2].type = type
    BY <1>8 DEF Fits
  <2> QED
    BY <1>1, <1>2, <1>3, <1>5, <2>1, <2>2
<1> QED
  BY <1>6, <1>7, <1>8 DEF Fits, Leaves

\* What is under way for a sort key of the type.
Under(type) ==
  /\ \A i \in DOMAIN work : Fits(work[i], type)
  /\ \A r \in Refs(out, "value") : values[r].type = type

TypedInv ==
  /\ SortKeyTyped
  /\ SuggestionAccepted
  /\ DOMAIN base.values \subseteq {Pk}
  /\ calls # <<>> /\ Head(calls).kind \notin Alone => base = NoBase
  /\ busy /\ Head(calls).kind \in {"sort", "query"} =>
       \E type \in KeyTypes(Head(calls)) : Under(type)

BaseTyped == base' = base \/ (Head(calls).kind = "query" /\ DOMAIN base'.values = {Pk})

StartsTyped ==
  /\ ~busy
  /\ calls # <<>>
  /\ Head(calls).kind \in {"sort", "query"} =>
       \E type \in KeyTypes(Head(calls)) : \E n : work' = <<n>> /\ Fits(n, type)
  /\ BaseTyped
  /\ UNCHANGED <<calls, parser, out, results>>

Suggests(s, c) == s # Rejected => \E type \in KeyTypes(c) : Condition(Shown(s), type, TRUE) = s

\* A call returns at once.
RepliesTyped ==
  /\ ~busy
  /\ calls # <<>>
  /\ calls' = Tail(calls)
  /\ \E r : /\ results' = Append(results, r)
            /\ r.call = Head(calls)
            /\ \/ ~r.ok
               \/ Head(calls).kind = "query" /\ DOMAIN r.values = {Pk}
               \/ Head(calls).kind = "scan"
            /\ Suggests(r.suggest, Head(calls))
  /\ BaseTyped
  /\ UNCHANGED <<parser, work, out, busy>>

\* A failure names the call, and what it suggests.
LEMMA FailsResult ==
  ASSUME NEW suggest, Fails(suggest)
  PROVE  \E r : /\ results' = Append(results, r)
                /\ r.call = Head(calls) /\ ~r.ok /\ r.suggest = suggest
<1> DEFINE r == [call |-> Head(calls), ok |-> FALSE, exp |-> <<>>,
                 names |-> NoNames, values |-> NoValues, suggest |-> suggest]
<1>1. results' = Append(results, r) /\ r.call = Head(calls) /\ ~r.ok /\ r.suggest = suggest
  BY DEF Fails, Returned
<1> HIDE DEF r
<1> QED
  BY <1>1

\* A request names the call, and suggests nothing.
LEMMA SucceedsResult ==
  ASSUME NEW exp, NEW ns, NEW vs, Succeeds(exp, ns, vs)
  PROVE  \E r : /\ results' = Append(results, r)
                /\ r.call = Head(calls) /\ r.ok /\ r.exp = exp
                /\ r.names = ns /\ r.values = vs /\ r.suggest = Rejected
<1> DEFINE r == [call |-> Head(calls), ok |-> TRUE, exp |-> exp,
                 names |-> ns, values |-> vs, suggest |-> Rejected]
<1>1. /\ results' = Append(results, r) /\ r.call = Head(calls) /\ r.ok
      /\ r.exp = exp /\ r.names = ns /\ r.values = vs /\ r.suggest = Rejected
  BY DEF Succeeds, Returned
<1> HIDE DEF r
<1> QED
  BY <1>1

\* A condition on a sort key of one of the call's types.
LEMMA SortKeyReplies ==
  ASSUME NEW w, NEW key, NEW strict, SortKey(w, key, strict), ~busy, calls # <<>>,
         strict \in BOOLEAN, WellWritten(w), key.type \in KeyTypes(Head(calls)),
         BaseTyped, UNCHANGED <<parser, out>>
  PROVE  StartsTyped \/ RepliesTyped
<1> DEFINE c == Condition(w, key.type, strict)
           s == IF strict THEN Suggestion(w, key.type) ELSE Rejected
<1>1. CASE c = Rejected /\ Fails(s) /\ calls' = Tail(calls) /\ UNCHANGED <<work, busy>>
  <2>1. Suggests(s, Head(calls))
    <3>1. CASE strict
      <4>1. strict = TRUE
        BY <3>1
      <4> QED
        BY <1>1, <4>1, SuggestionStrict DEF Suggests
    <3>2. CASE ~strict
      BY <3>2 DEF Suggests
    <3> QED
      BY <3>1, <3>2
  <2> HIDE DEF s
  <2>2. PICK r : results' = Append(results, r) /\ r.call = Head(calls) /\ ~r.ok /\ r.suggest = s
    BY <1>1, FailsResult
  <2> QED
    BY <1>1, <2>1, <2>2 DEF RepliesTyped, parser
<1>2. CASE c # Rejected /\ Starts(ConditionNode(c, key.name)) /\ UNCHANGED <<calls, results>>
  <2>1. Fits(ConditionNode(c, key.name), key.type)
    BY <1>2, ConditionFits
  <2> QED
    BY <1>2, <2>1 DEF StartsTyped, Starts, parser
<1> QED
  BY <1>1, <1>2 DEF SortKey

\* A call suggests nothing, unless it reads a sort key condition in vain.
LEMMA NothingSuggested == ASSUME NEW c PROVE Suggests(Rejected, c)
  BY DEF Suggests

\* How the calls start and return.
LEMMA TypedSteps ==
  ASSUME [Next]_vars, HeadCall
  PROVE  \/ StartsTyped \/ RepliesTyped
         \/ Expand \/ PushText \/ Attribute \/ Value \/ Return
         \/ UNCHANGED vars
<1> DEFINE c == Head(calls)
<1>1. CASE Update
  BY <1>1 DEF Update, Starts, StartsTyped, BaseTyped, parser
<1>2. CASE Sort
  <2>1. /\ ~busy /\ calls # <<>> /\ c.kind = "sort"
        /\ SortKey(c.written, c.key, c.strict)
        /\ UNCHANGED <<parser, base, out>>
    BY <1>2 DEF Sort
  <2>2. KeyTypes(c) = {c.key.type}
    BY <2>1 DEF KeyTypes
  <2>3. WellWritten(c.written) /\ c.strict \in BOOLEAN
    BY <2>1 DEF HeadCall, WellFormed
  <2>4. BaseTyped
    BY <2>1 DEF BaseTyped
  <2> QED
    BY <2>1, <2>2, <2>3, <2>4, SortKeyReplies
<1>3. CASE Query
  <2> DEFINE targets == Targets(c.schema, c.index)
  <2>1. ~busy /\ calls # <<>> /\ c.kind = "query" /\ UNCHANGED <<parser, out>>
    BY <1>3 DEF Query
  <2>2. CASE Fails(Rejected) /\ calls' = Tail(calls) /\ UNCHANGED <<base, work, busy>>
    <3>1. PICK r : results' = Append(results, r) /\ r.call = c /\ ~r.ok /\ r.suggest = Rejected
      BY <2>2, FailsResult
    <3> QED
      BY <2>1, <2>2, <3>1, NothingSuggested DEF RepliesTyped, BaseTyped, parser
  <2>3. ASSUME NEW t \in targets,
               base' = QueryBase(t, c.pval),
               \/ /\ c.sort = <<>>
                  /\ Succeeds(base'.exp, base'.names, base'.values)
                  /\ calls' = Tail(calls)
                  /\ UNCHANGED <<work, busy>>
               \/ /\ c.sort # <<>>
                  /\ t.sk # <<>>
                  /\ SortKey(c.sort[1], t.sk[1], c.strict)
        PROVE  StartsTyped \/ RepliesTyped
    <3>1. DOMAIN base'.values = {Pk}
      BY <2>3 DEF QueryBase
    <3>2. BaseTyped
      BY <2>1, <3>1 DEF BaseTyped
    <3>3. CASE Succeeds(base'.exp, base'.names, base'.values) /\ calls' = Tail(calls) /\ UNCHANGED <<work, busy>>
      <4>1. PICK r : /\ results' = Append(results, r) /\ r.call = c /\ r.suggest = Rejected
                     /\ r.values = base'.values
        BY <3>3, SucceedsResult
      <4> QED
        BY <2>1, <3>1, <3>2, <3>3, <4>1, NothingSuggested DEF RepliesTyped, parser
    <3>4. CASE c.sort # <<>> /\ t.sk # <<>> /\ SortKey(c.sort[1], t.sk[1], c.strict)
      <4>1. KeyTypes(c) = {u.sk[1].type : u \in {v \in targets : v.sk # <<>>}}
        BY <2>1 DEF KeyTypes
      <4>2. t.sk[1].type \in KeyTypes(c)
        BY <3>4, <4>1
      <4>3. WellWritten(c.sort[1]) /\ c.strict \in BOOLEAN
        BY <2>1, <3>4 DEF HeadCall, WellFormed
      <4> QED
        BY <2>1, <3>2, <3>4, <4>2, <4>3, SortKeyReplies
    <3> QED
      BY <2>3, <3>3, <3>4
  <2> QED
    BY <1>3, <2>2, <2>3 DEF Query, QueryBase
<1>4. CASE Scan
  <2>1. /\ ~busy /\ calls # <<>> /\ c.kind = "scan"
        /\ calls' = Tail(calls)
        /\ UNCHANGED <<parser, base, work, out, busy>>
    BY <1>4 DEF Scan
  <2> DEFINE keys == <<c.schema.pk>> \o c.schema.sk
             refs == SubSeq(<<Pk, Sk>>, 1, Len(keys))
             rest == Projected(c.schema, c.attributes)
             exp == [i \in 1..Len(keys) + Len(rest) |->
                       NameRef(IF i <= Len(keys) THEN refs[i] ELSE i - Len(keys) - 1)]
             ns == Extended([r \in Range(refs) |-> IF r = Pk THEN keys[1].name ELSE keys[2].name],
                            [r \in 0..Len(rest) - 1 |-> rest[r + 1]])
  <2>2. Succeeds(exp, ns, NoValues)
    BY <1>4 DEF Scan
  <2> HIDE DEF exp, ns
  <2>3. PICK r : results' = Append(results, r) /\ r.call = c /\ r.suggest = Rejected
    BY <2>2, SucceedsResult
  <2> QED
    BY <2>1, <2>3, NothingSuggested DEF RepliesTyped, BaseTyped
<1> QED
  BY <1>1, <1>2, <1>3, <1>4 DEF Next

\* A query or scan is the first and the last call.
LEMMA LoneHead ==
  ASSUME Lone, CallsOK, calls # <<>>, Head(calls).kind \in Alone
  PROVE  Tail(calls) = <<>> /\ results = <<>>
<1>1. 1 \in DOMAIN calls /\ Head(calls) = calls[1] /\ (Len(calls) = 1 => Tail(calls) = <<>>)
  BY TailIsSeq DEF CallsOK
<1> QED
  BY <1>1 DEF Lone

\* A result of the right types is added to the others.
LEMMA TypedAdded ==
  ASSUME NEW r, IsSeq(results), SortKeyTyped, SuggestionAccepted, results' = Append(results, r),
         Suggests(r.suggest, r.call),
         r.ok /\ r.call.kind = "sort" =>
           \A x \in Refs(r.exp, "value") : r.values[x].type \in KeyTypes(r.call),
         r.ok /\ r.call.kind = "query" =>
           \A x \in DOMAIN r.values \ {Pk} : r.values[x].type \in KeyTypes(r.call)
  PROVE  SortKeyTyped' /\ SuggestionAccepted'
<1>n. PICK n \in Nat : n = Len(results)
  BY AppendIsSeq
<1>1. /\ DOMAIN results = 1..n
      /\ DOMAIN results' = 1..n + 1
      /\ results'[n + 1] = r
      /\ \A i \in 1..n : results'[i] = results[i]
  BY <1>n, AppendIsSeq
<1>2. ASSUME NEW i \in 1..n + 1
      PROVE  i = n + 1 \/ i \in 1..n
  OBVIOUS
<1>3. SortKeyTyped'
  <2> SUFFICES ASSUME NEW i \in 1..n + 1, results'[i].ok
               PROVE  /\ results'[i].call.kind = "sort" =>
                           \A x \in Refs(results'[i].exp, "value") :
                             results'[i].values[x].type \in KeyTypes(results'[i].call)
                      /\ results'[i].call.kind = "query" =>
                           \A x \in DOMAIN results'[i].values \ {Pk} :
                             results'[i].values[x].type \in KeyTypes(results'[i].call)
    BY <1>1, Zenon DEF SortKeyTyped, Refs, KeyTypes, Targets
  <2>1. CASE i = n + 1
    BY <1>1, <2>1, Zenon
  <2>2. CASE i \in 1..n
    <3>1. results'[i] = results[i] /\ i \in DOMAIN results
      BY <1>1, <2>2
    <3> QED
      BY <3>1, Zenon DEF SortKeyTyped
  <2> QED
    BY <1>2, <2>1, <2>2
<1>4. SuggestionAccepted'
  <2> SUFFICES ASSUME NEW i \in 1..n + 1
               PROVE  Suggests(results'[i].suggest, results'[i].call)
    BY <1>1, Zenon DEF SuggestionAccepted, Suggests, KeyTypes, Targets
  <2>1. CASE i = n + 1
    BY <1>1, <2>1, Zenon
  <2>2. CASE i \in 1..n
    <3>1. results'[i] = results[i] /\ i \in DOMAIN results
      BY <1>1, <2>2
    <3> QED
      BY <3>1, Zenon DEF SuggestionAccepted, Suggests
  <2> QED
    BY <1>2, <2>1, <2>2
<1> QED
  BY <1>3, <1>4

\* As long as no call returns, the results are as typed as they were.
LEMMA TypedSame ==
  ASSUME SortKeyTyped, SuggestionAccepted, results' = results
  PROVE  SortKeyTyped' /\ SuggestionAccepted'
<1>1. SortKeyTyped'
  BY Zenon DEF SortKeyTyped, Refs
<1>2. SuggestionAccepted'
  BY Zenon DEF SuggestionAccepted
<1> QED
  BY <1>1, <1>2

\* A token is added that is no value, or the value of a literal of the type.
LEMMA UnderToken ==
  ASSUME TypeInv, NEW type, Under(type), work # <<>>, NEW token,
         work' = Tail(work), out' = Append(out, token),
         \A r \in DOMAIN values : values'[r] = values[r],
         token.kind = "value" => values'[token.ref].type = type
  PROVE  Under(type)'
<1>1. \A i \in DOMAIN work' : Fits(work'[i], type)
  <2>1. IsSeq(work)
    BY DEF IsSeq, TypeInv, TypeOK
  <2> QED
    BY <2>1, TailIsSeq DEF Under
<1>2. Refs(out', "value") = Refs(out, "value") \cup (IF token.kind = "value" THEN {token.ref} ELSE {})
  BY RefsAppend DEF TypeInv
<1>3. Refs(out, "value") \subseteq DOMAIN values
  BY RefsIn DEF TypeInv, TypeOK
<1>4. \A r \in Refs(out', "value") : values'[r].type = type
  BY <1>2, <1>3 DEF Under
<1> QED
  BY <1>1, <1>4 DEF Under, Fits, Refs

Keyed == {"sort", "query"}

\* A step on a tree.
LEMMA TypedUnder ==
  ASSUME TypedInv, busy, UNCHANGED <<calls, base, results>>,
         \A type : Under(type) => Under(type)'
  PROVE  TypedInv'
<1>1. SortKeyTyped' /\ SuggestionAccepted'
  BY TypedSame DEF TypedInv
<1>2. Head(calls).kind \in Keyed => \E type \in KeyTypes(Head(calls)) : Under(type)'
  BY DEF TypedInv, Keyed
<1>3. Head(calls').kind \in Keyed => \E type \in KeyTypes(Head(calls')) : Under(type)'
  BY <1>2
<1>4. busy' /\ Head(calls').kind \in {"sort", "query"} =>
        \E type \in KeyTypes(Head(calls)') : Under(type)'
  BY <1>3 DEF Keyed
<1> QED
  BY <1>1, <1>4 DEF TypedInv, NoBase, NoNames, NoValues, KeyTypes, Targets

\* At the start nothing is returned or under way.
LEMMA TypedInit == Init => TypedInv
<1> SUFFICES ASSUME Init PROVE TypedInv
  OBVIOUS
<1>1. DOMAIN <<>> = {}
  OBVIOUS
<1>2. DOMAIN base.values = {} /\ base = NoBase
  BY DEF Init, NoBase, NoValues
<1> QED
  BY <1>1, <1>2 DEF Init, TypedInv, SortKeyTyped, SuggestionAccepted

\* Every step keeps what is compared with a sort key of its type.
LEMMA TypedStep == TypeInv /\ RequestInv /\ TypedInv /\ [Next]_vars => TypedInv'
<1> SUFFICES ASSUME TypeInv, RequestInv, TypedInv, [Next]_vars PROVE TypedInv'
  OBVIOUS
<1>0. HeadCall
  BY CallsLeft DEF TypeInv, HeadCall
<1>s. IsSeq(results) /\ (~busy => out = <<>>)
  BY DEF RequestInv, Lone
<1>1. CASE StartsTyped
  <2>1. SortKeyTyped' /\ SuggestionAccepted'
    BY <1>1, TypedSame DEF StartsTyped, TypedInv
  <2>2. DOMAIN base'.values \subseteq {Pk}
    BY <1>1 DEF StartsTyped, BaseTyped, TypedInv
  <2>3. ASSUME Head(calls).kind \notin Alone PROVE base' = NoBase
    BY <1>1, <2>3 DEF StartsTyped, BaseTyped, TypedInv, Alone
  <2>4. ASSUME Head(calls).kind \in {"sort", "query"}
        PROVE  \E type \in KeyTypes(Head(calls)) : Under(type)'
    <3>0. PICK type \in KeyTypes(Head(calls)) : \E n : work' = <<n>> /\ Fits(n, type)
      BY <1>1, <2>4 DEF StartsTyped
    <3>1. PICK n : work' = <<n>> /\ Fits(n, type)
      BY <3>0
    <3>2. DOMAIN work' = {1} /\ work'[1] = n
      BY <3>1
    <3>3. out' = <<>>
      BY <1>1, <1>s DEF StartsTyped
    <3>4. Refs(out', "value") = {}
      BY <3>3, RefsEmpty
    <3>5. Under(type)'
      BY <3>1, <3>2, <3>4 DEF Under, Refs, Fits
    <3> QED
      BY <3>5
  <2>5. calls' = calls
    BY <1>1 DEF StartsTyped
  <2>6. KeyTypes(Head(calls))' = KeyTypes(Head(calls))
    BY <2>5 DEF KeyTypes, Targets
  <2> QED
    BY <2>1, <2>2, <2>3, <2>4, <2>5, <2>6 DEF TypedInv, NoBase, NoNames, NoValues
<1>2. CASE RepliesTyped
  <2>1. PICK r : /\ results' = Append(results, r)
                 /\ r.call = Head(calls)
                 /\ \/ ~r.ok
                    \/ Head(calls).kind = "query" /\ DOMAIN r.values = {Pk}
                    \/ Head(calls).kind = "scan"
                 /\ Suggests(r.suggest, Head(calls))
    BY <1>2 DEF RepliesTyped
  <2>2. SortKeyTyped' /\ SuggestionAccepted'
    BY <1>s, <2>1, TypedAdded DEF TypedInv
  <2>3. DOMAIN base'.values \subseteq {Pk}
    BY <1>2 DEF RepliesTyped, BaseTyped, TypedInv
  <2>4. ASSUME calls' # <<>> PROVE base' = NoBase
    <3>1. Head(calls).kind \notin Alone
      BY <1>2, <2>4, LoneHead DEF RepliesTyped, RequestInv, TypeInv
    <3> QED
      BY <1>2, <3>1 DEF RepliesTyped, BaseTyped, TypedInv, Alone
  <2>5. ~busy'
    BY <1>2 DEF RepliesTyped
  <2> QED
    BY <2>2, <2>3, <2>4, <2>5 DEF TypedInv, NoBase, NoNames, NoValues
<1>3. CASE Expand
  <2> DEFINE n == Head(work)
  <2>1. /\ busy /\ work # <<>> /\ n.kind \notin Leaves
        /\ work' = Parts(n) \o Tail(work)
        /\ UNCHANGED <<calls, values, base, out, busy, results>>
    BY <1>3 DEF Expand, parser
  <2>2. ASSUME NEW type, Under(type) PROVE Under(type)'
    <3>1. IsSeq(work)
      BY DEF IsSeq, TypeInv, TypeOK
    <3>2. Fits(n, type)
      BY <2>1, <2>2, <3>1, TailIsSeq DEF Under
    <3>3. IsSeq(Parts(n)) /\ \A i \in DOMAIN Parts(n) : Fits(Parts(n)[i], type)
      BY <2>1, <3>2, PartsFit
    <3>4. IsSeq(Tail(work)) /\ \A i \in DOMAIN Tail(work) : Fits(Tail(work)[i], type)
      BY <2>1, <2>2, <3>1, TailIsSeq DEF Under
    <3> HIDE DEF n
    <3>5. \A i \in DOMAIN work' : Fits(work'[i], type)
      <4> DEFINE s == Parts(n)
                 t == Tail(work)
      <4>1. PICK S : s \in Seq(S)
        BY <3>3 DEF IsSeq
      <4>2. PICK T : t \in Seq(T)
        BY <3>4 DEF IsSeq
      <4>3. s \in Seq(S \cup T) /\ t \in Seq(S \cup T)
        BY <4>1, <4>2
      <4> HIDE DEF s, t
      <4>4. ASSUME NEW i \in DOMAIN (s \o t)
            PROVE  \/ i \in DOMAIN s /\ (s \o t)[i] = s[i]
                   \/ i - Len(s) \in DOMAIN t /\ (s \o t)[i] = t[i - Len(s)]
        <5>1. i \in 1..Len(s) + Len(t) /\ Len(s) \in Nat /\ Len(t) \in Nat
              /\ DOMAIN s = 1..Len(s) /\ DOMAIN t = 1..Len(t)
          BY <4>3
        <5>2. CASE i <= Len(s)
          BY <4>3, <5>1, <5>2
        <5>3. CASE ~(i <= Len(s))
          BY <4>3, <5>1, <5>3
        <5> QED
          BY <5>2, <5>3
      <4> QED
        BY <2>1, <3>3, <3>4, <4>4 DEF s, t
    <3> QED
      BY <2>1, <2>2, <3>5 DEF Under, Fits, Refs
  <2> QED
    BY <2>1, <2>2, TypedUnder
<1>4. CASE PushText
  <2> DEFINE token == Written(Head(work).text)
  <2>1. token.kind = "text"
    BY DEF Written
  <2>2. /\ busy /\ work # <<>> /\ work' = Tail(work) /\ out' = Append(out, token)
        /\ UNCHANGED <<calls, values, base, results>>
    BY <1>4 DEF PushText, Part, Next1, parser
  <2> HIDE DEF token
  <2>3. ASSUME NEW type, Under(type) PROVE Under(type)'
    BY <2>1, <2>2, <2>3, UnderToken
  <2> QED
    BY <2>2, <2>3, TypedUnder
<1>5. CASE Attribute
  <2> DEFINE k == Head(work).name
             r == IF k \in DOMAIN names_inv THEN names_inv[k] ELSE Cardinality(DOMAIN names)
             token == NameRef(r)
  <2>1. token.kind = "name"
    BY DEF NameRef
  <2>2. /\ busy /\ work # <<>> /\ work' = Tail(work) /\ out' = Append(out, token)
        /\ UNCHANGED <<calls, values, base, results>>
    BY <1>5 DEF Attribute, Part, Next1
  <2> HIDE DEF token
  <2>3. ASSUME NEW type, Under(type) PROVE Under(type)'
    BY <2>1, <2>2, <2>3, UnderToken
  <2> QED
    BY <2>2, <2>3, TypedUnder
<1>6. CASE Value
  <2> DEFINE r == Next0(values)
             v == Head(work).val
             token == ValueRef(r)
  <2>1. token.kind = "value" /\ token.ref = r
    BY DEF ValueRef
  <2>2. /\ busy /\ work # <<>> /\ work' = Tail(work) /\ out' = Append(out, token)
        /\ values' = Insert(values, r, v)
        /\ Head(work).kind = "literal"
        /\ UNCHANGED <<calls, base, results>>
    BY <1>6 DEF Value, Part, Next1, Next0
  <2> HIDE DEF token
  <2>3. values'[r] = v /\ \A x \in DOMAIN values : values'[x] = values[x]
    <3>1. Numbered(values)
      BY DEF TypeInv
    <3> HIDE DEF v
    <3> DEFINE g == Insert(values, Next0(values), v)
    <3>2. g[Next0(values)] = v /\ \A x \in DOMAIN values : g[x] = values[x]
      BY <3>1, NumberedInsert, Zenon
    <3>3. values' = g
      BY <2>2
    <3> QED
      BY <3>2, <3>3
  <2>4. ASSUME NEW type, Under(type) PROVE Under(type)'
    <3>1. IsSeq(work)
      BY DEF IsSeq, TypeInv, TypeOK
    <3>2. Fits(Head(work), type)
      BY <2>2, <2>4, <3>1, TailIsSeq DEF Under
    <3>3. v.type = type
      BY <2>2, <3>2 DEF Fits
    <3> HIDE DEF r, v
    <3> QED
      BY <2>1, <2>2, <2>3, <2>4, <3>3, UnderToken
  <2> QED
    BY <2>2, <2>4, TypedUnder
<1>7. CASE Return
  <2> DEFINE c == Head(calls)
             ns == Extended(base.names, names)
             vs == Extended(base.values, values)
  <2>1. /\ busy /\ calls # <<>> /\ calls' = Tail(calls) /\ ~busy'
        /\ UNCHANGED <<names, values, base>>
        /\ Succeeds(Joined, ns, vs)
    BY <1>7 DEF Return, TypeInv, TypeOK, parser
  <2>2. PICK r : /\ results' = Append(results, r) /\ r.call = c /\ r.exp = Joined
                 /\ r.values = vs /\ r.suggest = Rejected
    BY <2>1, SucceedsResult
  <2>3. DOMAIN vs = DOMAIN base.values \cup DOMAIN values /\ \A x \in DOMAIN values : vs[x] = values[x]
    BY DEF Extended
  <2>4. Refs(out, "value") \subseteq DOMAIN values
    BY RefsIn DEF TypeInv, TypeOK
  <2> HIDE DEF vs
  <2>5. ASSUME c.kind = "sort" PROVE \A x \in Refs(r.exp, "value") : r.values[x].type \in KeyTypes(c)
    <3>1. base = NoBase
      BY <2>1, <2>5 DEF TypedInv, Alone
    <3>2. Joined = out
      BY <3>1 DEF Joined, NoBase
    <3>3. PICK type \in KeyTypes(c) : Under(type)
      BY <2>1, <2>5 DEF TypedInv
    <3> QED
      BY <2>2, <2>3, <2>4, <3>2, <3>3 DEF Under
  <2>6. ASSUME c.kind = "query" PROVE \A x \in DOMAIN r.values \ {Pk} : r.values[x].type \in KeyTypes(c)
    <3>1. PICK type \in KeyTypes(c) : Under(type)
      BY <2>1, <2>6 DEF TypedInv
    <3>2. results = <<>>
      BY <2>1, <2>6, LoneHead DEF RequestInv, TypeInv, Alone
    <3>3. DOMAIN values = Refs(out, "value")
      <4>1. Len(<<>>) = 0
        OBVIOUS
      <4> QED
        BY <2>1, <3>2, <4>1, UsedNone DEF RequestInv, Defined
    <3>4. \A x \in DOMAIN r.values \ {Pk} : x \in DOMAIN values
      BY <2>2, <2>3 DEF TypedInv
    <3> QED
      BY <2>2, <2>3, <3>1, <3>3, <3>4 DEF Under
  <2>7. SortKeyTyped' /\ SuggestionAccepted'
    BY <1>s, <2>2, <2>5, <2>6, TypedAdded, NothingSuggested DEF TypedInv
  <2>8. ASSUME calls' # <<>> PROVE base' = NoBase
    BY <2>1, <2>8, LoneHead DEF RequestInv, TypeInv, TypedInv
  <2> QED
    BY <2>1, <2>7, <2>8 DEF TypedInv, NoBase, NoNames, NoValues
<1>8. CASE UNCHANGED vars
  <2>1. SortKeyTyped' /\ SuggestionAccepted'
    BY <1>8, TypedSame DEF vars, TypedInv
  <2> QED
    BY <1>8, <2>1 DEF vars, parser, TypedInv, NoBase, NoNames, NoValues, Under, Fits, Refs, KeyTypes,
                      Targets
<1> QED
  BY <1>0, <1>1, <1>2, <1>3, <1>4, <1>5, <1>6, <1>7, <1>8, TypedSteps

\* In every sequence of calls, and however a sort key condition was read, it is
\* compared with values of the key's type only.
THEOREM SortKeysTyped == Spec => []SortKeyTyped
<1>1. TypedInv => SortKeyTyped
  BY DEF TypedInv
<1> QED
  BY <1>1, TypesKept, RequestInit, RequestStep, TypedInit, TypedStep, PTL DEF Spec

\* What the strict mode suggests for a condition it rejects, it accepts and reads
\* as suggested.
THEOREM SuggestionsAccepted == Spec => []SuggestionAccepted
<1>1. TypedInv => SuggestionAccepted
  BY DEF TypedInv
<1> QED
  BY <1>1, TypesKept, RequestInit, RequestStep, TypedInit, TypedStep, PTL DEF Spec

-----------------------------------------------------------------------------
(* What was written *)

Signs == {",", ".", "=", "+", "-", "list_append(", "if_not_exists(", ")"}
Symbols == Nodes \cup {Text(t) : t \in Signs}

Conditional == {"compare", "between", "begins_with"}

\* The trees below a tree.
LEMMA Below ==
  ASSUME NEW t \in Nodes
  PROVE  /\ t.kind \in {"+", "-", "list_append"} =>
              /\ t.lhs \in Nodes /\ Height[t.lhs] < Height[t]
              /\ t.rhs \in Nodes /\ Height[t.rhs] < Height[t]
         /\ t.kind \in {"if_not_exists", "assign"} =>
              /\ t.path \in Nodes /\ Height[t.path] < Height[t]
              /\ t.value \in Nodes /\ Height[t.value] < Height[t]
<1>1. t.kind \notin Leaves => Parts(t) \in Seq(Nodes) /\ \A i \in DOMAIN Parts(t) : Height[Parts(t)[i]] < Height[t]
  BY NodesAssumption DEF MadeOf
<1>2. CASE t.kind \in {"+", "-"}
  <2>1. Parts(t) = <<t.lhs, Text(t.kind), t.rhs>>
    BY <1>2 DEF Parts, Arithmetic
  <2>2. 1 \in DOMAIN Parts(t) /\ 3 \in DOMAIN Parts(t) /\ Parts(t)[1] = t.lhs /\ Parts(t)[3] = t.rhs
    BY <2>1
  <2>3. t.lhs \in Nodes /\ t.rhs \in Nodes /\ Height[t.lhs] < Height[t] /\ Height[t.rhs] < Height[t]
    BY <1>1, <1>2, <2>2 DEF Leaves
  <2> QED
    BY <1>2, <2>3
<1>3. CASE t.kind = "list_append"
  <2>1. Parts(t) = <<Text("list_append("), t.lhs, Text(","), t.rhs, Text(")")>>
    BY <1>3 DEF Parts
  <2>2. 2 \in DOMAIN Parts(t) /\ 4 \in DOMAIN Parts(t) /\ Parts(t)[2] = t.lhs /\ Parts(t)[4] = t.rhs
    <3> DEFINE a == Text("list_append(")
               b == t.lhs
               c == Text(",")
               d == t.rhs
               e == Text(")")
               s == Parts(t)
    <3>1. s = <<a, b, c, d, e>>
      BY <2>1
    <3> HIDE DEF a, b, c, d, e, s
    <3>2. 2 \in DOMAIN s /\ 4 \in DOMAIN s /\ s[2] = b /\ s[4] = d
      BY <3>1
    <3> QED
      BY <3>2 DEF s, b, d
  <2>3. t.lhs \in Nodes /\ t.rhs \in Nodes /\ Height[t.lhs] < Height[t] /\ Height[t.rhs] < Height[t]
    BY <1>1, <1>3, <2>2 DEF Leaves
  <2> QED
    BY <1>3, <2>3
<1>4. CASE t.kind = "if_not_exists"
  <2>1. Parts(t) = <<Text("if_not_exists("), t.path, Text(","), t.value, Text(")")>>
    BY <1>4 DEF Parts
  <2>2. 2 \in DOMAIN Parts(t) /\ 4 \in DOMAIN Parts(t) /\ Parts(t)[2] = t.path /\ Parts(t)[4] = t.value
    <3> DEFINE a == Text("if_not_exists(")
               b == t.path
               c == Text(",")
               d == t.value
               e == Text(")")
               s == Parts(t)
    <3>1. s = <<a, b, c, d, e>>
      BY <2>1
    <3> HIDE DEF a, b, c, d, e, s
    <3>2. 2 \in DOMAIN s /\ 4 \in DOMAIN s /\ s[2] = b /\ s[4] = d
      BY <3>1
    <3> QED
      BY <3>2 DEF s, b, d
  <2>3. t.path \in Nodes /\ t.value \in Nodes /\ Height[t.path] < Height[t] /\ Height[t.value] < Height[t]
    BY <1>1, <1>4, <2>2 DEF Leaves
  <2> QED
    BY <1>4, <2>3
<1>5. CASE t.kind = "assign"
  <2>1. Parts(t) = <<t.path, Text("="), t.value>>
    BY <1>5 DEF Parts
  <2>2. 1 \in DOMAIN Parts(t) /\ 3 \in DOMAIN Parts(t) /\ Parts(t)[1] = t.path /\ Parts(t)[3] = t.value
    BY <2>1
  <2>3. t.path \in Nodes /\ t.value \in Nodes /\ Height[t.path] < Height[t] /\ Height[t.value] < Height[t]
    BY <1>1, <1>5, <2>2 DEF Leaves
  <2> QED
    BY <1>5, <2>3
<1> QED
  BY <1>2, <1>3, <1>4, <1>5

\* Signs are symbols.
LEMMA SignsAre == \A s \in Signs : Text(s) \in Symbols
  BY DEF Symbols

\* A path with its dots is a sequence of its elements and dots.
LEMMA DottedType ==
  ASSUME NEW S, Text(".") \in S, NEW elements \in Seq(S)
  PROVE  Dotted(elements) \in Seq(S)
<1> DEFINE n == Len(elements)
           seqs == [i \in DOMAIN elements |->
                      IF i < n /\ elements[i + 1].kind = "attribute"
                      THEN <<elements[i], Text(".")>> ELSE <<elements[i]>>]
           A == Seq(S)
<1>1. n \in Nat /\ DOMAIN elements = 1..n /\ \A i \in 1..n : elements[i] \in S
  OBVIOUS
<1>3. \A x \in S : <<x>> \in A /\ <<x, Text(".")>> \in A
  OBVIOUS
<1> HIDE DEF A, n
<1>4. seqs \in [1..n -> A]
  BY <1>1, <1>3
<1> HIDE DEF seqs
<1>5. seqs \in Seq(A)
  BY <1>1, <1>4, FunctionIsSeq
<1>6. FlattenSeq(seqs) \in A
  BY <1>5, FlattenSteps DEF A
<1> QED
  BY <1>6 DEF Dotted, A, seqs, n

\* What is written for a list is made of symbols.
LEMMA ListedType ==
  ASSUME NEW sources \in Seq(Seq(Symbols))
  PROVE  Listed(sources) \in Seq(Symbols)
<1> DEFINE n == Len(sources)
           seqs == [i \in DOMAIN sources |-> IF i < n THEN Append(sources[i], Text(",")) ELSE sources[i]]
           A == Seq(Symbols)
<1>1. n \in Nat /\ DOMAIN sources = 1..n /\ \A i \in 1..n : sources[i] \in A
  OBVIOUS
<1>2. Text(",") \in Symbols
  BY SignsAre DEF Signs
<1>3. \A x \in A : Append(x, Text(",")) \in A
  <2> DEFINE comma == Text(",")
  <2>1. comma \in Symbols
    BY <1>2
  <2> HIDE DEF comma
  <2>2. \A x \in A : Append(x, comma) \in A
    BY <2>1
  <2> QED
    BY <2>2 DEF comma
<1> HIDE DEF A, n
<1>4. seqs \in [1..n -> A]
  BY <1>1, <1>3
<1> HIDE DEF seqs
<1>5. seqs \in Seq(A)
  BY <1>1, <1>4, FunctionIsSeq
<1>6. FlattenSeq(seqs) \in A
  BY <1>5, FlattenSteps DEF A
<1> QED
  BY <1>6 DEF Listed, A, seqs, n

\* Sources of the members of a list.
LEMMA SourcesType ==
  ASSUME NEW list \in Seq(Nodes), NEW f \in [Nodes -> Seq(Symbols)]
  PROVE  [i \in DOMAIN list |-> f[list[i]]] \in Seq(Seq(Symbols))
<1> DEFINE n == Len(list)
           A == Seq(Symbols)
           g == [i \in DOMAIN list |-> f[list[i]]]
<1>1. n \in Nat /\ DOMAIN list = 1..n /\ \A i \in 1..n : list[i] \in Nodes
  OBVIOUS
<1>2. f \in [Nodes -> A]
  OBVIOUS
<1> HIDE DEF A, n
<1>3. g \in [1..n -> A]
  BY <1>1, <1>2
<1> HIDE DEF g
<1>4. g \in Seq(A)
  BY <1>1, <1>3, FunctionIsSeq
<1> QED
  BY <1>4 DEF g, A

\* The source is made of symbols.
LEMMA SourceFromType ==
  ASSUME NEW t \in Nodes, NEW f \in [Nodes -> Seq(Symbols)]
  PROVE  SourceFrom(t, f) \in Seq(Symbols)
<1> DEFINE A == Seq(Symbols)
<1>1. \A s \in Signs : <<Text(s)>> \in A
  BY SignsAre
<1>2. \A x, y \in A : x \o y \in A
  OBVIOUS
<1>3. \A n \in Nodes : f[n] \in A
  OBVIOUS
<1>4. t.kind \in Kinds
  BY NodesAssumption
<1>5. CASE t.kind \in Leaves
  <2>1. SourceFrom(t, f) = <<t>>
    BY <1>5 DEF SourceFrom, Leaves
  <2>2. t \in Symbols
    BY DEF Symbols
  <2>3. <<t>> \in A
    BY <2>2
  <2> QED
    BY <2>1, <2>3
<1>6. CASE t.kind = "path"
  <2>1. t.elements \in Seq(Symbols)
    BY <1>6, NodesAssumption DEF MadeOf, Symbols
  <2>2. SourceFrom(t, f) = Dotted(t.elements)
    BY <1>6 DEF SourceFrom, Leaves
  <2>3. Text(".") \in Symbols
    BY SignsAre DEF Signs
  <2> QED
    BY <2>1, <2>2, <2>3, DottedType
<1>7. CASE t.kind \in {"+", "-"}
  <2>1. SourceFrom(t, f) = f[t.lhs] \o <<Text(t.kind)>> \o f[t.rhs]
    BY <1>7 DEF SourceFrom, Leaves
  <2>2. f[t.lhs] \in A /\ f[t.rhs] \in A /\ <<Text(t.kind)>> \in A
    BY <1>1, <1>3, <1>7, Below DEF Signs
  <2> HIDE DEF A
  <2>3. f[t.lhs] \o <<Text(t.kind)>> \o f[t.rhs] \in A
    BY <1>2, <2>2
  <2> QED
    BY <2>1, <2>3 DEF A
<1>8. CASE t.kind = "list_append"
  <2>1. SourceFrom(t, f) = <<Text("list_append(")>> \o f[t.lhs] \o <<Text(",")>> \o f[t.rhs] \o <<Text(")")>>
    BY <1>8 DEF SourceFrom, Leaves
  <2>2. f[t.lhs] \in A /\ f[t.rhs] \in A
    BY <1>3, <1>8, Below
  <2>3. <<Text("list_append(")>> \in A /\ <<Text(",")>> \in A /\ <<Text(")")>> \in A
    BY <1>1 DEF Signs
  <2> HIDE DEF A
  <2>4. <<Text("list_append(")>> \o f[t.lhs] \o <<Text(",")>> \o f[t.rhs] \o <<Text(")")>> \in A
    BY <1>2, <2>2, <2>3
  <2> QED
    BY <2>1, <2>4 DEF A
<1>9. CASE t.kind = "if_not_exists"
  <2>1. SourceFrom(t, f)
          = <<Text("if_not_exists(")>> \o f[t.path] \o <<Text(",")>> \o f[t.value] \o <<Text(")")>>
    BY <1>9 DEF SourceFrom, Leaves
  <2>2. f[t.path] \in A /\ f[t.value] \in A
    BY <1>3, <1>9, Below
  <2>3. <<Text("if_not_exists(")>> \in A /\ <<Text(",")>> \in A /\ <<Text(")")>> \in A
    BY <1>1 DEF Signs
  <2> HIDE DEF A
  <2>4. <<Text("if_not_exists(")>> \o f[t.path] \o <<Text(",")>> \o f[t.value] \o <<Text(")")>> \in A
    BY <1>2, <2>2, <2>3
  <2> QED
    BY <2>1, <2>4 DEF A
<1>10. CASE t.kind = "assign"
  <2>1. SourceFrom(t, f) = f[t.path] \o <<Text("=")>> \o f[t.value]
    BY <1>10 DEF SourceFrom, Leaves
  <2>2. f[t.path] \in A /\ f[t.value] \in A /\ <<Text("=")>> \in A
    BY <1>1, <1>3, <1>10, Below DEF Signs
  <2> HIDE DEF A
  <2>3. f[t.path] \o <<Text("=")>> \o f[t.value] \in A
    BY <1>2, <2>2
  <2> QED
    BY <2>1, <2>3 DEF A
<1>11. CASE t.kind = "actions"
  <2> DEFINE sources == [i \in DOMAIN t.list |-> f[t.list[i]]]
  <2>1. t.list \in Seq(Nodes)
    BY <1>11, NodesAssumption DEF MadeOf
  <2>2. SourceFrom(t, f) = Listed(sources)
    BY <1>11 DEF SourceFrom, Leaves
  <2>3. sources \in Seq(Seq(Symbols))
    BY <2>1, SourcesType
  <2> HIDE DEF sources
  <2> QED
    BY <2>2, <2>3, ListedType
<1>12. CASE t.kind \in Conditional
  <2>1. SourceFrom(t, f) = Parts(t)
    BY <1>12 DEF SourceFrom, Leaves, Conditional
  <2>2. Parts(t) \in Seq(Symbols)
    BY <1>12, NodesAssumption DEF MadeOf, Symbols, Conditional, Leaves
  <2> QED
    BY <2>1, <2>2
<1> QED
  BY <1>4, <1>5, <1>6, <1>7, <1>8, <1>9, <1>10, <1>11, <1>12 DEF Kinds, Conditional

\* It depends on what is lower only.
LEMMA SourceFromAgrees ==
  ASSUME NEW t \in Nodes, NEW f, NEW g,
         \A m \in Nodes : Height[m] < Height[t] => f[m] = g[m]
  PROVE  SourceFrom(t, f) = SourceFrom(t, g)
<1>1. t.kind \in {"+", "-", "list_append"} => f[t.lhs] = g[t.lhs] /\ f[t.rhs] = g[t.rhs]
  BY Below
<1>2. t.kind \in {"if_not_exists", "assign"} => f[t.path] = g[t.path] /\ f[t.value] = g[t.value]
  BY Below
<1>3. t.kind = "actions" => [i \in DOMAIN t.list |-> f[t.list[i]]] = [i \in DOMAIN t.list |-> g[t.list[i]]]
  <2>1. ASSUME t.kind = "actions", NEW i \in DOMAIN t.list PROVE f[t.list[i]] = g[t.list[i]]
    BY <2>1, NodesAssumption DEF MadeOf
  <2> QED
    BY <2>1
<1>4. t.kind \in Kinds
  BY NodesAssumption
<1>5. CASE t.kind \in Leaves \cup {"path"} \cup Conditional
  BY <1>5 DEF SourceFrom, Leaves, Conditional
<1>6. CASE t.kind \in {"+", "-"}
  BY <1>1, <1>6 DEF SourceFrom, Leaves
<1>7. CASE t.kind = "list_append"
  BY <1>1, <1>7 DEF SourceFrom, Leaves
<1>8. CASE t.kind = "if_not_exists"
  BY <1>2, <1>8 DEF SourceFrom, Leaves
<1>9. CASE t.kind = "assign"
  BY <1>2, <1>9 DEF SourceFrom, Leaves
<1>10. CASE t.kind = "actions"
  <2>1. SourceFrom(t, f) = Listed([i \in DOMAIN t.list |-> f[t.list[i]]])
    BY <1>10 DEF SourceFrom, Leaves
  <2>2. SourceFrom(t, g) = Listed([i \in DOMAIN t.list |-> g[t.list[i]]])
    BY <1>10 DEF SourceFrom, Leaves
  <2> QED
    BY <1>3, <1>10, <2>1, <2>2
<1> QED
  BY <1>4, <1>5, <1>6, <1>7, <1>8, <1>9, <1>10 DEF Kinds, Conditional

\* Source is what its definition says.
LEMMA SourceIs ==
  /\ Source \in [Nodes -> Seq(Symbols)]
  /\ \A t \in Nodes : Source[t] = SourceFrom(t, Source)
<1> DEFINE A == Seq(Symbols)
           step == [t \in Nodes |-> [f \in [Nodes -> A] |-> SourceFrom(t, f)]]
           Defined1(f) == f = [t \in Nodes |-> SourceFrom(t, f)]
<1>1. A # {} /\ Height \in [Nodes -> Nat]
  <2>1. <<>> \in A
    OBVIOUS
  <2> QED
    BY <2>1, NodesAssumption
<1>2. \A t \in Nodes : \A f \in [Nodes -> A] : SourceFrom(t, f) \in A
  BY SourceFromType
<1>3. \A t \in Nodes : \A f, g \in [Nodes -> A] :
        (\A m \in Nodes : Height[m] < Height[t] => f[m] = g[m]) => SourceFrom(t, f) = SourceFrom(t, g)
  BY SourceFromAgrees
<1> HIDE DEF A
<1>4. Definition(Nodes, A, Height, step)
  <2>1. step \in [Nodes -> [[Nodes -> A] -> A]]
    BY <1>2
  <2>2. \A t \in Nodes : \A f \in [Nodes -> A] : step[t][f] = SourceFrom(t, f)
    OBVIOUS
  <2> HIDE DEF step
  <2>3. \A t \in Nodes : \A f, g \in [Nodes -> A] :
          (\A m \in Nodes : Height[m] < Height[t] => f[m] = g[m]) => step[t][f] = step[t][g]
    BY <1>3, <2>2
  <2> QED
    BY <1>1, <2>1, <2>3 DEF Definition
<1>5. PICK f \in [Nodes -> A] : \A t \in Nodes : f[t] = step[t][f]
  <2> HIDE DEF step
  <2> QED
    BY <1>4, RecursiveFunction
<1>6. \A t \in Nodes : f[t] = SourceFrom(t, f)
  BY <1>5
<1>7. Defined1(f)
  BY <1>6
<1>8. Source = CHOOSE g : Defined1(g)
  BY DEF Source
<1>9. Defined1(Source)
  <2> HIDE DEF Defined1
  <2> QED
    BY <1>7, <1>8
<1> DEFINE h == Source
<1>10. h = [t \in Nodes |-> SourceFrom(t, h)]
  BY <1>9
<1> HIDE DEF h
<1>11. DOMAIN h = Nodes /\ \A t \in Nodes : h[t] = SourceFrom(t, h)
  BY <1>10
<1>12. h \in [Nodes -> A]
  <2> DEFINE T == {k \in Nat : \E t \in Nodes : Height[t] = k /\ h[t] # f[t]}
  <2>1. ASSUME NEW t \in Nodes, \A m \in Nodes : Height[m] < Height[t] => h[m] = f[m]
        PROVE  h[t] = f[t]
    BY <1>6, <1>11, <2>1, SourceFromAgrees
  <2>2. ASSUME T # {} PROVE FALSE
    <3>1. PICK k \in T : \A l \in T : k <= l
      BY <2>2, Least
    <3>2. PICK t \in Nodes : Height[t] = k /\ h[t] # f[t]
      BY <3>1
    <3>3. \A m \in Nodes : Height[m] < Height[t] => h[m] = f[m]
      BY <1>1, <3>1, <3>2
    <3> QED
      BY <2>1, <3>2, <3>3
  <2>3. \A t \in Nodes : h[t] = f[t] /\ f[t] \in A
    BY <1>1, <2>2
  <2>4. h = [t \in Nodes |-> h[t]]
    BY <1>10
  <2> HIDE DEF T
  <2> QED
    BY <2>3, <2>4
<1> QED
  BY <1>11, <1>12 DEF A, h

-----------------------------------------------------------------------------
(* What is still to be written *)

Spelled(x) == IF x.kind \in Leaves THEN <<x>> ELSE Source[x]
Spells(u) == [i \in DOMAIN u |-> Spelled(u[i])]
Yields(u) == FlattenSeq(Spells(u))

\* Trees and signs are spelled with symbols.
LEMMA SpelledType ==
  /\ \A x \in Symbols : Spelled(x) \in Seq(Symbols)
  /\ \A t \in Nodes : Spelled(t) = Source[t]
  /\ \A s \in Signs : Spelled(Text(s)) = <<Text(s)>>
<1>1. ASSUME NEW s \in Signs PROVE Spelled(Text(s)) = <<Text(s)>>
  BY DEF Spelled, Text, Leaves
<1>2. ASSUME NEW t \in Nodes PROVE Spelled(t) = Source[t] /\ Source[t] \in Seq(Symbols)
  <2>1. Source[t] \in Seq(Symbols) /\ Source[t] = SourceFrom(t, Source)
    BY SourceIs
  <2>2. CASE t.kind \in Leaves
    <3>1. SourceFrom(t, Source) = <<t>>
      BY <2>2 DEF SourceFrom, Leaves
    <3> QED
      BY <2>1, <2>2, <3>1 DEF Spelled
  <2>3. CASE t.kind \notin Leaves
    BY <2>1, <2>3 DEF Spelled
  <2> QED
    BY <2>2, <2>3
<1>3. ASSUME NEW x \in Symbols PROVE Spelled(x) \in Seq(Symbols)
  <2>1. CASE x \in Nodes
    BY <1>2, <2>1
  <2>2. CASE x \notin Nodes
    <3>1. PICK s \in Signs : x = Text(s)
      BY <2>2 DEF Symbols
    <3>2. <<x>> \in Seq(Symbols)
      OBVIOUS
    <3> QED
      BY <1>1, <3>1, <3>2
  <2> QED
    BY <2>1, <2>2
<1> QED
  BY <1>1, <1>2, <1>3

\* There is a spelling for each part.
LEMMA SpellsType ==
  ASSUME NEW u \in Seq(Symbols)
  PROVE  /\ Spells(u) \in Seq(Seq(Symbols))
         /\ DOMAIN Spells(u) = DOMAIN u
         /\ Len(Spells(u)) = Len(u)
<1> DEFINE A == Seq(Symbols)
           n == Len(u)
           g == Spells(u)
<1>1. n \in Nat /\ DOMAIN u = 1..n /\ \A i \in 1..n : u[i] \in Symbols
  OBVIOUS
<1>2. \A i \in 1..n : Spelled(u[i]) \in A
  BY <1>1, SpelledType
<1> HIDE DEF A, n
<1>3. g \in [1..n -> A]
  BY <1>1, <1>2 DEF Spells
<1> HIDE DEF g
<1>4. g \in Seq(A) /\ Len(g) = n /\ DOMAIN g = 1..n
  BY <1>1, <1>3, FunctionIsSeq
<1> QED
  BY <1>1, <1>4 DEF g, A, n

\* A sequence of the elements of two.
LEMMA ConcatIs ==
  ASSUME NEW A, NEW s \in Seq(A), NEW t \in Seq(A), NEW w \in Seq(A), Len(w) = Len(s) + Len(t),
         \A i \in 1..Len(s) : w[i] = s[i],
         \A i \in 1..Len(t) : w[Len(s) + i] = t[i]
  PROVE  w = s \o t
<1>1. Len(s) \in Nat /\ Len(t) \in Nat
  OBVIOUS
<1>2. s \o t \in Seq(A) /\ Len(s \o t) = Len(s) + Len(t)
  OBVIOUS
<1>3. \A i \in 1..Len(s \o t) : (s \o t)[i] = IF i <= Len(s) THEN s[i] ELSE t[i - Len(s)]
  OBVIOUS
<1>4. ASSUME NEW i \in 1..Len(w) PROVE w[i] = (s \o t)[i]
  <2>1. CASE i <= Len(s)
    BY <1>1, <1>2, <1>3, <2>1
  <2>2. CASE ~ i <= Len(s)
    <3>1. i - Len(s) \in 1..Len(t) /\ Len(s) + (i - Len(s)) = i
      BY <1>1, <2>2
    <3>2. w[Len(s) + (i - Len(s))] = t[i - Len(s)]
      BY <3>1
    <3> QED
      BY <1>2, <1>3, <2>2, <3>1, <3>2
  <2> QED
    BY <2>1, <2>2
<1> DEFINE x == s \o t
<1>5. x \in Seq(A) /\ Len(x) = Len(w) /\ \A i \in 1..Len(w) : w[i] = x[i]
  BY <1>2, <1>4
<1> HIDE DEF x
<1>6. w = x
  BY <1>5
<1> QED
  BY <1>6 DEF x

\* What sequences yield is put together as they are.
LEMMA YieldsConcat ==
  ASSUME NEW u \in Seq(Symbols), NEW v \in Seq(Symbols)
  PROVE  Yields(u \o v) = Yields(u) \o Yields(v) /\ u \o v \in Seq(Symbols)
<1>1. u \o v \in Seq(Symbols)
  OBVIOUS
<1>2. Spells(u \o v) = Spells(u) \o Spells(v)
  <2> DEFINE A == Seq(Symbols)
             n == Len(u)
             m == Len(v)
             b == u \o v
             s == Spells(u)
             t == Spells(v)
             w == Spells(b)
  <2>1. /\ s \in Seq(A) /\ Len(s) = n
        /\ t \in Seq(A) /\ Len(t) = m
    BY SpellsType
  <2>2. Len(b) = n + m
    OBVIOUS
  <2>3. w \in Seq(A) /\ Len(w) = Len(b)
    <3>1. b \in Seq(Symbols)
      BY <1>1
    <3> HIDE DEF b
    <3> QED
      BY <3>1, SpellsType
  <2>4. \A i \in 1..n : i \in DOMAIN b /\ b[i] = u[i] /\ i \in DOMAIN u
    OBVIOUS
  <2>5. \A i \in 1..m : n + i \in DOMAIN b /\ b[n + i] = v[i] /\ i \in DOMAIN v
    OBVIOUS
  <2> HIDE DEF b
  <2>6. \A i \in 1..n : w[i] = s[i]
    BY <2>4 DEF Spells
  <2>7. \A i \in 1..m : w[n + i] = t[i]
    BY <2>5 DEF Spells
  <2> HIDE DEF n, m, s, t, w, A
  <2>8. s \in Seq(A) /\ t \in Seq(A) /\ w \in Seq(A) /\ Len(w) = Len(s) + Len(t)
    BY <2>1, <2>2, <2>3
  <2>9. (\A i \in 1..Len(s) : w[i] = s[i]) /\ (\A i \in 1..Len(t) : w[Len(s) + i] = t[i])
    BY <2>1, <2>6, <2>7
  <2>10. w = s \o t
    BY <2>8, <2>9, ConcatIs, Zenon
  <2> QED
    BY <2>10 DEF w, s, t, b
<1>3. Spells(u) \in Seq(Seq(Symbols)) /\ Spells(v) \in Seq(Seq(Symbols))
  BY SpellsType
<1> QED
  BY <1>1, <1>2, <1>3, FlattenConcat DEF Yields

\* What nothing, something, one more and a few yield.
LEMMA YieldsSteps ==
  /\ Yields(<<>>) = <<>>
  /\ \A u \in Seq(Symbols) : Yields(u) \in Seq(Symbols)
  /\ \A x \in Symbols : Yields(<<x>>) = Spelled(x)
  /\ \A u \in Seq(Symbols), x \in Symbols : Yields(Append(u, x)) = Yields(u) \o Spelled(x)
<1>1. Yields(<<>>) = <<>>
  <2>1. Spells(<<>>) = <<>>
    BY DEF Spells
  <2> QED
    BY <2>1, FlattenSteps DEF Yields
<1>2. ASSUME NEW u \in Seq(Symbols) PROVE Yields(u) \in Seq(Symbols)
  BY SpellsType, FlattenSteps DEF Yields
<1>3. ASSUME NEW x \in Symbols PROVE Yields(<<x>>) = Spelled(x)
  <2> DEFINE s == Spelled(x)
             A == Seq(Symbols)
  <2>1. Spells(<<x>>) = <<s>>
    BY DEF Spells
  <2>2. s \in A /\ <<>> \in Seq(A)
    BY SpelledType
  <2>3. FlattenSeq(Append(<<>>, s)) = FlattenSeq(<<>>) \o s /\ FlattenSeq(<<>>) = <<>>
    BY <2>2, FlattenSteps
  <2>4. Append(<<>>, s) = <<s>> /\ <<>> \o s = s
    BY <2>2
  <2> QED
    BY <2>1, <2>3, <2>4 DEF Yields
<1>4. ASSUME NEW u \in Seq(Symbols), NEW x \in Symbols
      PROVE  Yields(Append(u, x)) = Yields(u) \o Spelled(x)
  <2>1. Append(u, x) = u \o <<x>> /\ <<x>> \in Seq(Symbols)
    OBVIOUS
  <2> QED
    BY <1>3, <2>1, YieldsConcat
<1> QED
  BY <1>1, <1>2, <1>3, <1>4

\* What three parts yield.
LEMMA YieldsThree ==
  ASSUME NEW a \in Symbols, NEW b \in Symbols, NEW c \in Symbols
  PROVE  Yields(<<a, b, c>>) = Spelled(a) \o Spelled(b) \o Spelled(c)
<1>1. <<a>> \in Seq(Symbols) /\ <<a, b>> \in Seq(Symbols)
  OBVIOUS
<1>2. <<a, b>> = Append(<<a>>, b) /\ <<a, b, c>> = Append(<<a, b>>, c)
  OBVIOUS
<1>3. Yields(Append(<<a>>, b)) = Yields(<<a>>) \o Spelled(b) /\ Yields(<<a>>) = Spelled(a)
  BY <1>1, YieldsSteps
<1>4. Yields(Append(<<a, b>>, c)) = Yields(<<a, b>>) \o Spelled(c)
  BY <1>1, YieldsSteps
<1> QED
  BY <1>2, <1>3, <1>4

\* What five parts yield.
LEMMA YieldsFive ==
  ASSUME NEW s \in Seq(Symbols), Len(s) = 5
  PROVE  Yields(s) = Spelled(s[1]) \o Spelled(s[2]) \o Spelled(s[3]) \o Spelled(s[4]) \o Spelled(s[5])
<1> DEFINE a == s[1]
           b == s[2]
           c == s[3]
           d == s[4]
           e == s[5]
<1>0. /\ s = <<a, b, c, d, e>>
      /\ a \in Symbols /\ b \in Symbols /\ c \in Symbols /\ d \in Symbols /\ e \in Symbols
  <2>1. a \in Symbols /\ b \in Symbols /\ c \in Symbols /\ d \in Symbols /\ e \in Symbols
    <3>1. \A i \in 1..5 : s[i] \in Symbols
      OBVIOUS
    <3> QED
      BY <3>1
  <2>2. DOMAIN s = 1..5 /\ \A i \in 1..5 : s[i] = <<a, b, c, d, e>>[i]
    OBVIOUS
  <2>3. s = [i \in 1..5 |-> s[i]]
    BY <2>2
  <2>4. <<a, b, c, d, e>> = [i \in 1..5 |-> <<a, b, c, d, e>>[i]]
    OBVIOUS
  <2> QED
    BY <2>1, <2>2, <2>3, <2>4
<1> HIDE DEF a, b, c, d, e
<1>1. <<a, b, c>> \in Seq(Symbols) /\ <<a, b, c, d>> \in Seq(Symbols)
  BY <1>0
<1>2. <<a, b, c, d>> = Append(<<a, b, c>>, d) /\ <<a, b, c, d, e>> = Append(<<a, b, c, d>>, e)
  BY <1>0
<1>3. Yields(Append(<<a, b, c>>, d)) = Yields(<<a, b, c>>) \o Spelled(d)
  BY <1>0, <1>1, YieldsSteps
<1>4. Yields(Append(<<a, b, c, d>>, e)) = Yields(<<a, b, c, d>>) \o Spelled(e)
  BY <1>0, <1>1, YieldsSteps
<1>5. Yields(<<a, b, c>>) = Spelled(a) \o Spelled(b) \o Spelled(c)
  BY <1>0, YieldsThree
<1> QED
  BY <1>0, <1>2, <1>3, <1>4, <1>5 DEF a, b, c, d, e

\* Leaves are written as they are.
LEMMA YieldsLeaves ==
  ASSUME NEW u \in Seq(Symbols), \A i \in DOMAIN u : u[i].kind \in Leaves
  PROVE  Yields(u) = u
<1>1. Spells(u) = [i \in DOMAIN u |-> <<u[i]>>]
  BY DEF Spells, Spelled
<1> QED
  BY <1>1, FlattenSingles DEF Yields

\* What a sequence of sequences yields.
LEMMA YieldsFlatten ==
  ASSUME NEW n \in Nat, NEW gs \in [1..n -> Seq(Symbols)]
  PROVE  /\ FlattenSeq(gs) \in Seq(Symbols)
         /\ Yields(FlattenSeq(gs)) = FlattenSeq([i \in 1..n |-> Yields(gs[i])])
<1> DEFINE A == Seq(Symbols)
           ys == [i \in 1..n |-> Yields(gs[i])]
           flat(k) == FlattenSeq(SubSeq(gs, 1, k))
           at == [k \in 0..n |-> Yields(flat(k))]
<1>1. \A i \in 1..n : gs[i] \in A /\ Yields(gs[i]) \in A
  BY YieldsSteps
<1>2. gs \in Seq(A) /\ Len(gs) = n
  <2> HIDE DEF A
  <2> QED
    BY <1>1, FunctionIsSeq DEF A
<1>3. ys \in Seq(A) /\ Len(ys) = n
  <2> HIDE DEF A
  <2>1. ys \in [1..n -> A]
    BY <1>1
  <2> HIDE DEF ys
  <2> QED
    BY <2>1, FunctionIsSeq
<1>4. /\ SubSeq(gs, 1, 0) = <<>> /\ SubSeq(gs, 1, n) = gs
      /\ \A k \in 0..n : SubSeq(gs, 1, k) \in Seq(A)
      /\ \A k \in 1..n : SubSeq(gs, 1, k) = Append(SubSeq(gs, 1, k - 1), gs[k])
  BY <1>2, SeqParts
<1>5. flat(0) = <<>> /\ \A k \in 0..n : flat(k) \in A
  BY <1>4, FlattenSteps
<1>6. ASSUME NEW k \in 1..n PROVE flat(k) = flat(k - 1) \o gs[k]
  <2> DEFINE u == SubSeq(gs, 1, k - 1)
             x == gs[k]
  <2>1. k - 1 \in 0..n
    OBVIOUS
  <2>2. u \in Seq(A) /\ x \in A /\ SubSeq(gs, 1, k) = Append(u, x)
    <3> HIDE DEF A
    <3> QED
      BY <1>1, <1>4, <2>1
  <2> HIDE DEF u, x
  <2>3. FlattenSeq(Append(u, x)) = FlattenSeq(u) \o x
    BY <2>2, FlattenSteps
  <2> QED
    BY <2>2, <2>3 DEF u, x
<1> HIDE DEF flat
<1>7. at[0] = <<>>
  BY <1>5, YieldsSteps
<1>8. ASSUME NEW k \in 1..Len(ys) PROVE at[k] = at[k - 1] \o ys[k]
  <2>1. k \in 1..n /\ k - 1 \in 0..n /\ k \in 0..n
    BY <1>3
  <2>2. at[k] = Yields(flat(k)) /\ at[k - 1] = Yields(flat(k - 1)) /\ ys[k] = Yields(gs[k])
    BY <2>1
  <2>3. Yields(flat(k - 1) \o gs[k]) = Yields(flat(k - 1)) \o Yields(gs[k])
    BY <1>1, <1>5, <2>1, YieldsConcat
  <2> QED
    BY <1>6, <2>1, <2>2, <2>3
<1>9. at[n] = Yields(FlattenSeq(gs))
  <2>1. n \in 0..n /\ at[n] = Yields(flat(n))
    OBVIOUS
  <2>2. flat(n) = FlattenSeq(gs)
    BY <1>4 DEF flat
  <2> QED
    BY <2>1, <2>2
<1> HIDE DEF at, ys
<1>10. at[Len(ys)] = FlattenSeq(ys)
  BY <1>3, <1>7, <1>8, FlattenIs
<1>11. FlattenSeq(gs) \in A
  BY <1>2, FlattenSteps
<1> QED
  BY <1>3, <1>9, <1>10, <1>11 DEF ys

\* A dot is written before an attribute, or after what comes before it.
LEMMA PathIsDotted ==
  ASSUME NEW S, Text(".") \in S, NEW e \in Seq(S)
  PROVE  PathParts(e) = Dotted(e)
<1> DEFINE n == Len(e)
           A == Seq(S)
           dot == Text(".")
           attr(i) == e[i].kind = "attribute"
           a == [i \in 1..n |-> <<e[i]>>]
           sep == [i \in 1..n |-> IF i > 1 /\ attr(i) THEN <<dot>> ELSE <<>>]
<1>1. n \in Nat /\ DOMAIN e = 1..n /\ \A i \in 1..n : e[i] \in S
  OBVIOUS
<1>2. a \in [1..n -> A] /\ sep \in [1..n -> A]
  <2>1. \A x \in S : <<x>> \in A
    OBVIOUS
  <2>2. <<>> \in A /\ <<dot>> \in A
    OBVIOUS
  <2> HIDE DEF A, dot
  <2> QED
    BY <1>1, <2>1, <2>2
<1>3. n > 0 => sep[1] = <<>>
  OBVIOUS
<1>4. \A x \in S : /\ <<dot>> \o <<x>> = <<dot, x>> /\ <<x>> \o <<dot>> = <<x, dot>>
                   /\ <<>> \o <<x>> = <<x>> /\ <<x>> \o <<>> = <<x>>
  <2>0. dot \in S
    OBVIOUS
  <2> HIDE DEF dot
  <2>1. ASSUME NEW x \in S PROVE <<dot>> \o <<x>> = <<dot, x>> /\ <<x>> \o <<dot>> = <<x, dot>>
    BY <2>0, Couple
  <2>2. ASSUME NEW x \in S PROVE <<>> \o <<x>> = <<x>> /\ <<x>> \o <<>> = <<x>>
    OBVIOUS
  <2> QED
    BY <2>1, <2>2
<1>5. PathParts(e) = FlattenSeq([i \in 1..n |-> sep[i] \o a[i]])
  <2>1. ASSUME NEW i \in 1..n
        PROVE  (IF i > 1 /\ attr(i) THEN <<dot, e[i]>> ELSE <<e[i]>>) = sep[i] \o a[i]
    BY <1>1, <1>4
  <2>2. PathParts(e) = FlattenSeq([i \in DOMAIN e |-> IF i > 1 /\ attr(i) THEN <<dot, e[i]>> ELSE <<e[i]>>])
    BY DEF PathParts
  <2>3. [i \in DOMAIN e |-> IF i > 1 /\ attr(i) THEN <<dot, e[i]>> ELSE <<e[i]>>]
          = [i \in 1..n |-> sep[i] \o a[i]]
    BY <1>1, <2>1
  <2> QED
    BY <2>2, <2>3
<1>6. Dotted(e) = FlattenSeq([i \in 1..n |-> IF i < n THEN a[i] \o sep[i + 1] ELSE a[i]])
  <2>1. ASSUME NEW i \in 1..n
        PROVE  (IF i < n /\ attr(i + 1) THEN <<e[i], dot>> ELSE <<e[i]>>)
                 = IF i < n THEN a[i] \o sep[i + 1] ELSE a[i]
    <3>1. CASE i < n
      <4>1. i + 1 \in 1..n /\ i + 1 > 1
        BY <1>1, <3>1
      <4>2. sep[i + 1] = IF attr(i + 1) THEN <<dot>> ELSE <<>>
        BY <4>1
      <4>3. a[i] = <<e[i]>> /\ e[i] \in S
        BY <1>1
      <4> HIDE DEF a, sep
      <4> QED
        BY <1>4, <3>1, <4>2, <4>3
    <3>2. CASE ~ i < n
      BY <3>2
    <3> QED
      BY <3>1, <3>2
  <2>2. Dotted(e) = FlattenSeq([i \in DOMAIN e |-> IF i < n /\ attr(i + 1) THEN <<e[i], dot>> ELSE <<e[i]>>])
    BY DEF Dotted
  <2>3. [i \in DOMAIN e |-> IF i < n /\ attr(i + 1) THEN <<e[i], dot>> ELSE <<e[i]>>]
          = [i \in 1..n |-> IF i < n THEN a[i] \o sep[i + 1] ELSE a[i]]
    BY <1>1, <2>1
  <2> QED
    BY <2>2, <2>3
<1> HIDE DEF a, sep, n
<1> QED
  <2> DEFINE x == [i \in 1..n |-> sep[i] \o a[i]]
             y == [i \in 1..n |-> IF i < n THEN a[i] \o sep[i + 1] ELSE a[i]]
  <2>1. x = [i \in 1..n |-> sep[i] \o a[i]] /\ y = [i \in 1..n |-> IF i < n THEN a[i] \o sep[i + 1] ELSE a[i]]
    OBVIOUS
  <2> HIDE DEF x, y
  <2>2. Separates(S, n, a, sep, x, y)
    BY <1>1, <1>2, <1>3, <2>1 DEF Separates
  <2>3. FlattenSeq(x) = FlattenSeq(y)
    BY <2>2, Separated
  <2> QED
    BY <1>5, <1>6, <2>3 DEF x, y

\* A path is made of leaves.
LEMMA PathLeaves ==
  ASSUME NEW e \in Seq(Nodes), \A i \in DOMAIN e : e[i].kind \in Leaves
  PROVE  PathParts(e) = Dotted(e) /\ Yields(PathParts(e)) = Dotted(e)
<1> DEFINE L == {x \in Symbols : x.kind \in Leaves}
<1>1. Text(".") \in L
  BY SignsAre DEF Signs, Text, Leaves
<1>2. e \in Seq(L)
  <2>1. \A i \in DOMAIN e : e[i] \in L
    BY DEF Symbols
  <2> HIDE DEF L
  <2> QED
    BY <2>1
<1>3. \A u \in Seq(L) : u \in Seq(Symbols) /\ \A i \in DOMAIN u : u[i].kind \in Leaves
  OBVIOUS
<1> HIDE DEF L
<1>4. PathParts(e) = Dotted(e) /\ Dotted(e) \in Seq(L)
  BY <1>1, <1>2, PathIsDotted, DottedType
<1> QED
  BY <1>3, <1>4, YieldsLeaves

\* A comma is written before a member of a list, or after the one before it.
LEMMA ListYields ==
  ASSUME NEW list \in Seq(Nodes)
  PROVE  Yields(FlattenSeq([i \in DOMAIN list |-> IF i > 1 THEN <<Text(","), list[i]>> ELSE <<list[i]>>]))
           = Listed([i \in DOMAIN list |-> Source[list[i]]])
<1> DEFINE n == Len(list)
           A == Seq(Symbols)
           comma == Text(",")
           gs == [i \in 1..n |-> IF i > 1 THEN <<comma, list[i]>> ELSE <<list[i]>>]
           a == [i \in 1..n |-> Source[list[i]]]
           sep == [i \in 1..n |-> IF i > 1 THEN <<comma>> ELSE <<>>]
<1>1. n \in Nat /\ DOMAIN list = 1..n /\ \A i \in 1..n : list[i] \in Nodes /\ list[i] \in Symbols
  BY DEF Symbols
<1>2. comma \in Symbols /\ Spelled(comma) = <<comma>>
  BY SignsAre, SpelledType DEF Signs
<1> HIDE DEF comma
<1>3. /\ \A x \in Symbols : <<x>> \in A /\ <<comma, x>> \in A
      /\ <<>> \in A
  BY <1>2
<1>4. \A i \in 1..n : Source[list[i]] \in A /\ Spelled(list[i]) = Source[list[i]]
  BY <1>1, SourceIs, SpelledType
<1>5. gs \in [1..n -> A] /\ a \in [1..n -> A] /\ sep \in [1..n -> A]
  <2> HIDE DEF A, n
  <2> QED
    BY <1>1, <1>2, <1>3, <1>4
<1>6. \A i \in 1..n : Yields(gs[i]) = sep[i] \o a[i]
  <2>1. ASSUME NEW x \in Symbols PROVE Yields(<<comma, x>>) = <<comma>> \o Spelled(x)
    <3>1. <<comma>> \in Seq(Symbols)
      BY <1>2
    <3>0. Append(<<comma>>, x) = <<comma, x>>
      BY <1>2, Couple
    <3>2. Yields(Append(<<comma>>, x)) = Yields(<<comma>>) \o Spelled(x) /\ Yields(<<comma>>) = <<comma>>
      BY <1>2, <3>1, YieldsSteps
    <3> QED
      BY <3>0, <3>2
  <2>2. ASSUME NEW x \in Symbols PROVE Yields(<<x>>) = <<>> \o Spelled(x)
    <3>1. Spelled(x) \in Seq(Symbols) /\ Yields(<<x>>) = Spelled(x)
      BY SpelledType, YieldsSteps
    <3>2. \A s \in Seq(Symbols) : <<>> \o s = s
      OBVIOUS
    <3> QED
      BY <3>1, <3>2
  <2>3. ASSUME NEW i \in 1..n PROVE Yields(gs[i]) = sep[i] \o a[i]
    <3>1. CASE i > 1
      <4>1. gs[i] = <<comma, list[i]>> /\ sep[i] = <<comma>> /\ a[i] = Spelled(list[i])
        BY <1>4, <3>1
      <4> QED
        BY <1>1, <2>1, <4>1
    <3>2. CASE ~ i > 1
      <4>1. gs[i] = <<list[i]>> /\ sep[i] = <<>> /\ a[i] = Spelled(list[i])
        BY <1>4, <3>2
      <4> QED
        BY <1>1, <2>2, <4>1
    <3> QED
      BY <3>1, <3>2
  <2> QED
    BY <2>3
<1>7. n > 0 => sep[1] = <<>>
  OBVIOUS
<1>8. [i \in DOMAIN list |-> IF i > 1 THEN <<comma, list[i]>> ELSE <<list[i]>>] = gs
  BY <1>1
<1>9. Listed([i \in DOMAIN list |-> Source[list[i]]])
        = FlattenSeq([i \in 1..n |-> IF i < n THEN a[i] \o sep[i + 1] ELSE a[i]])
  <2>1. [i \in DOMAIN list |-> Source[list[i]]] = a /\ a \in Seq(A) /\ Len(a) = n /\ DOMAIN a = 1..n
    <3>1. [i \in DOMAIN list |-> Source[list[i]]] = a
      BY <1>1
    <3> HIDE DEF a, A, n
    <3>2. a \in Seq(A) /\ Len(a) = n /\ DOMAIN a = 1..n
      BY <1>1, <1>5, FunctionIsSeq
    <3> QED
      BY <3>1, <3>2
  <2>2. \A s \in A : Append(s, comma) = s \o <<comma>>
    BY <1>2
  <2>3. ASSUME NEW i \in 1..n
        PROVE  (IF i < n THEN Append(a[i], comma) ELSE a[i]) = IF i < n THEN a[i] \o sep[i + 1] ELSE a[i]
    <3>1. CASE i < n
      <4>1. i + 1 \in 1..n /\ i + 1 > 1
        BY <1>1, <3>1
      <4>2. sep[i + 1] = <<comma>>
        BY <4>1
      <4>3. a[i] \in A
        BY <1>5
      <4> HIDE DEF a, sep, A
      <4> QED
        BY <2>2, <3>1, <4>2, <4>3
    <3>2. CASE ~ i < n
      BY <3>2
    <3> QED
      BY <3>1, <3>2
  <2> HIDE DEF a, sep, A, n
  <2>4. Listed(a) = FlattenSeq([i \in 1..n |-> IF i < n THEN Append(a[i], comma) ELSE a[i]])
    BY <2>1 DEF Listed, comma
  <2> QED
    BY <2>1, <2>3, <2>4
<1> DEFINE ys == [i \in 1..n |-> Yields(gs[i])]
<1>10. ys = [i \in 1..n |-> sep[i] \o a[i]]
  BY <1>6
<1> HIDE DEF gs, a, sep, n, ys
<1>11. Yields(FlattenSeq(gs)) = FlattenSeq(ys)
  BY <1>1, <1>5, YieldsFlatten DEF ys, A
<1> DEFINE zs == [i \in 1..n |-> IF i < n THEN a[i] \o sep[i + 1] ELSE a[i]]
<1>12. zs = [i \in 1..n |-> IF i < n THEN a[i] \o sep[i + 1] ELSE a[i]]
  OBVIOUS
<1> HIDE DEF zs
<1>13. FlattenSeq(ys) = FlattenSeq(zs)
  <2>1. Separates(Symbols, n, a, sep, ys, zs)
    BY <1>1, <1>5, <1>7, <1>10, <1>12 DEF A, Separates
  <2> QED
    BY <2>1, Separated
<1> QED
  BY <1>8, <1>9, <1>11, <1>12, <1>13 DEF comma

\* What the process_ functions write for a tree is what was written for it.
LEMMA PartsAreSource ==
  ASSUME NEW t \in Nodes, t.kind \notin Leaves
  PROVE  Parts(t) \in Seq(Nodes) /\ Yields(Parts(t)) = Source[t]
<1>1. Parts(t) \in Seq(Nodes) /\ t.kind \in Kinds
  BY NodesAssumption DEF MadeOf
<1>2. Source[t] = SourceFrom(t, Source)
  BY SourceIs
<1>3. \A n \in Nodes : n \in Symbols /\ Spelled(n) = Source[n]
  BY SpelledType DEF Symbols
<1>4. \A s \in Signs : Text(s) \in Symbols /\ Spelled(Text(s)) = <<Text(s)>>
  BY SpelledType, SignsAre
<1>5. CASE t.kind = "path"
  <2>1. Parts(t) = PathParts(t.elements) /\ Source[t] = Dotted(t.elements)
    BY <1>2, <1>5 DEF Parts, SourceFrom, Leaves
  <2>2. t.elements \in Seq(Nodes) /\ \A i \in DOMAIN t.elements : t.elements[i].kind \in Leaves
    BY <1>5, NodesAssumption DEF MadeOf
  <2> QED
    BY <1>1, <2>1, <2>2, PathLeaves
<1>6. CASE t.kind \in {"+", "-"}
  <2>1. Parts(t) = <<t.lhs, Text(t.kind), t.rhs>>
    BY <1>6 DEF Parts, Arithmetic
  <2>2. Source[t] = Source[t.lhs] \o <<Text(t.kind)>> \o Source[t.rhs]
    BY <1>2, <1>6 DEF SourceFrom, Leaves
  <2>3. t.lhs \in Nodes /\ t.rhs \in Nodes /\ t.kind \in Signs
    BY <1>6, Below DEF Signs
  <2>4. Yields(<<t.lhs, Text(t.kind), t.rhs>>) = Spelled(t.lhs) \o Spelled(Text(t.kind)) \o Spelled(t.rhs)
    BY <1>3, <1>4, <2>3, YieldsThree
  <2> QED
    BY <1>1, <1>3, <1>4, <2>1, <2>2, <2>3, <2>4
<1>7. CASE t.kind = "list_append"
  <2>1. Parts(t) = <<Text("list_append("), t.lhs, Text(","), t.rhs, Text(")")>>
    BY <1>7 DEF Parts
  <2>2. Source[t] = <<Text("list_append(")>> \o Source[t.lhs] \o <<Text(",")>> \o Source[t.rhs] \o <<Text(")")>>
    BY <1>2, <1>7 DEF SourceFrom, Leaves
  <2>3. t.lhs \in Nodes /\ t.rhs \in Nodes /\ "list_append(" \in Signs /\ "," \in Signs /\ ")" \in Signs
    BY <1>7, Below DEF Signs
  <2>4. Yields(<<Text("list_append("), t.lhs, Text(","), t.rhs, Text(")")>>)
          = Spelled(Text("list_append(")) \o Spelled(t.lhs) \o Spelled(Text(",")) \o Spelled(t.rhs)
              \o Spelled(Text(")"))
    <3> DEFINE a == Text("list_append(")
               b == t.lhs
               c == Text(",")
               d == t.rhs
               e == Text(")")
    <3>1. a \in Symbols /\ b \in Symbols /\ c \in Symbols /\ d \in Symbols /\ e \in Symbols
      BY <1>3, <1>4, <2>3
    <3> HIDE DEF a, b, c, d, e
    <3> DEFINE s == <<a, b, c, d, e>>
    <3>2. s \in Seq(Symbols) /\ Len(s) = 5
      BY <3>1
    <3>3. s[1] = a /\ s[2] = b /\ s[3] = c /\ s[4] = d /\ s[5] = e
      OBVIOUS
    <3> HIDE DEF s
    <3>4. Yields(s) = Spelled(a) \o Spelled(b) \o Spelled(c) \o Spelled(d) \o Spelled(e)
      BY <3>2, <3>3, YieldsFive
    <3> QED
      BY <3>4 DEF a, b, c, d, e, s
  <2> QED
    BY <1>1, <1>3, <1>4, <2>1, <2>2, <2>3, <2>4
<1>8. CASE t.kind = "if_not_exists"
  <2>1. Parts(t) = <<Text("if_not_exists("), t.path, Text(","), t.value, Text(")")>>
    BY <1>8 DEF Parts
  <2>2. Source[t]
          = <<Text("if_not_exists(")>> \o Source[t.path] \o <<Text(",")>> \o Source[t.value] \o <<Text(")")>>
    BY <1>2, <1>8 DEF SourceFrom, Leaves
  <2>3. t.path \in Nodes /\ t.value \in Nodes /\ "if_not_exists(" \in Signs /\ "," \in Signs /\ ")" \in Signs
    BY <1>8, Below DEF Signs
  <2>4. Yields(<<Text("if_not_exists("), t.path, Text(","), t.value, Text(")")>>)
          = Spelled(Text("if_not_exists(")) \o Spelled(t.path) \o Spelled(Text(",")) \o Spelled(t.value)
              \o Spelled(Text(")"))
    <3> DEFINE a == Text("if_not_exists(")
               b == t.path
               c == Text(",")
               d == t.value
               e == Text(")")
    <3>1. a \in Symbols /\ b \in Symbols /\ c \in Symbols /\ d \in Symbols /\ e \in Symbols
      BY <1>3, <1>4, <2>3
    <3> HIDE DEF a, b, c, d, e
    <3> DEFINE s == <<a, b, c, d, e>>
    <3>2. s \in Seq(Symbols) /\ Len(s) = 5
      BY <3>1
    <3>3. s[1] = a /\ s[2] = b /\ s[3] = c /\ s[4] = d /\ s[5] = e
      OBVIOUS
    <3> HIDE DEF s
    <3>4. Yields(s) = Spelled(a) \o Spelled(b) \o Spelled(c) \o Spelled(d) \o Spelled(e)
      BY <3>2, <3>3, YieldsFive
    <3> QED
      BY <3>4 DEF a, b, c, d, e, s
  <2> QED
    BY <1>1, <1>3, <1>4, <2>1, <2>2, <2>3, <2>4
<1>9. CASE t.kind = "assign"
  <2>1. Parts(t) = <<t.path, Text("="), t.value>>
    BY <1>9 DEF Parts
  <2>2. Source[t] = Source[t.path] \o <<Text("=")>> \o Source[t.value]
    BY <1>2, <1>9 DEF SourceFrom, Leaves
  <2>3. t.path \in Nodes /\ t.value \in Nodes /\ "=" \in Signs
    BY <1>9, Below DEF Signs
  <2>4. Yields(<<t.path, Text("="), t.value>>) = Spelled(t.path) \o Spelled(Text("=")) \o Spelled(t.value)
    BY <1>3, <1>4, <2>3, YieldsThree
  <2> QED
    BY <1>1, <1>3, <1>4, <2>1, <2>2, <2>3, <2>4
<1>10. CASE t.kind = "actions"
  <2> DEFINE sources == [i \in DOMAIN t.list |-> Source[t.list[i]]]
             gs == [i \in DOMAIN t.list |-> IF i > 1 THEN <<Text(","), t.list[i]>> ELSE <<t.list[i]>>]
  <2>1. Parts(t) = FlattenSeq(gs)
    BY <1>10 DEF Parts
  <2>2. Source[t] = Listed(sources)
    BY <1>2, <1>10 DEF SourceFrom, Leaves
  <2>3. t.list \in Seq(Nodes)
    BY <1>10, NodesAssumption DEF MadeOf
  <2>4. Yields(FlattenSeq(gs)) = Listed(sources)
    BY <2>3, ListYields
  <2> QED
    BY <1>1, <2>1, <2>2, <2>4
<1>11. CASE t.kind \in Conditional
  <2>1. Source[t] = Parts(t)
    BY <1>2, <1>11 DEF SourceFrom, Leaves, Conditional
  <2>2. \A i \in DOMAIN Parts(t) : Parts(t)[i].kind \in Leaves
    <3>1. CASE t.kind = "compare"
      <4>1. Parts(t) = <<Attr(t.key), Text(t.op), Literal(t.vals[1])>>
        BY <3>1 DEF Parts
      <4> QED
        BY <4>1 DEF Attr, Text, Literal, Leaves
    <3>2. CASE t.kind = "between"
      <4> DEFINE a == Attr(t.key)
                 b == Text(" BETWEEN ")
                 c == Literal(t.vals[1])
                 d == Text(" AND ")
                 e == Literal(t.vals[2])
      <4>1. Parts(t) = <<a, b, c, d, e>>
        BY <3>2 DEF Parts
      <4>2. a.kind \in Leaves /\ b.kind \in Leaves /\ c.kind \in Leaves /\ d.kind \in Leaves /\ e.kind \in Leaves
        BY DEF Attr, Text, Literal, Leaves
      <4> HIDE DEF a, b, c, d, e
      <4> QED
        BY <4>1, <4>2
    <3>3. CASE t.kind = "begins_with"
      <4> DEFINE a == Text("begins_with(")
                 b == Attr(t.key)
                 c == Text(",")
                 d == Literal(t.vals[1])
                 e == Text(")")
      <4>1. Parts(t) = <<a, b, c, d, e>>
        BY <3>3 DEF Parts
      <4>2. a.kind \in Leaves /\ b.kind \in Leaves /\ c.kind \in Leaves /\ d.kind \in Leaves /\ e.kind \in Leaves
        BY DEF Attr, Text, Literal, Leaves
      <4> HIDE DEF a, b, c, d, e
      <4> QED
        BY <4>1, <4>2
    <3> QED
      BY <1>11, <3>1, <3>2, <3>3 DEF Conditional
  <2>3. Parts(t) \in Seq(Symbols)
    BY <1>1 DEF Symbols
  <2> QED
    BY <1>1, <2>1, <2>2, <2>3, YieldsLeaves
<1> QED
  BY <1>1, <1>5, <1>6, <1>7, <1>8, <1>9, <1>10, <1>11 DEF Kinds, Conditional

\* A condition that is taken has the operator and the operands that were written, and
\* the key's type.
LEMMA ConditionIs ==
  ASSUME NEW w, NEW type, NEW strict, Condition(w, type, strict) # Rejected
  PROVE  /\ Condition(w, type, strict).op = Equal(w.op)
         /\ \A i \in DOMAIN w.args :
              Condition(w, type, strict).vals[i] = [type |-> type, text |-> w.args[i].text]
<1> DEFINE c == Condition(w, type, strict)
           Reads(x) == /\ x.op = Equal(w.op)
                       /\ DOMAIN x.vals = DOMAIN w.args
                       /\ \A i \in DOMAIN w.args : x.vals[i] = [type |-> x.vals[i].type, text |-> w.args[i].text]
<1>1. Strict(w) # Rejected => Reads(Strict(w))
  BY DEF Strict, StrictSyntax, Typed, Equal
<1>2. Loose(w, type) # Rejected => Reads(Loose(w, type))
  <2>1. CASE type = "S" /\ AllOf(w.args, {"number", "bare"})
    <3>1. Loose(w, type) = [op |-> Equal(w.op), vals |-> Typed(w.args, LAMBDA a : "S")]
      BY <2>1 DEF Loose
    <3> QED
      BY <3>1 DEF Typed
  <2>2. CASE type = "N" /\ AllOf(w.args, {"number"}) /\ w.op # "begins_with"
    <3>1. Loose(w, type) = [op |-> Equal(w.op),
                            vals |-> Typed(w.args, LAMBDA a : IF w.op = "bare" THEN "N" ELSE "S")]
      BY <2>2 DEF Loose
    <3> QED
      BY <3>1 DEF Typed
  <2>3. CASE /\ ~(type = "S" /\ AllOf(w.args, {"number", "bare"}))
             /\ ~(type = "N" /\ AllOf(w.args, {"number"}) /\ w.op # "begins_with")
    BY <2>3 DEF Loose
  <2> QED
    BY <2>1, <2>2, <2>3
<1>3. c \in {Checked(Strict(w), type), Checked(Loose(w, type), type)}
  BY DEF Condition
<1>4. ASSUME NEW x, x # Rejected => Reads(x), Checked(x, type) = c
      PROVE  Reads(c) /\ \A i \in DOMAIN c.vals : c.vals[i].type = type
  BY <1>4 DEF Checked
<1>5. Reads(c) /\ \A i \in DOMAIN c.vals : c.vals[i].type = type
  <2> HIDE DEF c, Reads
  <2> QED
    BY <1>1, <1>2, <1>3, <1>4
<1> HIDE DEF c
<1> QED
  BY <1>5 DEF c

\* So the tree of a condition has the parts that were written.
LEMMA ConditionSource ==
  ASSUME NEW w, NEW key, NEW strict, WellWritten(w), Condition(w, key.type, strict) # Rejected,
         ConditionNode(Condition(w, key.type, strict), key.name) \in Nodes
  PROVE  Source[ConditionNode(Condition(w, key.type, strict), key.name)] = SortSource(w, key)
<1> DEFINE c == Condition(w, key.type, strict)
           n == ConditionNode(c, key.name)
           val(i) == Literal([type |-> key.type, text |-> w.args[i].text])
<1>1. c.op = Equal(w.op) /\ \A i \in DOMAIN w.args : c.vals[i] = [type |-> key.type, text |-> w.args[i].text]
  BY ConditionIs
<1>2. w.op \in Operators /\ DOMAIN w.args = IF w.op = "between" THEN {1, 2} ELSE {1}
  BY DEF WellWritten
<1>3. /\ n.kind = IF c.op \in Comparisons THEN "compare" ELSE c.op
      /\ n.op = c.op /\ n.key = key.name /\ n.vals = c.vals
  BY DEF ConditionNode
<1>4. n \in Nodes
  OBVIOUS
<1> HIDE DEF c, n
<1>5. Literal(n.vals[1]) = val(1) /\ (w.op = "between" => Literal(n.vals[2]) = val(2))
  BY <1>1, <1>2, <1>3
<1>6. n.kind \in Conditional => Source[n] = Parts(n)
  BY <1>4, SourceIs DEF SourceFrom, Leaves, Conditional
<1> HIDE DEF val
<1>7. CASE w.op = "between"
  <2>1. n.kind = "between"
    BY <1>1, <1>3, <1>7 DEF Equal, Comparisons
  <2>2. Parts(n) = <<Attr(n.key), Text(" BETWEEN "), Literal(n.vals[1]), Text(" AND "), Literal(n.vals[2])>>
    BY <2>1 DEF Parts
  <2>3. SortSource(w, key) = <<Attr(key.name), Text(" BETWEEN "), val(1), Text(" AND "), val(2)>>
    BY <1>7 DEF SortSource, val
  <2>4. Source[n] = Parts(n)
    BY <1>6, <2>1 DEF Conditional
  <2>5. Attr(n.key) = Attr(key.name)
    BY <1>3
  <2>6. Source[n] = SortSource(w, key)
    BY <1>5, <1>7, <2>2, <2>3, <2>4, <2>5
  <2> QED
    BY <2>6 DEF n, c
<1>8. CASE w.op = "begins_with"
  <2>1. n.kind = "begins_with"
    BY <1>1, <1>3, <1>8 DEF Equal, Comparisons
  <2>2. Parts(n) = <<Text("begins_with("), Attr(n.key), Text(","), Literal(n.vals[1]), Text(")")>>
    BY <2>1 DEF Parts
  <2>3. SortSource(w, key) = <<Text("begins_with("), Attr(key.name), Text(","), val(1), Text(")")>>
    BY <1>8 DEF SortSource, val
  <2>4. Source[n] = Parts(n)
    BY <1>6, <2>1 DEF Conditional
  <2>5. Attr(n.key) = Attr(key.name)
    BY <1>3
  <2>6. Source[n] = SortSource(w, key)
    BY <1>5, <1>8, <2>2, <2>3, <2>4, <2>5
  <2> QED
    BY <2>6 DEF n, c
<1>9. CASE w.op \notin {"between", "begins_with"}
  <2>1. n.kind = "compare" /\ n.op = Equal(w.op)
    BY <1>1, <1>2, <1>3, <1>9 DEF Equal, Operators, Comparisons
  <2>2. Parts(n) = <<Attr(n.key), Text(n.op), Literal(n.vals[1])>>
    BY <2>1 DEF Parts
  <2>3. SortSource(w, key) = <<Attr(key.name), Text(Equal(w.op)), val(1)>>
    BY <1>9 DEF SortSource, val
  <2>4. Source[n] = Parts(n)
    BY <1>6, <2>1 DEF Conditional
  <2>5. Attr(n.key) = Attr(key.name) /\ Text(n.op) = Text(Equal(w.op))
    BY <1>3, <2>1
  <2>6. Source[n] = SortSource(w, key)
    BY <1>5, <2>2, <2>3, <2>4, <2>5
  <2> QED
    BY <2>6 DEF n, c
<1> QED
  BY <1>7, <1>8, <1>9

-----------------------------------------------------------------------------
(* Placeholders replaced *)

Meant(x, ns, vs) == CASE x.kind = "name" -> Attr(ns[x.ref])
                      [] x.kind = "value" -> Literal(vs[x.ref])
                      [] x.kind = "text" -> Text(x.text)

Tokens == {"name", "value", "text"}

\* An expression of tokens is replaced one by one.
LEMMA ReplacedIs ==
  ASSUME NEW exp, NEW ns, NEW vs
  PROVE  Replaced(exp, ns, vs) = [i \in DOMAIN exp |-> Meant(exp[i], ns, vs)]
  BY DEF Replaced, Meant

\* What an expression means is a sequence of its length.
LEMMA ReplacedSeq ==
  ASSUME NEW exp, NEW ns, NEW vs, IsSeq(exp)
  PROVE  /\ IsSeq(Replaced(exp, ns, vs))
         /\ DOMAIN Replaced(exp, ns, vs) = DOMAIN exp
         /\ Len(Replaced(exp, ns, vs)) = Len(exp)
<1> DEFINE n == Len(exp)
           g == [i \in 1..n |-> Meant(exp[i], ns, vs)]
           A == {Meant(exp[i], ns, vs) : i \in 1..n}
<1>1. n \in Nat /\ DOMAIN exp = 1..n
  BY DEF IsSeq
<1>2. Replaced(exp, ns, vs) = g
  BY <1>1, ReplacedIs
<1>3. g \in [1..n -> A]
  OBVIOUS
<1> HIDE DEF g, A, n
<1>4. g \in Seq(A) /\ Len(g) = n /\ DOMAIN g = 1..n
  BY <1>1, <1>3, FunctionIsSeq
<1> QED
  BY <1>1, <1>2, <1>4 DEF IsSeq, n

\* Sequences of whatever elements.
LEMMA ConcatIsSeq ==
  ASSUME NEW a, NEW b, NEW c, IsSeq(a), IsSeq(b), IsSeq(c)
  PROVE  /\ IsSeq(a \o b)
         /\ (a \o b) \o c = a \o (b \o c)
         /\ <<>> \o a = a /\ a \o <<>> = a
         /\ \A x : Append(a, x) = a \o <<x>> /\ IsSeq(<<x>>)
<1>1. PICK S, T, U : a \in Seq(S) /\ b \in Seq(T) /\ c \in Seq(U)
  BY DEF IsSeq
<1> DEFINE X == S \cup T \cup U
<1>2. a \in Seq(X) /\ b \in Seq(X) /\ c \in Seq(X)
  BY <1>1
<1> HIDE DEF X
<1>3. a \o b \in Seq(X) /\ (a \o b) \o c = a \o (b \o c)
  BY <1>2, ConcatMoves
<1>4. <<>> \o a = a /\ a \o <<>> = a
  BY <1>2
<1>5. ASSUME NEW x PROVE Append(a, x) = a \o <<x>> /\ IsSeq(<<x>>)
  <2> DEFINE Y == X \cup {x}
  <2>1. a \in Seq(Y) /\ x \in Y
    BY <1>2
  <2> HIDE DEF Y
  <2>2. Append(a, x) = a \o <<x>> /\ <<x>> \in Seq(Y)
    BY <2>1
  <2> QED
    BY <2>2 DEF IsSeq
<1> QED
  BY <1>3, <1>4, <1>5 DEF IsSeq

\* One after the other.
LEMMA ReplacedConcat ==
  ASSUME NEW a, NEW b, NEW ns, NEW vs, IsSeq(a), IsSeq(b)
  PROVE  Replaced(a \o b, ns, vs) = Replaced(a, ns, vs) \o Replaced(b, ns, vs)
<1> DEFINE s == Replaced(a, ns, vs)
           t == Replaced(b, ns, vs)
           ab == a \o b
           w == Replaced(ab, ns, vs)
           n == Len(a)
           m == Len(b)
<1>1. PICK S, T : a \in Seq(S) /\ b \in Seq(T)
  BY DEF IsSeq
<1>2. a \in Seq(S \cup T) /\ b \in Seq(S \cup T)
  BY <1>1
<1>3. n \in Nat /\ m \in Nat /\ Len(ab) = n + m /\ IsSeq(ab)
  BY <1>2 DEF IsSeq
<1>4. \A i \in 1..n : i \in DOMAIN ab /\ ab[i] = a[i] /\ i \in DOMAIN a
  BY <1>2
<1>5. \A i \in 1..m : n + i \in DOMAIN ab /\ ab[n + i] = b[i] /\ i \in DOMAIN b
  BY <1>2
<1> HIDE DEF ab
<1>6. IsSeq(s) /\ Len(s) = n /\ IsSeq(t) /\ Len(t) = m /\ IsSeq(w) /\ Len(w) = n + m
  BY <1>3, ReplacedSeq
<1>7. \A i \in 1..n : w[i] = s[i]
  BY <1>4, ReplacedIs
<1>8. \A i \in 1..m : w[n + i] = t[i]
  BY <1>5, ReplacedIs
<1> HIDE DEF s, t, w, n, m
<1>9. w = s \o t
  <2>1. PICK A, B, C : s \in Seq(A) /\ t \in Seq(B) /\ w \in Seq(C)
    BY <1>6 DEF IsSeq
  <2> DEFINE D == A \cup B \cup C
  <2>2. s \in Seq(D) /\ t \in Seq(D) /\ w \in Seq(D)
    BY <2>1
  <2> HIDE DEF D
  <2>3. /\ Len(w) = Len(s) + Len(t)
        /\ \A i \in 1..Len(s) : w[i] = s[i]
        /\ \A i \in 1..Len(t) : w[Len(s) + i] = t[i]
    BY <1>6, <1>7, <1>8
  <2> QED
    BY <2>2, <2>3, ConcatIs, Zenon
<1> QED
  BY <1>9 DEF w, s, t, ab

\* One token more.
LEMMA ReplacedAppend ==
  ASSUME NEW a, NEW x, NEW ns, NEW vs, IsSeq(a)
  PROVE  Replaced(Append(a, x), ns, vs) = Replaced(a, ns, vs) \o <<Meant(x, ns, vs)>>
<1>1. Append(a, x) = a \o <<x>> /\ IsSeq(<<x>>)
  BY ConcatIsSeq
<1>2. Replaced(<<x>>, ns, vs) = <<Meant(x, ns, vs)>>
  <2>1. DOMAIN <<x>> = {1} /\ <<x>>[1] = x
    OBVIOUS
  <2> DEFINE s == <<x>>
             m == Meant(x, ns, vs)
  <2> HIDE DEF s, m
  <2>2. Replaced(s, ns, vs) = [i \in {1} |-> m]
    BY <2>1, ReplacedIs DEF s, m
  <2>3. <<m>> = [i \in {1} |-> m]
    OBVIOUS
  <2> QED
    BY <2>2, <2>3 DEF s, m
<1> DEFINE s == <<x>>
<1>3. IsSeq(s) /\ Append(a, x) = a \o s
  BY <1>1
<1>4. Replaced(s, ns, vs) = <<Meant(x, ns, vs)>>
  BY <1>2
<1> HIDE DEF s
<1>5. Replaced(a \o s, ns, vs) = Replaced(a, ns, vs) \o Replaced(s, ns, vs)
  BY <1>3, ReplacedConcat
<1> QED
  BY <1>3, <1>4, <1>5

\* Maps that know as much of the placeholders used mean the same.
LEMMA ReplacedUnder ==
  ASSUME NEW exp, NEW ns, NEW vs, NEW ms, NEW ws, \A i \in DOMAIN exp : exp[i].kind \in Tokens,
         \A r \in Refs(exp, "name") : ms[r] = ns[r],
         \A r \in Refs(exp, "value") : ws[r] = vs[r]
  PROVE  Replaced(exp, ms, ws) = Replaced(exp, ns, vs)
<1>1. ASSUME NEW i \in DOMAIN exp PROVE Meant(exp[i], ms, ws) = Meant(exp[i], ns, vs)
  <2>1. CASE exp[i].kind = "name"
    <3>1. exp[i].ref \in Refs(exp, "name")
      BY <2>1 DEF Refs
    <3> QED
      BY <2>1, <3>1 DEF Meant
  <2>2. CASE exp[i].kind = "value"
    <3>1. exp[i].ref \in Refs(exp, "value")
      BY <2>2 DEF Refs
    <3> QED
      BY <2>2, <3>1 DEF Meant
  <2>3. CASE exp[i].kind = "text"
    BY <2>3 DEF Meant
  <2> QED
    BY <2>1, <2>2, <2>3 DEF Tokens
<1> QED
  BY <1>1, ReplacedIs

-----------------------------------------------------------------------------
(* What scan asks for *)

\* The keys of a schema, by the placeholders that scan has for them.
LEMMA KeysAre ==
  ASSUME NEW schema, schema.sk = <<>> \/ schema.sk = <<schema.sk[1]>>
  PROVE  LET keys == <<schema.pk>> \o schema.sk
             refs == SubSeq(<<Pk, Sk>>, 1, Len(keys))
         IN /\ Len(keys) \in {1, 2}
            /\ DOMAIN refs = 1..Len(keys)
            /\ KeysOf(schema) \in Seq({schema.pk.name, schema.sk[1].name})
            /\ Len(KeysOf(schema)) = Len(keys)
            /\ \A i \in 1..Len(keys) :
                 /\ refs[i] \in {Pk, Sk}
                 /\ KeysOf(schema)[i] = IF refs[i] = Pk THEN keys[1].name ELSE keys[2].name
<1> DEFINE p == schema.pk
           s == schema.sk[1]
           both == <<Pk, Sk>>
           N == {p.name, s.name}
           rest == [i \in DOMAIN schema.sk |-> schema.sk[i].name]
<1>0. Pk # Sk
  BY DEF Pk, Sk
<1>1. CASE schema.sk = <<>>
  <2>1. <<p>> \o schema.sk = <<p>>
    <3>1. <<p>> \in Seq({p})
      OBVIOUS
    <3> QED
      BY <1>1, <3>1
  <2>2. rest = <<>>
    BY <1>1
  <2>3. KeysOf(schema) = <<p.name>>
    <3>1. <<p.name>> \in Seq(N)
      OBVIOUS
    <3> HIDE DEF rest
    <3>2. <<p.name>> \o rest = <<p.name>>
      BY <2>2, <3>1
    <3> QED
      BY <3>2 DEF KeysOf, rest
  <2>4. Len(<<p>>) = 1 /\ <<p>>[1] = p /\ Len(<<p.name>>) = 1 /\ <<p.name>>[1] = p.name
        /\ <<p.name>> \in Seq(N)
    OBVIOUS
  <2>5. SubSeq(both, 1, 1)[1] = Pk /\ DOMAIN SubSeq(both, 1, 1) = 1..1
    <3>1. both \in Seq({Pk, Sk}) /\ Len(both) = 2 /\ both[1] = Pk
      OBVIOUS
    <3> HIDE DEF both
    <3> QED
      BY <3>1
  <2> HIDE DEF p, both, N
  <2>6. \A i \in 1..1 : i = 1
    OBVIOUS
  <2> QED
    BY <1>0, <2>1, <2>3, <2>4, <2>5, <2>6 DEF both, N, p
<1>2. CASE schema.sk = <<s>>
  <2> DEFINE ps == <<p, s>>
             pn == <<p.name, s.name>>
  <2>1. <<p>> \o <<s>> = ps
    <3>1. p \in {p, s} /\ s \in {p, s}
      OBVIOUS
    <3> HIDE DEF p, s
    <3> QED
      BY <3>1, Couple, Zenon
  <2>2. rest = <<s.name>>
    <3>1. DOMAIN schema.sk = {1}
      BY <1>2
    <3>2. rest = [i \in {1} |-> s.name]
      BY <3>1
    <3> HIDE DEF rest, s
    <3>3. <<s.name>> = [i \in {1} |-> s.name]
      OBVIOUS
    <3> QED
      BY <3>2, <3>3
  <2>3. KeysOf(schema) = pn
    <3>1. <<p.name>> \o <<s.name>> = pn
      <4>1. p.name \in N /\ s.name \in N
        OBVIOUS
      <4> HIDE DEF N, p, s
      <4> QED
        BY <4>1, Couple, Zenon
    <3> HIDE DEF rest
    <3> QED
      BY <2>2, <3>1 DEF KeysOf, rest
  <2>4. Len(ps) = 2 /\ ps[1] = p /\ ps[2] = s /\ Len(pn) = 2 /\ pn[1] = p.name /\ pn[2] = s.name
        /\ pn \in Seq(N)
    OBVIOUS
  <2>5. /\ SubSeq(both, 1, 2)[1] = Pk /\ SubSeq(both, 1, 2)[2] = Sk
        /\ DOMAIN SubSeq(both, 1, 2) = 1..2
    <3>1. both \in Seq({Pk, Sk}) /\ Len(both) = 2 /\ both[1] = Pk /\ both[2] = Sk
      OBVIOUS
    <3> HIDE DEF both
    <3> QED
      BY <3>1
  <2>6. <<schema.pk>> \o schema.sk = ps
    BY <1>2, <2>1
  <2> HIDE DEF s, p, both, N, ps, pn
  <2>7. \A i \in 1..2 : i = 1 \/ i = 2
    OBVIOUS
  <2> QED
    BY <1>0, <2>3, <2>4, <2>5, <2>6, <2>7 DEF both, N, p, s
<1> QED
  BY <1>1, <1>2

\* The keys, and the attributes of the option that are none: what scan asks for is what
\* was asked for, once the keys are.
LEMMA ScanTold ==
  ASSUME NEW c, c.schema.sk = <<>> \/ c.schema.sk = <<c.schema.sk[1]>>,
         c.attributes \in Seq(ToSet(c.attributes))
  PROVE  LET told == KeysOf(c.schema) \o Projected(c.schema, c.attributes)
         IN ScanSource(c) = [i \in DOMAIN told |-> Attr(told[i])]
<1> DEFINE k == KeysOf(c.schema)
           a == c.attributes
           K == ToSet(k)
           S == {c.schema.pk.name, c.schema.sk[1].name} \cup ToSet(a)
           A == Seq(S)
           asked == k \o a
           n == Len(k)
           m == Len(a)
           ones == [i \in DOMAIN k |-> <<k[i]>>]
           new == [i \in DOMAIN a |-> IF a[i] \in K THEN <<>> ELSE <<a[i]>>]
           all == [i \in DOMAIN asked |-> IF i > n /\ asked[i] \in K THEN <<>> ELSE <<asked[i]>>]
<1>1. k \in A /\ a \in A
  <2>1. k \in Seq({c.schema.pk.name, c.schema.sk[1].name})
    BY KeysAre
  <2> QED
    BY <2>1
<1> HIDE DEF S
<1>2. /\ n \in Nat /\ DOMAIN k = 1..n /\ \A i \in 1..n : k[i] \in S
      /\ m \in Nat /\ DOMAIN a = 1..m /\ \A i \in 1..m : a[i] \in S
  BY <1>1
<1>3. /\ asked \in A /\ DOMAIN asked = 1..n + m
      /\ \A i \in 1..n : asked[i] = k[i]
      /\ \A i \in 1..m : asked[n + i] = a[i]
  BY <1>1
<1>4. <<>> \in A /\ \A x \in S : <<x>> \in A
  OBVIOUS
<1>5. FlattenSeq(ones) = k
  BY <1>1, FlattenSingles
<1> HIDE DEF k, a, K, asked, n, m, A
<1>6. \A i \in 1..n + m : asked[i] \in S
  <2>1. asked \in Seq(S)
    BY <1>3 DEF A
  <2>2. \A i \in DOMAIN asked : asked[i] \in S
    BY <2>1
  <2> QED
    BY <1>3, <2>2
<1>7. ones \in [1..n -> A] /\ new \in [1..m -> A] /\ all \in [1..n + m -> A]
  BY <1>2, <1>3, <1>4, <1>6
<1>8. /\ \A i \in 1..n : i \in 1..n + m /\ ~(i > n)
      /\ \A i \in 1..m : n + i \in 1..n + m /\ n + i > n
  BY <1>2
<1>9. /\ \A i \in 1..n : all[i] = ones[i]
      /\ \A i \in 1..m : all[n + i] = new[i]
  BY <1>2, <1>3, <1>8
<1> HIDE DEF ones, new, all
<1>10. ones \in Seq(A) /\ Len(ones) = n /\ new \in Seq(A) /\ Len(new) = m
  BY <1>2, <1>7, FunctionIsSeq
<1>11. all \in Seq(A) /\ Len(all) = n + m
  <2>1. n + m \in Nat
    BY <1>2
  <2> DEFINE l == n + m
  <2> HIDE DEF l
  <2>2. l \in Nat /\ all \in [1..l -> A]
    BY <1>7, <2>1 DEF l
  <2> QED
    BY <2>2, FunctionIsSeq DEF l
<1>12. all = ones \o new
  <2>1. /\ Len(all) = Len(ones) + Len(new)
        /\ \A i \in 1..Len(ones) : all[i] = ones[i]
        /\ \A i \in 1..Len(new) : all[Len(ones) + i] = new[i]
    BY <1>9, <1>10, <1>11
  <2> QED
    BY <1>10, <1>11, <2>1, ConcatIs, Zenon
<1>13. FlattenSeq(ones \o new) = FlattenSeq(ones) \o FlattenSeq(new)
  BY <1>10, FlattenConcat DEF A
<1>14. FlattenSeq(new) = Projected(c.schema, c.attributes)
  BY DEF Projected, new, K, k, a
<1>15. FlattenSeq(all) = KeysOf(c.schema) \o Projected(c.schema, c.attributes)
  BY <1>5, <1>12, <1>13, <1>14 DEF k
<1> DEFINE told == FlattenSeq(all)
<1>16. ScanSource(c) = [i \in DOMAIN told |-> Attr(told[i])]
  BY DEF ScanSource, all, asked, K, k, a, n
<1> HIDE DEF told
<1>17. told = KeysOf(c.schema) \o Projected(c.schema, c.attributes)
  BY <1>15 DEF told
<1> QED
  BY <1>16, <1>17

\* What scan returns means what was asked for.
LEMMA ScanMeant ==
  ASSUME NEW c, c.schema.sk = <<>> \/ c.schema.sk = <<c.schema.sk[1]>>,
         c.attributes \in Seq(ToSet(c.attributes))
  PROVE  LET keys == <<c.schema.pk>> \o c.schema.sk
             n == Len(keys)
             refs == SubSeq(<<Pk, Sk>>, 1, n)
             rest == Projected(c.schema, c.attributes)
             m == Len(rest)
             e == [i \in 1..n + m |-> NameRef(IF i <= n THEN refs[i] ELSE i - n - 1)]
             ns == Extended([r \in Range(refs) |-> IF r = Pk THEN keys[1].name ELSE keys[2].name],
                            [r \in 0..m - 1 |-> rest[r + 1]])
         IN Replaced(e, ns, NoValues) = ScanSource(c)
<1> DEFINE keys == <<c.schema.pk>> \o c.schema.sk
           n == Len(keys)
           refs == SubSeq(<<Pk, Sk>>, 1, n)
           rest == Projected(c.schema, c.attributes)
           m == Len(rest)
           ref(i) == IF i <= n THEN refs[i] ELSE i - n - 1
           e == [i \in 1..n + m |-> NameRef(ref(i))]
           key(r) == IF r = Pk THEN keys[1].name ELSE keys[2].name
           f == [r \in Range(refs) |-> key(r)]
           g == [r \in 0..m - 1 |-> rest[r + 1]]
           ns == Extended(f, g)
           k == KeysOf(c.schema)
           told == k \o rest
           A == ToSet(c.attributes) \cup {c.schema.pk.name, c.schema.sk[1].name}
<1>1. /\ n \in {1, 2} /\ DOMAIN refs = 1..n
      /\ k \in Seq({c.schema.pk.name, c.schema.sk[1].name}) /\ Len(k) = n
      /\ \A i \in 1..n : refs[i] \in {Pk, Sk} /\ k[i] = key(refs[i])
  BY KeysAre
<1>2. rest \in Seq(ToSet(c.attributes))
  BY ProjectedType
<1>3. k \in Seq(A) /\ rest \in Seq(A)
  BY <1>1, <1>2
<1>4. ScanSource(c) = [i \in DOMAIN told |-> Attr(told[i])]
  BY ScanTold
<1> HIDE DEF n, k, rest, keys, refs, m, A
<1>5. m \in Nat /\ n \in Nat
  BY <1>1, <1>2 DEF m
<1>6. /\ DOMAIN told = 1..n + m
      /\ \A i \in 1..n + m : told[i] = IF i <= n THEN k[i] ELSE rest[i - n]
  BY <1>1, <1>3, <1>5 DEF m
<1>7. ASSUME NEW i \in 1..n + m PROVE ns[ref(i)] = told[i]
  <2>1. CASE i <= n
    <3>1. i \in 1..n /\ ref(i) = refs[i]
      BY <1>5, <2>1
    <3>2. refs[i] \in Range(refs) /\ refs[i] \notin 0..m - 1
      <4>1. refs[i] \in {Pk, Sk}
        BY <1>1, <3>1
      <4> QED
        BY <1>1, <3>1, <4>1 DEF Range, Pk, Sk
    <3>3. ns[refs[i]] = key(refs[i])
      BY <3>2 DEF Extended
    <3> QED
      BY <1>1, <1>6, <2>1, <3>1, <3>3
  <2>2. CASE ~(i <= n)
    <3>1. ref(i) = i - n - 1 /\ i - n - 1 \in 0..m - 1 /\ (i - n - 1) + 1 = i - n
      BY <1>5, <2>2
    <3>2. ns[i - n - 1] = rest[i - n]
      BY <3>1 DEF Extended
    <3> QED
      BY <1>6, <2>2, <3>1, <3>2
  <2> QED
    BY <2>1, <2>2
<1> HIDE DEF ns, told, ref
<1>8. \A i \in 1..n + m : e[i] = NameRef(ref(i))
  OBVIOUS
<1>9. DOMAIN e = 1..n + m
  OBVIOUS
<1> HIDE DEF e
<1>10. ASSUME NEW i \in 1..n + m PROVE Meant(e[i], ns, NoValues) = Attr(told[i])
  <2>0. \A r : NameRef(r).kind = "name" /\ NameRef(r).ref = r
    BY DEF NameRef
  <2>1. e[i].kind = "name" /\ e[i].ref = ref(i)
    BY <1>8, <2>0
  <2> QED
    BY <1>7, <2>1 DEF Meant
<1>11. Replaced(e, ns, NoValues) = [i \in 1..n + m |-> Attr(told[i])]
  BY <1>9, <1>10, ReplacedIs
<1>12. Replaced(e, ns, NoValues) = ScanSource(c)
  BY <1>4, <1>6, <1>11
<1> QED
  BY <1>12 DEF e, ns, f, g, key, ref, told, n, m, k, rest, keys, refs

-----------------------------------------------------------------------------
(* Meaning, from one step to the next *)

BaseIs == base = NoBase \/ \E t, v : base = QueryBase(t, v)

\* What base means, before what follows it.
Lead == IF base.exp = <<>> THEN <<>>
        ELSE Replaced(base.exp, base.names, base.values) \o <<Text(" AND ")>>

\* What is said, and what is still to be said, is what was written.
Says == busy => Lead \o (Replaced(out, names, values) \o Yields(work)) = Meaning(Head(calls))

MeaningInv ==
  /\ MeansTheSame
  /\ BaseIs
  /\ \A i \in DOMAIN out : out[i].kind \in Tokens
  /\ Says

BaseMeant == base' = base \/ \E t, v : base' = QueryBase(t, v)

StartsMeant ==
  /\ ~busy
  /\ calls # <<>>
  /\ \E n \in Nodes : work' = <<n>> /\ Lead' \o Source[n] = Meaning(Head(calls))
  /\ BaseMeant
  /\ UNCHANGED <<calls, parser, out, results>>

RepliesMeant ==
  /\ ~busy
  /\ calls # <<>>
  /\ \E r : /\ results' = Append(results, r)
            /\ r.ok => Replaced(r.exp, r.names, r.values) = Meaning(r.call)
  /\ BaseMeant
  /\ UNCHANGED <<parser, out, busy>>

\* What the condition on the partition key means.
LEMMA QueryBaseMeant ==
  ASSUME NEW t, NEW v
  PROVE  LET b == QueryBase(t, v)
             partition == <<Attr(t.pk.name), Text("="), Literal([type |-> t.pk.type, text |-> v])>>
         IN /\ Replaced(b.exp, b.names, b.values) = partition
            /\ b.exp # <<>>
            /\ \A i \in DOMAIN b.exp : b.exp[i].kind \in Tokens
            /\ Refs(b.exp, "name") \subseteq {Pk} /\ Refs(b.exp, "value") \subseteq {Pk}
            /\ DOMAIN b.names = {Pk} /\ DOMAIN b.values = {Pk}
            /\ IsSeq(b.exp) /\ IsSeq(partition)
<1> DEFINE e == <<NameRef(Pk), Written("="), ValueRef(Pk)>>
           val == [type |-> t.pk.type, text |-> v]
           ns == [r \in {Pk} |-> t.pk.name]
           vs == [r \in {Pk} |-> val]
           a == Attr(t.pk.name)
           s == Text("=")
           l == Literal(val)
           p == <<a, s, l>>
<1>1. /\ DOMAIN e = {1, 2, 3} /\ e # <<>>
      /\ e[1] = NameRef(Pk) /\ e[2] = Written("=") /\ e[3] = ValueRef(Pk)
  OBVIOUS
<1>2. IsSeq(e) /\ IsSeq(p)
  <2>1. e \in Seq({NameRef(Pk), Written("="), ValueRef(Pk)}) /\ p \in Seq({a, s, l})
    <3> HIDE DEF a, s, l
    <3> QED
      OBVIOUS
  <2> QED
    BY <2>1 DEF IsSeq
<1>3. /\ e[1].kind = "name" /\ e[1].ref = Pk
      /\ e[2].kind = "text" /\ e[2].text = "="
      /\ e[3].kind = "value" /\ e[3].ref = Pk
  BY <1>1 DEF NameRef, Written, ValueRef
<1> HIDE DEF e, val
<1>4. ns[Pk] = t.pk.name /\ vs[Pk] = val /\ DOMAIN ns = {Pk} /\ DOMAIN vs = {Pk}
  OBVIOUS
<1> HIDE DEF ns, vs
<1>5. Meant(e[1], ns, vs) = a /\ Meant(e[2], ns, vs) = s /\ Meant(e[3], ns, vs) = l
  BY <1>3, <1>4 DEF Meant
<1> HIDE DEF a, s, l
<1>6. Replaced(e, ns, vs) = p
  <2>1. Replaced(e, ns, vs) = [i \in {1, 2, 3} |-> IF i = 1 THEN a ELSE IF i = 2 THEN s ELSE l]
    BY <1>1, <1>5, ReplacedIs
  <2>2. p = [i \in {1, 2, 3} |-> IF i = 1 THEN a ELSE IF i = 2 THEN s ELSE l]
    OBVIOUS
  <2> QED
    BY <2>1, <2>2
<1>7. \A i \in DOMAIN e : e[i].kind \in Tokens
  BY <1>1, <1>3 DEF Tokens
<1>8. Refs(e, "name") \subseteq {Pk} /\ Refs(e, "value") \subseteq {Pk}
  BY <1>1, <1>3 DEF Refs
<1>9. QueryBase(t, v).exp = e /\ QueryBase(t, v).names = ns /\ QueryBase(t, v).values = vs
  BY DEF QueryBase, e, ns, vs, val
<1> QED
  BY <1>1, <1>2, <1>4, <1>6, <1>7, <1>8, <1>9 DEF a, s, l, val

\* What is written for a condition is a sequence.
LEMMA SortSourceIsSeq == ASSUME NEW w, NEW k PROVE IsSeq(SortSource(w, k))
<1> DEFINE val(i) == Literal([type |-> k.type, text |-> w.args[i].text])
           a == Attr(k.name)
           x == val(1)
           y == val(2)
           T(s) == Text(s)
           between == <<a, T(" BETWEEN "), x, T(" AND "), y>>
           begins == <<T("begins_with("), a, T(","), x, T(")")>>
           compares == <<a, T(Equal(w.op)), x>>
<1>1. SortSource(w, k) \in {between, begins, compares}
  BY DEF SortSource
<1> HIDE DEF a, x, y, T
<1>2. /\ between \in Seq({a, x, y, T(" BETWEEN "), T(" AND ")})
      /\ begins \in Seq({a, x, T("begins_with("), T(","), T(")")})
      /\ compares \in Seq({a, x, T(Equal(w.op))})
  OBVIOUS
<1> QED
  BY <1>1, <1>2 DEF IsSeq

\* A condition that is taken starts with what was written for it.
LEMMA SortKeyMeant ==
  ASSUME NEW w, NEW key, NEW strict, SortKey(w, key, strict), ~busy, calls # <<>>,
         WellWritten(w), BaseMeant, UNCHANGED <<parser, out>>,
         Condition(w, key.type, strict) # Rejected =>
           ConditionNode(Condition(w, key.type, strict), key.name) \in Nodes,
         Lead' \o SortSource(w, key) = Meaning(Head(calls))
  PROVE  StartsMeant \/ RepliesMeant
<1> DEFINE c == Condition(w, key.type, strict)
           n == ConditionNode(c, key.name)
           s == IF strict THEN Suggestion(w, key.type) ELSE Rejected
<1>1. CASE c = Rejected /\ Fails(s) /\ calls' = Tail(calls) /\ UNCHANGED <<work, busy>>
  <2> HIDE DEF s
  <2>1. PICK r : results' = Append(results, r) /\ ~r.ok
    BY <1>1, FailsResult
  <2> QED
    BY <1>1, <2>1 DEF RepliesMeant, parser
<1>2. CASE c # Rejected /\ Starts(n) /\ UNCHANGED <<calls, results>>
  <2>1. n \in Nodes /\ Source[n] = SortSource(w, key)
    BY <1>2, ConditionSource
  <2> HIDE DEF n, c
  <2>2. work' = <<n>> /\ Lead' \o Source[n] = Meaning(Head(calls))
    BY <1>2, <2>1 DEF Starts
  <2> QED
    BY <1>2, <2>1, <2>2 DEF StartsMeant, parser
<1> QED
  BY <1>1, <1>2 DEF SortKey

\* How the calls start and return, with what was written.
LEMMA MeantSteps ==
  ASSUME [Next]_vars, HeadCall, calls # <<>> /\ Head(calls).kind \notin Alone => base = NoBase
  PROVE  \/ StartsMeant \/ RepliesMeant
         \/ Expand \/ PushText \/ Attribute \/ Value \/ Return
         \/ UNCHANGED vars
<1> DEFINE c == Head(calls)
<1>a. calls # <<>> => WellFormed(c)
  BY DEF HeadCall
<1>b. ASSUME base' = NoBase PROVE Lead' = <<>>
  BY <1>b DEF Lead, NoBase
<1>c. ASSUME NEW n \in Nodes PROVE <<>> \o Source[n] = Source[n]
  <2>1. Source[n] \in Seq(Symbols)
    BY SourceIs
  <2> HIDE DEF Source
  <2> QED
    BY <2>1
<1>1. CASE Update
  <2>1. /\ ~busy /\ calls # <<>> /\ c.kind = "update" /\ work' = <<c.tree>>
        /\ UNCHANGED <<calls, parser, base, out, results>>
    BY <1>1 DEF Update, Starts
  <2>2. c.tree \in Nodes
    BY <1>a, <2>1 DEF WellFormed, Trees
  <2>3. Lead' = <<>>
    BY <1>b, <2>1 DEF Alone
  <2>4. Meaning(c) = Source[c.tree]
    BY <2>1 DEF Meaning
  <2>5. Lead' \o Source[c.tree] = Meaning(c)
    BY <1>c, <2>2, <2>3, <2>4
  <2> QED
    BY <2>1, <2>2, <2>5 DEF StartsMeant, BaseMeant
<1>2. CASE Sort
  <2>1. /\ ~busy /\ calls # <<>> /\ c.kind = "sort"
        /\ SortKey(c.written, c.key, c.strict)
        /\ UNCHANGED <<parser, base, out>>
    BY <1>2 DEF Sort
  <2>2. WellWritten(c.written) /\ Trees(c) \subseteq Nodes
    BY <1>a, <2>1 DEF WellFormed
  <2> DEFINE x == Condition(c.written, c.key.type, c.strict)
             n == ConditionNode(x, c.key.name)
  <2>3. x # Rejected => n \in Nodes
    BY <2>1, <2>2 DEF Trees
  <2>4. Lead' = <<>> /\ BaseMeant
    BY <1>b, <2>1 DEF Alone, BaseMeant
  <2>5. Meaning(c) = SortSource(c.written, c.key)
    BY <2>1 DEF Meaning
  <2>6. <<>> \o SortSource(c.written, c.key) = SortSource(c.written, c.key)
    <3>1. IsSeq(SortSource(c.written, c.key))
      BY SortSourceIsSeq
    <3> QED
      BY <3>1, ConcatIsSeq
  <2>7. Lead' \o SortSource(c.written, c.key) = Meaning(c)
    BY <2>4, <2>5, <2>6
  <2> HIDE DEF c
  <2> QED
    BY <2>1, <2>2, <2>3, <2>4, <2>7, SortKeyMeant DEF c
<1>3. CASE Query
  <2> DEFINE targets == Targets(c.schema, c.index)
  <2>1. ~busy /\ calls # <<>> /\ c.kind = "query" /\ UNCHANGED <<parser, out>>
    BY <1>3 DEF Query
  <2>2. CASE Fails(Rejected) /\ calls' = Tail(calls) /\ UNCHANGED <<base, work, busy>>
    <3>1. PICK r : results' = Append(results, r) /\ ~r.ok
      BY <2>2, FailsResult
    <3> QED
      BY <2>1, <2>2, <3>1 DEF RepliesMeant, BaseMeant
  <2>3. ASSUME NEW t \in targets,
               base' = QueryBase(t, c.pval),
               \/ /\ c.sort = <<>>
                  /\ Succeeds(base'.exp, base'.names, base'.values)
                  /\ calls' = Tail(calls)
                  /\ UNCHANGED <<work, busy>>
               \/ /\ c.sort # <<>>
                  /\ t.sk # <<>>
                  /\ SortKey(c.sort[1], t.sk[1], c.strict)
        PROVE  StartsMeant \/ RepliesMeant
    <3> DEFINE partition == <<Attr(t.pk.name), Text("="), Literal([type |-> t.pk.type, text |-> c.pval])>>
    <3>1. BaseMeant
      BY <2>3 DEF BaseMeant
    <3>2. t = CHOOSE u \in targets : TRUE
      <4>1. \A u, v \in targets : u = v
        BY <1>a, <2>1 DEF WellFormed
      <4> HIDE DEF targets
      <4> QED
        BY <4>1
    <3>3. /\ Replaced(base'.exp, base'.names, base'.values) = partition
          /\ base'.exp # <<>>
          /\ IsSeq(partition)
      BY <2>3, QueryBaseMeant, Zenon
    <3>4. CASE c.sort = <<>> /\ Succeeds(base'.exp, base'.names, base'.values) /\ UNCHANGED <<work, busy>>
      <4>1. PICK r : /\ results' = Append(results, r) /\ r.call = c
                     /\ r.exp = base'.exp /\ r.names = base'.names /\ r.values = base'.values
        BY <3>4, SucceedsResult
      <4>2. Meaning(c) = partition
        <5>1. Meaning(c) = QuerySource(c)
          BY <2>1 DEF Meaning
        <5>2. QuerySource(c) = partition
          BY <3>2, <3>4 DEF QuerySource
        <5> QED
          BY <5>1, <5>2
      <4>3. Replaced(r.exp, r.names, r.values) = Meaning(r.call)
        BY <3>3, <4>1, <4>2
      <4> QED
        BY <2>1, <3>1, <3>4, <4>1, <4>3 DEF RepliesMeant
    <3>5. CASE c.sort # <<>> /\ t.sk # <<>> /\ SortKey(c.sort[1], t.sk[1], c.strict)
      <4> DEFINE w == c.sort[1]
                 key == t.sk[1]
                 x == Condition(w, key.type, c.strict)
                 n == ConditionNode(x, key.name)
                 and == <<Text(" AND ")>>
      <4>1. WellWritten(w) /\ Trees(c) \subseteq Nodes
        BY <1>a, <2>1, <3>5 DEF WellFormed
      <4>2. x # Rejected => n \in Nodes
        <5>1. t \in {u \in targets : c.sort # <<>> /\ u.sk # <<>>}
          BY <3>5
        <5>2. x # Rejected => n \in Trees(c)
          BY <2>1, <5>1 DEF Trees
        <5> QED
          BY <4>1, <5>2
      <4>3. Lead' = partition \o and
        BY <3>3 DEF Lead
      <4>4. Meaning(c) = partition \o and \o SortSource(w, key)
        <5>1. Meaning(c) = QuerySource(c)
          BY <2>1 DEF Meaning
        <5>2. QuerySource(c) = partition \o and \o SortSource(w, key)
          BY <3>2, <3>5 DEF QuerySource
        <5> QED
          BY <5>1, <5>2
      <4>5. Lead' \o SortSource(w, key) = Meaning(c)
        BY <4>3, <4>4
      <4> HIDE DEF w, key
      <4>6. StartsMeant \/ RepliesMeant
        BY <2>1, <3>1, <3>5, <4>1, <4>2, <4>5, SortKeyMeant DEF w, key
      <4> QED
        BY <4>6
    <3> QED
      BY <2>3, <3>4, <3>5
  <2> QED
    BY <1>3, <2>2, <2>3 DEF Query, QueryBase
<1>4. CASE Scan
  <2>1. /\ ~busy /\ calls # <<>> /\ c.kind = "scan"
        /\ UNCHANGED <<parser, base, work, out, busy>>
    BY <1>4 DEF Scan
  <2> DEFINE keys == <<c.schema.pk>> \o c.schema.sk
             refs == SubSeq(<<Pk, Sk>>, 1, Len(keys))
             rest == Projected(c.schema, c.attributes)
             exp == [i \in 1..Len(keys) + Len(rest) |->
                       NameRef(IF i <= Len(keys) THEN refs[i] ELSE i - Len(keys) - 1)]
             ns == Extended([r \in Range(refs) |-> IF r = Pk THEN keys[1].name ELSE keys[2].name],
                            [r \in 0..Len(rest) - 1 |-> rest[r + 1]])
  <2>2. Succeeds(exp, ns, NoValues)
    BY <1>4 DEF Scan
  <2>3. Replaced(exp, ns, NoValues) = ScanSource(c)
    <3>1. /\ c.schema.sk = <<>> \/ c.schema.sk = <<c.schema.sk[1]>>
          /\ c.attributes \in Seq(ToSet(c.attributes))
      BY <1>a, <2>1 DEF WellFormed
    <3> HIDE DEF c
    <3> QED
      BY <3>1, ScanMeant
  <2>4. Meaning(c) = ScanSource(c)
    BY <2>1 DEF Meaning
  <2> HIDE DEF exp, ns
  <2>5. PICK r : /\ results' = Append(results, r) /\ r.call = c
                 /\ r.exp = exp /\ r.names = ns /\ r.values = NoValues
    BY <2>2, SucceedsResult
  <2>6. Replaced(r.exp, r.names, r.values) = Meaning(r.call)
    BY <2>3, <2>4, <2>5
  <2> QED
    BY <2>1, <2>5, <2>6 DEF RepliesMeant, BaseMeant, parser
<1> QED
  BY <1>1, <1>2, <1>3, <1>4 DEF Next

\* A result that means what was written is added to the others.
LEMMA MeansAdded ==
  ASSUME NEW r, IsSeq(results), MeansTheSame, results' = Append(results, r),
         r.ok => Replaced(r.exp, r.names, r.values) = Meaning(r.call)
  PROVE  MeansTheSame'
<1>n. PICK n \in Nat : n = Len(results)
  BY AppendIsSeq
<1>1. /\ DOMAIN results = 1..n
      /\ DOMAIN results' = 1..n + 1
      /\ results'[n + 1] = r
      /\ \A i \in 1..n : results'[i] = results[i]
  BY <1>n, AppendIsSeq
<1>2. \A i \in 1..n + 1 : i = n + 1 \/ i \in 1..n
  OBVIOUS
<1>3. ASSUME NEW i \in 1..n + 1, results'[i].ok
      PROVE  Replaced(results'[i].exp, results'[i].names, results'[i].values) = Meaning(results'[i].call)
  <2>1. CASE i = n + 1
    BY <1>1, <1>3, <2>1
  <2>2. CASE i \in 1..n
    <3>1. results'[i] = results[i] /\ i \in DOMAIN results
      BY <1>1, <2>2
    <3> QED
      BY <1>3, <3>1 DEF MeansTheSame
  <2> QED
    BY <1>2, <2>1, <2>2
<1> QED
  BY <1>1, <1>3 DEF MeansTheSame

\* What the first tree of the work yields, and the others.
LEMMA WorkYields ==
  ASSUME work \in Seq(Nodes), work # <<>>
  PROVE  /\ Yields(work) = Source[Head(work)] \o Yields(Tail(work))
         /\ IsSeq(Source[Head(work)]) /\ IsSeq(Yields(Tail(work)))
         /\ Head(work) \in Nodes /\ Tail(work) \in Seq(Symbols)
<1> DEFINE h == Head(work)
           t == Tail(work)
<1>1. h \in Nodes /\ t \in Seq(Nodes) /\ work = <<h>> \o t
  OBVIOUS
<1>2. Nodes \subseteq Symbols
  BY DEF Symbols
<1> HIDE DEF h, t
<1>3. h \in Symbols /\ t \in Seq(Symbols) /\ <<h>> \in Seq(Symbols)
  BY <1>1, <1>2
<1> DEFINE u == <<h>>
<1>4. u \in Seq(Symbols) /\ work = u \o t
  BY <1>1, <1>3
<1>5. Yields(u) = Spelled(h) /\ Yields(t) \in Seq(Symbols)
  BY <1>3, YieldsSteps
<1> HIDE DEF u
<1>6. Yields(u \o t) = Yields(u) \o Yields(t)
  BY <1>3, <1>4, YieldsConcat
<1>7. Spelled(h) = Source[h] /\ Source[h] \in Seq(Symbols)
  BY <1>1, SpelledType, SourceIs
<1>8. Yields(work) = Source[h] \o Yields(t) /\ IsSeq(Source[h]) /\ IsSeq(Yields(t))
  BY <1>4, <1>5, <1>6, <1>7 DEF IsSeq
<1> QED
  BY <1>1, <1>3, <1>8 DEF h, t

\* What is said is a sequence.
LEMMA LeadIsSeq == ASSUME BaseIs PROVE IsSeq(Lead)
<1>1. CASE base = NoBase
  <2>1. Lead = <<>>
    BY <1>1 DEF Lead, NoBase
  <2>2. <<>> \in Seq({})
    OBVIOUS
  <2> QED
    BY <2>1, <2>2 DEF IsSeq
<1>2. ASSUME NEW t, NEW v, base = QueryBase(t, v) PROVE IsSeq(Lead)
  <2> DEFINE p == Replaced(base.exp, base.names, base.values)
  <2>1. base.exp # <<>> /\ IsSeq(p)
    BY <1>2, QueryBaseMeant
  <2> HIDE DEF p
  <2>2. Lead = p \o <<Text(" AND ")>>
    BY <2>1 DEF Lead, p
  <2>3. IsSeq(<<Text(" AND ")>>)
    BY <2>1, ConcatIsSeq
  <2> DEFINE and == <<Text(" AND ")>>
  <2> HIDE DEF and
  <2>4. IsSeq(p \o and)
    BY <2>1, <2>3, ConcatIsSeq DEF and
  <2> QED
    BY <2>2, <2>4 DEF and
<1> QED
  BY <1>1, <1>2 DEF BaseIs

\* A step on a tree that takes from what is to be said what it adds to what is said.
LEMMA SaysOn ==
  ASSUME MeaningInv, busy, UNCHANGED <<calls, base, results, busy>>,
         Replaced(out', names', values') \o Yields(work') = Replaced(out, names, values) \o Yields(work),
         \A i \in DOMAIN out' : out'[i].kind \in Tokens
  PROVE  MeaningInv'
<1>1. MeansTheSame' /\ BaseIs'
  BY DEF MeaningInv, MeansTheSame, BaseIs
<1>2. Lead' = Lead
  BY DEF Lead
<1>3. Lead \o (Replaced(out', names', values') \o Yields(work')) = Meaning(Head(calls))
  BY DEF MeaningInv, Says
<1>4. Says'
  BY <1>2, <1>3 DEF Says
<1> QED
  BY <1>1, <1>4 DEF MeaningInv

\* A token that means the leaf it is written for.
LEMMA TokenMeant ==
  ASSUME TypeInv, MeaningInv, busy, work # <<>>, NEW token,
         work' = Tail(work), out' = Append(out, token), UNCHANGED <<calls, base, results, busy>>,
         Head(work).kind \in Leaves, token.kind \in Tokens, Meant(token, names', values') = Head(work),
         \A r \in DOMAIN names : names'[r] = names[r],
         \A r \in DOMAIN values : values'[r] = values[r]
  PROVE  MeaningInv'
<1> DEFINE h == Head(work)
           t == Yields(Tail(work))
           r0 == Replaced(out, names, values)
           r1 == Replaced(out', names', values')
           u == <<h>>
<1>1. /\ Yields(work) = Source[h] \o t /\ IsSeq(t) /\ h \in Nodes
  BY WorkYields DEF TypeInv, TypeOK
<1>2. Source[h] = u
  BY <1>1, SpelledType DEF Spelled
<1>3. IsSeq(out) /\ Refs(out, "name") \subseteq DOMAIN names /\ Refs(out, "value") \subseteq DOMAIN values
  BY RefsIn DEF TypeInv, TypeOK
<1>4. Replaced(out, names', values') = r0
  BY <1>3, ReplacedUnder DEF MeaningInv
<1>5. Replaced(Append(out, token), names', values')
      = Replaced(out, names', values') \o <<Meant(token, names', values')>>
  BY <1>3, ReplacedAppend
<1>6. r1 = r0 \o u
  BY <1>4, <1>5
<1>7. IsSeq(r0)
  BY <1>3, ReplacedSeq
<1>8. IsSeq(u)
  BY <1>7, ConcatIsSeq
<1> HIDE DEF h, t, r0, u
<1>9. (r0 \o u) \o t = r0 \o (u \o t)
  BY <1>1, <1>7, <1>8, ConcatIsSeq
<1>10. Yields(work') = t
  BY DEF t
<1>11. r1 \o Yields(work') = r0 \o Yields(work)
  BY <1>1, <1>2, <1>6, <1>9, <1>10
<1>12. \A i \in DOMAIN out' : out'[i].kind \in Tokens
  <2>1. /\ DOMAIN out' = DOMAIN out \cup {Len(out) + 1}
        /\ out'[Len(out) + 1] = token
        /\ \A i \in DOMAIN out : out'[i] = out[i]
    BY <1>3, AppendIsSeq
  <2> QED
    BY <2>1 DEF MeaningInv
<1> QED
  BY <1>11, <1>12, SaysOn DEF r0

\* The request that is returned means what base means, and then what was said.
LEMMA JoinedMeant ==
  ASSUME TypeInv, BaseIs, \A i \in DOMAIN out : out[i].kind \in Tokens
  PROVE  Replaced(Joined, Extended(base.names, names), Extended(base.values, values))
         = Lead \o Replaced(out, names, values)
<1> DEFINE all == Extended(base.names, names)
           vals == Extended(base.values, values)
           r0 == Replaced(out, names, values)
<1>1. IsSeq(out) /\ Refs(out, "name") \subseteq DOMAIN names /\ Refs(out, "value") \subseteq DOMAIN values
  BY RefsIn DEF TypeInv, TypeOK
<1>2. /\ \A r \in DOMAIN names : all[r] = names[r]
      /\ \A r \in DOMAIN values : vals[r] = values[r]
  BY DEF Extended
<1>3. Pk \notin DOMAIN names /\ Pk \notin DOMAIN values
  BY DEF TypeInv, Numbered, Pk
<1>4. /\ \A r \in DOMAIN base.names \ DOMAIN names : all[r] = base.names[r]
      /\ \A r \in DOMAIN base.values \ DOMAIN values : vals[r] = base.values[r]
  BY DEF Extended
<1> HIDE DEF all, vals
<1>5. Replaced(out, all, vals) = r0 /\ IsSeq(r0)
  BY <1>1, <1>2, ReplacedUnder, ReplacedSeq
<1>6. CASE base = NoBase
  <2>1. base.exp = <<>>
    BY <1>6 DEF NoBase
  <2>2. Joined = out /\ Lead = <<>>
    BY <2>1 DEF Joined, Lead
  <2> HIDE DEF r0
  <2>3. <<>> \o r0 = r0
    BY <1>5, ConcatIsSeq
  <2> QED
    BY <1>5, <2>2, <2>3 DEF r0, all, vals
<1>7. ASSUME NEW t, NEW v, base = QueryBase(t, v)
      PROVE  Replaced(Joined, all, vals) = Lead \o r0
  <2> DEFINE e == base.exp
             p == Replaced(e, base.names, base.values)
             w == Written(" AND ")
  <2>1. /\ e # <<>> /\ IsSeq(e) /\ \A i \in DOMAIN e : e[i].kind \in Tokens
        /\ Refs(e, "name") \subseteq {Pk} /\ Refs(e, "value") \subseteq {Pk}
        /\ DOMAIN base.names = {Pk} /\ DOMAIN base.values = {Pk}
    BY <1>7, QueryBaseMeant
  <2>2. Replaced(e, all, vals) = p
    BY <1>3, <1>4, <2>1, ReplacedUnder
  <2>3. Append(e, w) = e \o <<w>> /\ IsSeq(<<w>>)
    BY <2>1, ConcatIsSeq
  <2>4. IsSeq(Append(e, w))
    BY <2>1, AppendIsSeq
  <2>5. Meant(w, all, vals) = Text(" AND ")
    BY DEF Meant, Written
  <2>6. Replaced(Append(e, w), all, vals) = p \o <<Text(" AND ")>>
    <3>1. Replaced(Append(e, w), all, vals) = Replaced(e, all, vals) \o <<Meant(w, all, vals)>>
      <4>1. IsSeq(e)
        BY <2>1
      <4> HIDE DEF e, w
      <4> QED
        BY <4>1, ReplacedAppend
    <3> QED
      BY <2>2, <2>5, <3>1
  <2> DEFINE f == Append(e, w)
  <2>7. Joined = f \o out
    BY <2>1, <2>3 DEF Joined
  <2>8. Lead = Replaced(f, all, vals)
    BY <2>1, <2>6 DEF Lead
  <2>9. IsSeq(f)
    BY <2>4
  <2> HIDE DEF f
  <2>10. Replaced(f \o out, all, vals) = Replaced(f, all, vals) \o Replaced(out, all, vals)
    <3>1. IsSeq(out)
      BY <1>1
    <3> QED
      BY <2>9, <3>1, ReplacedConcat
  <2> QED
    BY <1>5, <2>7, <2>8, <2>10
<1> QED
  BY <1>6, <1>7 DEF BaseIs, all, vals

\* At the start nothing is returned or said.
LEMMA MeaningInit == Init => MeaningInv
<1> SUFFICES ASSUME Init PROVE MeaningInv
  OBVIOUS
<1>1. DOMAIN <<>> = {}
  OBVIOUS
<1> QED
  BY <1>1 DEF Init, MeaningInv, MeansTheSame, BaseIs, Says

\* Every step says more of what was written, or returns when all is said.
LEMMA MeaningStep ==
  TypeInv /\ NamesAgree /\ RequestInv /\ TypedInv /\ MeaningInv /\ [Next]_vars => MeaningInv'
<1> SUFFICES ASSUME TypeInv, NamesAgree, RequestInv, TypedInv, MeaningInv, [Next]_vars
             PROVE  MeaningInv'
  OBVIOUS
<1>0. HeadCall /\ (calls # <<>> /\ Head(calls).kind \notin Alone => base = NoBase)
  BY CallsLeft DEF TypeInv, HeadCall, TypedInv
<1>s. IsSeq(results) /\ (~busy => out = <<>>)
  BY DEF RequestInv, Lone
<1>b. BaseIs /\ MeansTheSame
  BY DEF MeaningInv
<1>w. work \in Seq(Nodes)
  BY DEF TypeInv, TypeOK
<1>1. CASE StartsMeant
  <2>1. MeansTheSame' /\ BaseIs'
    BY <1>1, <1>b DEF StartsMeant, BaseMeant, BaseIs, MeansTheSame
  <2>2. out' = <<>>
    BY <1>1, <1>s DEF StartsMeant
  <2>3. PICK n \in Nodes : work' = <<n>> /\ Lead' \o Source[n] = Meaning(Head(calls))
    BY <1>1 DEF StartsMeant
  <2>4. Yields(work') = Source[n] /\ IsSeq(Source[n])
    <3>1. n \in Symbols /\ Spelled(n) = Source[n]
      BY SpelledType DEF Symbols
    <3>2. Yields(<<n>>) = Spelled(n)
      BY <3>1, YieldsSteps
    <3>3. Source[n] \in Seq(Symbols)
      BY SourceIs
    <3> QED
      BY <2>3, <3>1, <3>2, <3>3 DEF IsSeq
  <2>5. Replaced(out', names', values') = <<>>
    <3>1. IsSeq(<<>>) /\ DOMAIN <<>> = {}
      <4>1. <<>> \in Seq({}) /\ DOMAIN <<>> = {}
        OBVIOUS
      <4> QED
        BY <4>1 DEF IsSeq
    <3>2. Replaced(<<>>, names', values') = [i \in {} |-> 0]
      BY <3>1 DEF Replaced
    <3>3. <<>> = [i \in {} |-> 0]
      OBVIOUS
    <3> QED
      BY <2>2, <3>2, <3>3
  <2> DEFINE s == Source[n]
  <2>6. IsSeq(s)
    BY <2>4
  <2> HIDE DEF s
  <2>7. <<>> \o s = s
    BY <2>6, ConcatIsSeq
  <2>8. Lead' \o (Replaced(out', names', values') \o Yields(work')) = Meaning(Head(calls'))
    BY <1>1, <2>3, <2>4, <2>5, <2>7 DEF StartsMeant, s
  <2>9. \A i \in DOMAIN out' : out'[i].kind \in Tokens
    BY <2>2
  <2> QED
    BY <2>1, <2>8, <2>9 DEF MeaningInv, Says
<1>2. CASE RepliesMeant
  <2>1. PICK r : /\ results' = Append(results, r)
                 /\ r.ok => Replaced(r.exp, r.names, r.values) = Meaning(r.call)
    BY <1>2 DEF RepliesMeant
  <2>2. MeansTheSame'
    BY <1>s, <1>b, <2>1, MeansAdded
  <2>3. BaseIs'
    BY <1>2, <1>b DEF RepliesMeant, BaseMeant, BaseIs
  <2>4. ~busy' /\ out' = out
    BY <1>2 DEF RepliesMeant
  <2>5. \A i \in DOMAIN out' : out'[i].kind \in Tokens
    BY <2>4 DEF MeaningInv
  <2>6. Says'
    BY <2>4 DEF Says
  <2> QED
    BY <2>2, <2>3, <2>5, <2>6 DEF MeaningInv
<1>3. CASE Expand
  <2> DEFINE h == Head(work)
             t == Tail(work)
             p == Parts(h)
  <2>1. /\ busy /\ work # <<>> /\ h.kind \notin Leaves
        /\ work' = p \o t
        /\ UNCHANGED <<calls, names, values, base, out, busy, results>>
    BY <1>3 DEF Expand, parser
  <2>2. Yields(work) = Source[h] \o Yields(t) /\ h \in Nodes /\ t \in Seq(Symbols)
    BY <1>w, <2>1, WorkYields
  <2> HIDE DEF h, t
  <2>3. p \in Seq(Nodes) /\ Yields(p) = Source[h]
    BY <2>1, <2>2, PartsAreSource
  <2>4. p \in Seq(Symbols)
    <3>1. Nodes \subseteq Symbols
      BY DEF Symbols
    <3> HIDE DEF p
    <3> QED
      BY <2>3, <3>1
  <2> HIDE DEF p
  <2>5. Yields(p \o t) = Yields(p) \o Yields(t)
    BY <2>2, <2>4, YieldsConcat
  <2>6. Yields(work') = Yields(work)
    BY <2>1, <2>2, <2>3, <2>5
  <2> QED
    BY <2>1, <2>6, SaysOn DEF MeaningInv
<1>4. CASE PushText
  <2> DEFINE h == Head(work)
             token == Written(h.text)
  <2>1. /\ busy /\ work # <<>> /\ h.kind = "text" /\ work' = Tail(work) /\ out' = Append(out, token)
        /\ UNCHANGED <<calls, names, values, base, busy, results>>
    BY <1>4 DEF PushText, Part, Next1, parser
  <2>2. h \in Nodes
    BY <1>w, <2>1, HeadPart
  <2>3. h = Text(h.text)
    BY <2>1, <2>2, NodesAssumption
  <2>4. token.kind = "text" /\ token.text = h.text
    BY DEF Written
  <2>5. Meant(token, names', values') = h
    BY <2>3, <2>4 DEF Meant
  <2>6. h.kind \in Leaves /\ token.kind \in Tokens
    BY <2>1, <2>4 DEF Leaves, Tokens
  <2> HIDE DEF token
  <2> QED
    BY <2>1, <2>5, <2>6, TokenMeant
<1>5. CASE Attribute
  <2> DEFINE h == Head(work)
             k == h.name
             r == IF k \in DOMAIN names_inv THEN names_inv[k] ELSE Next0(names)
             token == NameRef(r)
  <2>1. /\ busy /\ work # <<>> /\ h.kind = "attribute" /\ work' = Tail(work) /\ out' = Append(out, token)
        /\ UNCHANGED <<calls, values, base, busy, results>>
        /\ IF k \in DOMAIN names_inv THEN names' = names ELSE names' = Insert(names, r, k)
    BY <1>5 DEF Attribute, Part, Next1, Next0
  <2>2. h \in Nodes
    BY <1>w, <2>1, HeadPart
  <2>3. h = Attr(k)
    BY <2>1, <2>2, NodesAssumption
  <2>4. names'[r] = k /\ \A x \in DOMAIN names : names'[x] = names[x]
    <3>1. CASE k \in DOMAIN names_inv
      BY <2>1, <3>1 DEF NamesAgree
    <3>2. CASE k \notin DOMAIN names_inv
      <4>1. Numbered(names)
        BY DEF TypeInv
      <4> HIDE DEF k
      <4> DEFINE g == Insert(names, Next0(names), k)
      <4>2. g[Next0(names)] = k /\ \A x \in DOMAIN names : g[x] = names[x]
        BY <4>1, NumberedInsert, Zenon
      <4>3. names' = g /\ r = Next0(names)
        BY <2>1, <3>2
      <4> QED
        BY <4>2, <4>3
    <3> QED
      BY <3>1, <3>2
  <2>5. token.kind = "name" /\ token.ref = r
    BY DEF NameRef
  <2>6. h.kind \in Leaves /\ token.kind \in Tokens
    BY <2>1, <2>5 DEF Leaves, Tokens
  <2> HIDE DEF token, r, k
  <2>7. Meant(token, names', values') = h
    BY <2>3, <2>4, <2>5 DEF Meant
  <2> HIDE DEF h
  <2> QED
    BY <2>1, <2>4, <2>6, <2>7, TokenMeant DEF h
<1>6. CASE Value
  <2> DEFINE h == Head(work)
             v == h.val
             r == Next0(values)
             token == ValueRef(r)
  <2>1. /\ busy /\ work # <<>> /\ h.kind = "literal" /\ work' = Tail(work) /\ out' = Append(out, token)
        /\ UNCHANGED <<calls, names, base, busy, results>>
        /\ values' = Insert(values, r, v)
    BY <1>6 DEF Value, Part, Next1, Next0
  <2>2. h \in Nodes
    BY <1>w, <2>1, HeadPart
  <2>3. h = Literal(v)
    BY <2>1, <2>2, NodesAssumption
  <2>4. values'[r] = v /\ \A x \in DOMAIN values : values'[x] = values[x]
    <3>1. Numbered(values)
      BY DEF TypeInv
    <3> HIDE DEF v
    <3> DEFINE g == Insert(values, Next0(values), v)
    <3>2. g[Next0(values)] = v /\ \A x \in DOMAIN values : g[x] = values[x]
      BY <3>1, NumberedInsert, Zenon
    <3>3. values' = g
      BY <2>1
    <3> QED
      BY <3>2, <3>3
  <2>5. token.kind = "value" /\ token.ref = r
    BY DEF ValueRef
  <2>6. h.kind \in Leaves /\ token.kind \in Tokens
    BY <2>1, <2>5 DEF Leaves, Tokens
  <2> HIDE DEF token, r, v
  <2>7. Meant(token, names', values') = h
    BY <2>3, <2>4, <2>5 DEF Meant
  <2> HIDE DEF h
  <2> QED
    BY <2>1, <2>4, <2>6, <2>7, TokenMeant DEF h
<1>7. CASE Return
  <2> DEFINE c == Head(calls)
             ns == Extended(base.names, names)
             vs == Extended(base.values, values)
             r0 == Replaced(out, names, values)
  <2>1. /\ busy /\ work = <<>> /\ out' = <<>> /\ ~busy' /\ base' = base
        /\ Succeeds(Joined, ns, vs)
    BY <1>7 DEF Return
  <2>2. PICK r : /\ results' = Append(results, r) /\ r.call = c /\ r.exp = Joined
                 /\ r.names = ns /\ r.values = vs
    BY <2>1, SucceedsResult
  <2>3. Replaced(Joined, ns, vs) = Lead \o r0
    BY <1>b, JoinedMeant DEF MeaningInv
  <2>4. IsSeq(r0) /\ Yields(work) = <<>>
    BY <2>1, ReplacedSeq, YieldsSteps DEF TypeInv
  <2>5. Lead \o (r0 \o Yields(work)) = Meaning(c)
    BY <2>1 DEF MeaningInv, Says
  <2> HIDE DEF ns, vs, r0, c
  <2>6. r0 \o <<>> = r0
    BY <2>4, ConcatIsSeq
  <2>7. Replaced(r.exp, r.names, r.values) = Meaning(r.call)
    BY <2>2, <2>3, <2>4, <2>5, <2>6
  <2>8. MeansTheSame'
    BY <1>s, <1>b, <2>2, <2>7, MeansAdded
  <2>9. BaseIs'
    BY <1>b, <2>1 DEF BaseIs
  <2>10. \A i \in DOMAIN out' : out'[i].kind \in Tokens
    BY <2>1
  <2> QED
    BY <2>1, <2>8, <2>9, <2>10 DEF MeaningInv, Says
<1>8. CASE UNCHANGED vars
  <2>1. UNCHANGED <<calls, names, values, base, work, out, busy, results>>
    BY <1>8 DEF vars, parser
  <2>2. Lead' = Lead
    BY <2>1 DEF Lead
  <2> QED
    BY <2>1, <2>2 DEF MeaningInv, MeansTheSame, BaseIs, Says
<1> QED
  BY <1>0, <1>1, <1>2, <1>3, <1>4, <1>5, <1>6, <1>7, <1>8, MeantSteps

\* Whatever was written, in however many calls on a parser: what a request says, with its
\* placeholders replaced by what its maps define for them, is what was written.
THEOREM MeantAsWritten == Spec => []MeansTheSame
<1>1. MeaningInv => MeansTheSame
  BY DEF MeaningInv
<1>2. Init => NamesAgree
  BY DEF Init, NamesAgree, NoNames
<1> QED
  BY <1>1, <1>2, TypesKept, NamesStep, RequestInit, RequestStep, TypedInit, TypedStep, MeaningInit, MeaningStep,
     PTL DEF Spec
=============================================================================
