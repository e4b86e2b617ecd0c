----------------------------- MODULE MCSession -----------------------------
(***************************************************************************)
(* Scripts for Session, of six kinds: texts typed into put, formats and    *)
(* modes that follow one another in a shell, copies of values, counters,   *)
(* commands on items of every kind of key, and commands on tables.  The    *)
(* conversions are those of ItemValues.                                    *)
(***************************************************************************)
EXTENDS Session, ItemValues

-----------------------------------------------------------------------------
(* Tables and runs *)

T == <<"T">>
U == <<"U">>
K == <<107>>    \* the key "k"
One == <<49>>   \* the key "1"

Pk(type) == [name |-> "pk", type |-> type]
Sk(type) == [name |-> "sk", type |-> type]
TableOf(definitions, billing, units, items) ==
  [Table([i \in DOMAIN definitions |-> [name |-> definitions[i].name,
                                        role |-> IF i = 1 THEN "HASH" ELSE "RANGE"]],
         definitions, billing, units, units, items)
   EXCEPT !.busy = FALSE]
OnDemand(items) == TableOf(<<Pk("S")>>, "PAY_PER_REQUEST", 0, items)
Provisioned(items) == TableOf(<<Pk("S")>>, None, 1, items)
Sorted(items) == TableOf(<<Pk("S"), Sk("N")>>, "PAY_PER_REQUEST", 0, items)

Item(name, value) == [pk |-> [S |-> K]] @@ (name :> value)

Run(table, shell, args, input) ==
  [table |-> table, shell |-> shell, args |-> args, lines |-> input,
   keep |-> FALSE, strict |-> FALSE, meant |-> None]
Script(runs, ts, bs, ticks, steps) ==
  [runs |-> runs, tables |-> ts, backups |-> bs, ticks |-> ticks, others |-> steps]

-----------------------------------------------------------------------------
(* Arguments.  A put is spelled out; any other command is one letter.        *)

Reading(do, output) == [do |-> do, output |-> output]
Getting(sval, output) == [pval |-> K, sval |-> sval] @@ Reading("get", output)
Asking(sort, strict, nonstrict) ==
  [pval |-> K, sort |-> sort, strict |-> strict, nonstrict |-> nonstrict] @@ Reading("query", None)
Del1(sval) == [do |-> "del", pval |-> K, sval |-> sval]
Putting(pval, sval, item) == [do |-> "put", pval |-> pval, sval |-> sval, item |-> item]
Changing(set, remove, counter) ==
  [do |-> "upd", pval |-> K, sval |-> None, set |-> set, remove |-> remove, counter |-> counter]
Text(name, text) == [name |-> name, text |-> text]
Updating(mode, rcu, wcu) == [do |-> "update", table |-> T, mode |-> mode, rcu |-> rcu, wcu |-> wcu]
Restoring(name, as) == [do |-> "restore", backup |-> name, as |-> as]

Quoted34(t) == Enclosed(DoubleQuote, t)
Count == Changing(None, None, "c")

Readings == <<Reading("scan", None), Getting(None, "yaml"), Reading("desc", "yaml"), Reading("scan", "raw"),
              Asking("loose", FALSE, FALSE), Asking("loose", FALSE, TRUE), Asking("strict", TRUE, FALSE)>>
Items == <<Count,
           Putting(K, One, None), Del1(One), Getting(One, None),
           Putting(K, None, None), Del1(None), Asking(None, FALSE, FALSE),
           Putting(K, None, Text("pk", Quoted34(One))), Putting(K, None, Text("v", Quoted34(<<Backslash>>))),
           Changing(Text("v", Quoted34(One)), None, None), Changing(Text("v", Quoted34(<<Backslash>>)), None, None),
           Changing(None, "v", None), Changing(Text("pk", Quoted34(One)), None, None),
           Changing(None, None, None), Changing(None, "v", "c")>>
Refused == <<Getting(None, "table"), Asking(None, TRUE, TRUE),
             Changing(Text("v", Quoted34(One)), "v", None)>>
Copies == <<[do |-> "export"], [do |-> "import", infer |-> FALSE], [do |-> "import", infer |-> TRUE],
            [do |-> "bwrite"]>>
Admin == <<[do |-> "create table", name |-> U, keys |-> <<<<"pk">>, <<"sk", "n">>>>],
           [do |-> "create table", name |-> U, keys |-> <<<<"pk", "x">>>>],
           [do |-> "create table", name |-> U, keys |-> <<<<"pk", "S", "N">>>>],
           [do |-> "create index", name |-> <<"i">>, keys |-> <<<<"sk", "N">>>>],
           [do |-> "create index", name |-> <<"i">>, keys |-> <<<<"pk", "n">>>>],
           [do |-> "delete", table |-> T, yes |-> TRUE], [do |-> "delete", table |-> T, yes |-> FALSE],
           [do |-> "backup"], [do |-> "list backups", all |-> TRUE],
           Restoring(None, None), Restoring(T \o <<"dynein", 1>>, None), Restoring(T \o <<"dynein", 1>>, U)>>
Updates == [i \in 1..12 |-> Updating(<<None, "PROVISIONED", "PAY_PER_REQUEST">>[1 + (i % 3)],
                                     <<None, 2>>[1 + (i % 2)], <<None, 2>>[1 + ((i \div 6) % 2)])]

Menu == Readings \o Items \o Refused \o Copies \o Admin \o Updates
Letter(c) == <<64 + CHOOSE i \in DOMAIN Menu : Menu[i] = c>>

\* `p key literal` is a put of the literal as attribute v.
MCClap(words) ==
  CASE Len(words) = 1 /\ Len(words[1]) = 1 /\ words[1][1] - 64 \in DOMAIN Menu -> Menu[words[1][1] - 64]
    [] Len(words) = 3 /\ words[1] = <<112>> ->
         Putting(words[2], None, Text("v", words[3]))
    [] OTHER -> None

Command1(table, c) == Run(table, FALSE, <<Letter(c)>>, <<>>)
Shell(table, cs) == Run(table, TRUE, <<>>, [i \in DOMAIN cs |-> Letter(cs[i])])

-----------------------------------------------------------------------------
(* Texts *)

Chars == {0, 10, Space, DoubleQuote, Quote, 48, Backslash, LowerU, 133, 233, 119070}
Texts == BoundedSeq(Chars, 2) \cup BoundedSeq({Space, DoubleQuote, Quote, Backslash}, 3)
Binaries == BoundedSeq({0, 10, DoubleQuote, Quote, 65, Backslash, 255}, 2)
Typables == {[S |-> t] : t \in Texts} \cup {[B |-> b] : b \in Binaries}

\* A literal is typed in a line of the shell, blanks after it, or if it has a line
\* feed is an argument of a run.
Typed1(v, l) ==
  LET bare == Is(v, "S")
      Part(word, quoted, gap) == [word |-> word, quoted |-> quoted, gap |-> gap]
      parts == <<Part(<<112>>, ~bare, IF bare THEN <<Space, Space>> ELSE <<>>),
                 Part(K, ~bare, <<Space>>), Part(l, TRUE, <<Space, 10>>)>>
      r == IF 10 \in ToSet(l) THEN Run(T, FALSE, WordsOf(parts), <<>>) ELSE Run(T, TRUE, <<>>, <<Line(parts)>>)
  IN Script(<<[r EXCEPT !.meant = [item |-> Item("v", v), value |-> v, parts |-> parts]]>>,
            T :> OnDemand({}), <<>>, 0, 0)
TypingScripts == UNION {{Typed1(v, l) : l \in LiteralsOf(v)} : v \in Typables}

\* Lines that are passed over, that fail, and exit.
Mistyped ==
  LET Lines(ls) == {Script(<<Run(T, TRUE, <<>>, ls)>>, T :> OnDemand({Item("v", [N |-> 2])}), <<>>, 0, 0)}
  IN UNION {Lines(<<<<112, Space, 107, Space, Quote, 112>>, <<107>>, <<10>>, Letter(Readings[1])>>),
            Lines([i \in DOMAIN Refused |-> Letter(Refused[i])]),
            Lines(<<Exit \o <<10>>, Letter(Readings[1])>>),
            Lines(<<<<112, Space, 107, Space, DoubleQuote, Backslash, DoubleQuote>>, Letter(Readings[1])>>),
            {Script(<<Run(T, FALSE, <<<<48>>>>, <<>>), Command1(T, Refused[1]), Command1(T, Readings[1])>>, <<>>, <<>>, 0, 0)}}

-----------------------------------------------------------------------------
(* Formats and modes *)

SortedItem(n) == [sk |-> [N |-> n]] @@ Item("v", [S |-> One])
SettingScripts ==
  {Script(<<[Shell(T, cs) EXCEPT !.strict = strict]>>, T :> Sorted({SortedItem(2)}), <<>>, 0, 0)
   : cs \in BoundedSeq(ToSet(Readings), 3), strict \in BOOLEAN}
  \cup {Script(<<Shell(T, <<Readings[7]>>), Shell(T, <<Readings[4], Readings[5]>>)>>,
                T :> Sorted({SortedItem(2)}), <<>>, 0, 0)}

-----------------------------------------------------------------------------
(* Copies *)

\* Which values survive plain JSON.  Numbers that 64 bits do not hold are read as
\* floats; sets and binary values need what JSON does not have.
RECURSIVE Lossless(_, _)
Lossless(v, infer) ==
  CASE Is(v, "N") -> (v.N % 2 = 0 /\ v.N \in 0..2 * MaxU64) \/ Float(v.N) = v.N
    [] Is(v, "SS") -> infer
    [] Is(v, "NS") -> infer /\ \A n \in ToSet(v.NS) : n % 2 = 0 /\ n \in 0..2 * MaxI64
    [] Is(v, "B") \/ Is(v, "BS") -> FALSE
    [] Is(v, "L") -> /\ \A e \in ToSet(v.L) : Lossless(e, infer)
                     /\ infer => \E e, f \in ToSet(v.L) : ~Is(e, "S") /\ ~Is(f, "N")
    [] Is(v, "M") -> \A a \in DOMAIN v.M : Lossless(v.M[a], infer)
    [] OTHER -> TRUE

\* bwrite asks to store exactly the items whose raw output it reads.  import asks
\* for exactly the items exported when every value is one that plain JSON keeps;
\* otherwise it asks for other items, or panics, but never silently for the same.
CopiesKeepItems ==
  \A e \in ToSet(history) :
    e.cmd.do \in {"import", "bwrite"} /\ e.file # None /\ (e.request # None \/ e.outcome = "panic") =>
      ((e.request # None /\ ToSet(e.request.items) = e.file.of)
       <=> (\/ e.cmd.do = "bwrite"
            \/ \A i \in e.file.of : \A a \in DOMAIN i : Lossless(i[a], e.cmd.infer)))

N(n) == [N |-> 2 * n]
Half == [N |-> 1]
S(t) == [S |-> t]
Bin(b) == [B |-> b]
Empty == [a \in {} |-> None]
Scalars == {S(<<>>), S(K), S(Unsupported), Half, N(0), N(-1), [BOOL |-> FALSE], [NULL |-> TRUE], Bin(<<0>>)}
           \cup {N(n) : n \in {-Exact - 1, Exact, Exact + 1, MaxI64 + 1, MaxU64 + 1}}
Sets == {[SS |-> <<K>>], [SS |-> <<K, One>>], [BS |-> <<<<0>>, <<1>>>>]}
        \cup {[NS |-> <<0, 2 * n>>] : n \in {1, -1, Exact + 1, MaxI64 + 1, MaxU64 + 1}}
Lists == {[L |-> l] : l \in {<<>>, <<S(K)>>, <<S(K), S(K)>>, <<N(1), N(-1)>>, <<N(1), N(1)>>, <<S(K), N(1)>>,
                             <<Bin(<<0>>), S(One)>>, <<[L |-> <<S(K)>>], [NULL |-> TRUE]>>,
                             <<[SS |-> <<K>>], [L |-> <<>>]>>}}
Maps == {[M |-> m] : m \in {Empty, "a" :> S(K), "a" :> N(1) @@ "b" :> Bin(<<0>>), "S" :> S(K),
                            "a" :> [L |-> <<N(1), N(2)>>], "a" :> [M |-> "b" :> [BOOL |-> TRUE]]}}
Values == Scalars \cup Sets \cup Lists \cup Maps

Raw == [Command1(T, Readings[4]) EXCEPT !.keep = TRUE]
CopyScripts ==
  {Script(<<IF c.do = "bwrite" THEN Raw ELSE Command1(T, Copies[1]), Command1(U, c)>>,
          T :> OnDemand({Item("v", v)}) @@ U :> OnDemand({Item("v", S(One))}), <<>>, 0, 0)
   : v \in Values, c \in {Copies[2], Copies[3], Copies[4]}}
  \cup {Script(<<IF c.do = "bwrite" THEN Raw ELSE Command1(T, Copies[1]), Command1(U, c)>>,
               T :> OnDemand(items) @@ U :> Provisioned({}), <<>>, 0, 0)
        : items \in {{}, {Item("v", N(1)), [Item("w", Half) EXCEPT !["pk"] = S(One)]}}, c \in {Copies[2], Copies[4]}}
  \cup {Script(<<Command1(U, c)>>, U :> Provisioned({}), <<>>, 0, 0) : c \in ToSet(Copies)}

-----------------------------------------------------------------------------
(* Counters, items, tables *)

Counted == [pk |-> [S |-> K], c |-> [N |-> 0]]
Counters == {Counted, [Counted EXCEPT !["pk"] = [S |-> One]]}
CounterScripts ==
  {Script(<<Shell(T, <<Count, Count>>)>>, T :> OnDemand({Counted}), <<>>, 0, 2),
   Script(<<Shell(T, <<Count, Readings[1]>>), Command1(U, Count)>>,
          T :> OnDemand(Counters) @@ U :> OnDemand({Counted}), <<>>, 0, 1)}

ItemScripts ==
  {Script(<<Command1(T, c)>>, ts, <<>>, 0, 0)
   : c \in ToSet(Items),
     ts \in {T :> OnDemand({Item("v", [N |-> 2])}), T :> Sorted({SortedItem(2), SortedItem(4)}), <<>>,
             T :> TableOf(<<Pk("B")>>, "PAY_PER_REQUEST", 0, {}),
             T :> TableOf(<<Pk("S"), Sk("B")>>, "PAY_PER_REQUEST", 0, {})}}

Index == [name |-> <<"j">>, schema |-> <<[name |-> "sk", role |-> "HASH"]>>, definitions |-> <<Sk("N")>>]
UpdateScripts ==
  {Script(<<Command1(T, c)>>, T :> t, <<>>, 0, 1)
   : c \in ToSet(Updates),
     t \in {OnDemand({}), Provisioned({}), [OnDemand({}) EXCEPT !.indexes = {Index}]}}

Stored(table, at, status) ==
  [name |-> T \o <<"dynein", at>>, table |-> table, status |-> status, image |-> OnDemand({Item("v", S(table))})]
AdminScripts ==
  {Script(<<Command1(T, c)>>, T :> t, bs, 1, 1)
   : c \in ToSet(Admin), t \in {OnDemand({}), Provisioned({})},
     bs \in {<<>>, <<Stored(T, 1, "CREATING"), Stored(U, 1, Available)>>,
             <<Stored(U, 1, Available), Stored(T, 0, Available), Stored(T, 1, Available), Stored(T, 1, "DELETED")>>}}
  \cup {Script(<<Shell(T, <<Admin[8], Admin[8]>>), Command1(T, Restoring(T \o <<"dynein", MaxTime>>, None))>>,
               T :> OnDemand({}), <<>>, 1, 0)}

AllScripts ==
  UNION {TypingScripts, Mistyped, SettingScripts, CopyScripts, CounterScripts, ItemScripts, UpdateScripts, AdminScripts}

AdminMenu == {[table |-> T] @@ c : c \in ToSet(Admin \o Updates)}
Beginnings == {[tables |-> s.tables, backups |-> s.backups] : s \in AllScripts}
=============================================================================
