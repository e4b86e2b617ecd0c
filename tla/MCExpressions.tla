--------------------------- MODULE MCExpressions ---------------------------
(* Small instances of Expressions. *)
EXTENDS Expressions

-----------------------------------------------------------------------------
(* Update expressions *)

Number == [type |-> "N", text |-> "5"]
List == [type |-> "L", text |-> "[]"]
Path(elements) == [kind |-> "path", elements |-> elements]
Paths == {Path(<<Attr("a")>>), Path(<<Attr("b")>>),
          Path(<<Attr("a"), Text("[0]"), Attr("b")>>)}
Functions1 == {[kind |-> "list_append", lhs |-> p, rhs |-> Literal(List)] : p \in Paths}
              \cup {[kind |-> "list_append", lhs |-> Literal(List), rhs |-> p] : p \in Paths}
Operands == Paths \cup {Literal(Number)}
Sums == {[kind |-> o, lhs |-> l, rhs |-> r] : o \in {"+", "-"}, l, r \in Operands}
Conditional == {[kind |-> "if_not_exists", path |-> p, value |-> v] :
                  p \in Paths, v \in Operands \cup Sums}
NestedSums == {[kind |-> "+", lhs |-> l, rhs |-> r] :
                 l \in Conditional, r \in {Literal(Number), Path(<<Attr("c")>>)}}
Assigned == Operands \cup Functions1 \cup Sums \cup Conditional \cup NestedSums
Assignments == {[kind |-> "assign", path |-> p, value |-> v] :
                  p \in {Path(<<Attr("a")>>), Path(<<Attr("c"), Attr("a")>>)}, v \in Assigned}
Simple == {[kind |-> "assign", path |-> Path(<<Attr(n)>>), value |-> Literal(Number)] : n \in {"a", "b"}}

Sets == {[kind |-> "actions", list |-> <<x>>] : x \in Assignments \cup Simple}
        \cup {[kind |-> "actions", list |-> <<x, y>>] : x \in Assignments, y \in Simple}
Removes == {[kind |-> "actions", list |-> l] :
              l \in {<<p>> : p \in Paths} \cup {<<p, q>> : p, q \in Paths}}

-----------------------------------------------------------------------------
(* Sort keys and schemas *)

Operand == {[form |-> f, text |-> IF f = "number" THEN "5" ELSE "x"] : f \in Forms}
Conditions == {[op |-> o, args |-> <<x>>] : o \in Comparisons \cup {"begins_with", "bare"}, x \in Operand}
              \cup {[op |-> "between", args |-> <<x, y>>] : x, y \in Operand}
SortKeys == {[name |-> n, type |-> t] : n \in {"a", "s"}, t \in {"S", "N", "B"}}

Key(n, t) == [name |-> n, type |-> t]
Schemas == {[pk |-> Key("p", "S"), sk |-> k, indexes |-> x] :
              k \in {<<>>, <<Key("s", "N")>>},
              x \in {{}, {[name |-> "i", pk |-> Key("s", "N"), sk |-> <<Key("a", "S")>>],
                          [name |-> "j", pk |-> Key("b", "B"), sk |-> <<>>]}}}

-----------------------------------------------------------------------------
(* Calls *)

Updates == {[kind |-> "update", tree |-> t] : t \in Sets \cup Removes}
FewUpdates == {[kind |-> "update", tree |-> [kind |-> "actions", list |-> <<x>>]] :
                 x \in Simple \cup Paths}
Sorts == {[kind |-> "sort", written |-> w, key |-> k, strict |-> b] :
            w \in Conditions, k \in SortKeys, b \in BOOLEAN}
FewSorts == {c \in Sorts : c.written.op \in {"=", "bare"}}
Queries == {[kind |-> "query", schema |-> s, index |-> x, pval |-> "v", sort |-> w, strict |-> b] :
              s \in Schemas, x \in {<<>>, <<"i">>, <<"j">>},
              w \in {<<>>} \cup {<<c>> : c \in Conditions}, b \in BOOLEAN}
Scans == {[kind |-> "scan", schema |-> s, attributes |-> x] :
            s \in Schemas, x \in {<<>>, <<"a">>, <<"a", "a">>, <<"s", "a", "p", "b">>}}

MCCalls == {<<c>> : c \in Updates \cup Sorts \cup Queries \cup Scans}
           \cup (Sorts \X FewUpdates) \cup (FewUpdates \X FewSorts)
           \cup (FewUpdates \X Updates)
           \cup (FewUpdates \X FewSorts \X FewUpdates)

ConditionNodes == {ConditionNode(c, n) :
                     n \in {"a", "s"},
                     c \in {Condition(w, t, b) : w \in Conditions, t \in {"S", "N", "B"}, b \in BOOLEAN}
                           \ {Rejected}}
Inner == UNION {Sets, Removes, Assignments, Simple, Assigned, Paths, ConditionNodes,
                {Path(<<Attr("c")>>), Path(<<Attr("c"), Attr("a")>>)}}
AllNodes == Inner \cup UNION {{Parts(n)[i] : i \in DOMAIN Parts(n)} :
                                n \in {m \in Inner : m.kind \notin Leaves}}
MCNodes == AllNodes   \* TLC keeps the value of a definition, not that of a CONSTANT

RECURSIVE HeightOf(_)
HeightOf(n) == IF n.kind \in Leaves THEN 0 ELSE 1 + Max({HeightOf(p) : p \in ToSet(Parts(n))})
MCHeight == [n \in MCNodes |-> HeightOf(n)]
=============================================================================
