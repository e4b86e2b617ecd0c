---------------------------- MODULE Expressions ----------------------------
(***************************************************************************)
(* DyneinParser: turns update and sort key expressions into what the       *)
(* DynamoDB API takes, an expression of placeholders and two maps that     *)
(* give their meaning; and the requests of query and scan built with it.   *)
(*                                                                         *)
(* The pest grammar is external: calls carry parse trees.  What is written *)
(* of a sort key condition is kept by its operator and the form of each    *)
(* operand, which decide the grammar rules that match.                     *)
(***************************************************************************)
EXTENDS Integers, Sequences, FiniteSets, SequencesExt

CONSTANTS
  Calls,   \* the sequences of calls considered; each is made on a new parser
  Nodes,   \* parse trees of those calls, with all their parts
  Height   \* of each of them: trees are finite

(***************************************************************************)
(* Numbers stand for #DYNEIN_ATTRNAMEn and :DYNEIN_ATTRVALn, Pk for        *)
(* #DYNEIN_PKNAME and :DYNEIN_PKVAL, and Sk for #DYNEIN_SKNAME.            *)
(***************************************************************************)
Pk == -1
Sk == -2

NameRef(r) == [kind |-> "name", ref |-> r, text |-> ""]
ValueRef(r) == [kind |-> "value", ref |-> r, text |-> ""]
Written(t) == [kind |-> "text", ref |-> 0, text |-> t]
NoNames == [r \in {} |-> ""]
NoValues == [r \in {} |-> [type |-> "", text |-> ""]]

\* HashMap: insert and extend.
Insert(f, k, v) == [x \in DOMAIN f \cup {k} |-> IF x = k THEN v ELSE f[x]]
Extended(f, g) == [x \in DOMAIN f \cup DOMAIN g |-> IF x \in DOMAIN g THEN g[x] ELSE f[x]]

-----------------------------------------------------------------------------
(* Parse trees, and what the process_ functions write for each *)

Text(t) == [kind |-> "text", text |-> t]
Attr(n) == [kind |-> "attribute", name |-> n]
Literal(v) == [kind |-> "literal", val |-> v]
Leaves == {"text", "attribute", "literal"}

\* process_path: a dot before every attribute but the first, none before [i].
PathParts(elements) ==
  FlattenSeq([i \in DOMAIN elements |->
                IF i > 1 /\ elements[i].kind = "attribute"
                THEN <<Text("."), elements[i]>> ELSE <<elements[i]>>])

\* Mutation of Arithmetic: the right operand is pushed first.
ArithmeticSwapped(n) == <<n.rhs, Text(n.kind), n.lhs>>

Arithmetic(n) == <<n.lhs, Text(n.kind), n.rhs>>

\* In the order in which they are processed, which is that of the output.
Parts(n) ==
  CASE n.kind = "path" -> PathParts(n.elements)
    [] n.kind = "list_append" -> <<Text("list_append("), n.lhs, Text(","), n.rhs, Text(")")>>
    [] n.kind = "if_not_exists" -> <<Text("if_not_exists("), n.path, Text(","), n.value, Text(")")>>
    [] n.kind \in {"+", "-"} -> Arithmetic(n)
    [] n.kind = "assign" -> <<n.path, Text("="), n.value>>
    [] n.kind = "actions" ->
         FlattenSeq([i \in DOMAIN n.list |-> IF i > 1 THEN <<Text(","), n.list[i]>> ELSE <<n.list[i]>>])
    [] n.kind = "compare" -> <<Attr(n.key), Text(n.op), Literal(n.vals[1])>>
    [] n.kind = "between" ->
         <<Attr(n.key), Text(" BETWEEN "), Literal(n.vals[1]), Text(" AND "), Literal(n.vals[2])>>
    [] n.kind = "begins_with" ->
         <<Text("begins_with("), Attr(n.key), Text(","), Literal(n.vals[1]), Text(")")>>

-----------------------------------------------------------------------------
(* Sort key conditions: from what is written to typed values *)

\* What is written: an operator, or "bare" for a value alone, and the operands.
Forms == {"quoted", "number", "binary", "bare"}
Rejected == [op |-> "rejected", vals |-> <<>>]
Typed(args, Type(_)) == [i \in DOMAIN args |-> [type |-> Type(args[i]), text |-> args[i].text]]
AllOf(args, forms) == \A i \in DOMAIN args : args[i].form \in forms

\* The rule sort_key: an operator and literals that show their type.
StrictSyntax(w) == w.op # "bare" /\ AllOf(w.args, Forms \ {"bare"})
LiteralType(a) == CASE a.form = "quoted" -> "S" [] a.form = "number" -> "N" [] OTHER -> "B"
Strict(w) == IF StrictSyntax(w) /\ (w.op = "begins_with" => AllOf(w.args, {"quoted"}))
             THEN [op |-> w.op, vals |-> Typed(w.args, LiteralType)]
             ELSE Rejected

Equal(op) == IF op = "bare" THEN "=" ELSE op

\* Mutation of Loose: a number alone becomes a string like the other operands.
LooseStrings(w, type) ==
  IF AllOf(w.args, {"number", "bare"}) /\ (type = "N" => AllOf(w.args, {"number"}))
  THEN [op |-> Equal(w.op), vals |-> Typed(w.args, LAMBDA a : "S")]
  ELSE Rejected

\* The rules sort_key_str and sort_key_number.  The latter makes a string of
\* the operand of every operator; the grammar's first alternative is meant to be
\* taken before it comes to that.
Loose(w, type) ==
  CASE type = "S" /\ AllOf(w.args, {"number", "bare"}) ->
         [op |-> Equal(w.op), vals |-> Typed(w.args, LAMBDA a : "S")]
    [] type = "N" /\ AllOf(w.args, {"number"}) /\ w.op # "begins_with" ->
         [op |-> Equal(w.op),
          vals |-> Typed(w.args, LAMBDA a : IF w.op = "bare" THEN "N" ELSE "S")]
    [] OTHER -> Rejected

\* process_sort_key looks at the types before it makes any placeholder.
Checked(c, type) ==
  IF \A i \in DOMAIN c.vals : c.vals[i].type = type THEN c ELSE Rejected

\* Mutation of Condition: the types of the operands are not looked at.
ConditionUnchecked(w, type, strict) ==
  IF strict \/ Strict(w) # Rejected THEN Strict(w) ELSE Loose(w, type)

\* parse_sort_key_with_suggest, and parse_sort_key_with_fallback.
Condition(w, type, strict) ==
  LET first == Checked(Strict(w), type)
  IN IF strict \/ first # Rejected THEN first ELSE Checked(Loose(w, type), type)

Comparisons == {"=", "<=", "<", ">=", ">"}
\* The operators of the grammar, and their operands.
Operators == Comparisons \cup {"between", "begins_with", "bare"}
WellWritten(w) == /\ w.op \in Operators
                  /\ DOMAIN w.args = IF w.op = "between" THEN {1, 2} ELSE {1}

\* "Did you intend ...?" of the strict mode: for a syntax error, and for the
\* wrong type in a comparison.
Suggestion(w, type) ==
  IF StrictSyntax(w) => w.op \in Comparisons THEN Loose(w, type) ELSE Rejected

\* Display for SortKeyCondition and AttrVal.
Shown(c) ==
  [op |-> c.op,
   args |-> [i \in DOMAIN c.vals |->
               [form |-> CASE c.vals[i].type = "S" -> "quoted"
                           [] c.vals[i].type = "N" -> "number"
                           [] OTHER -> "binary",
                text |-> c.vals[i].text]]]

ConditionNode(c, key) ==
  [kind |-> IF c.op \in Comparisons THEN "compare" ELSE c.op,
   op |-> c.op, key |-> key, vals |-> c.vals]

-----------------------------------------------------------------------------
(* What query and scan ask for *)

\* A schema has keys, and indexes with keys; a sort key is a sequence of one or
\* none, as an option is.  The table or index a query is about:
Targets(schema, index) ==
  IF index = <<>> THEN {[pk |-> schema.pk, sk |-> schema.sk]}
  ELSE {[pk |-> x.pk, sk |-> x.sk] : x \in {y \in schema.indexes : y.name = index[1]}}

\* generate_scan_expressions: the attributes of the option that are no keys.
KeysOf(schema) == <<schema.pk.name>> \o [i \in DOMAIN schema.sk |-> schema.sk[i].name]
Projected(schema, attributes) ==
  FlattenSeq([i \in DOMAIN attributes |->
                IF attributes[i] \in ToSet(KeysOf(schema)) THEN <<>> ELSE <<attributes[i]>>])

-----------------------------------------------------------------------------
\* The trees a call starts with.
Trees(c) ==
  CASE c.kind = "update" -> {c.tree}
    [] c.kind = "sort" ->
         {ConditionNode(x, c.key.name) :
            x \in {Condition(c.written, c.key.type, c.strict)} \ {Rejected}}
    [] c.kind = "query" ->
         UNION {{ConditionNode(x, t.sk[1].name) :
                   x \in {Condition(c.sort[1], t.sk[1].type, c.strict)} \ {Rejected}} :
                t \in {u \in Targets(c.schema, c.index) : c.sort # <<>> /\ u.sk # <<>>}}
    [] OTHER -> {}

\* query and scan make a parser of their own, or none.
Alone == {"query", "scan"}

\* The rules of the grammar, without what they only choose between.
Kinds == Leaves \cup {"path", "list_append", "if_not_exists", "+", "-", "assign", "actions",
                     "compare", "between", "begins_with"}

\* Trees have the form of a rule and are made of lower trees.
MadeOf(n, parts) == parts \in Seq(Nodes) /\ \A i \in DOMAIN parts : Height[parts[i]] < Height[n]
ASSUME NodesAssumption ==
  /\ Height \in [Nodes -> Nat]
  /\ \A n \in Nodes :
       /\ n.kind \in Kinds
       /\ n.kind = "text" => n = Text(n.text)
       /\ n.kind = "attribute" => n = Attr(n.name)
       /\ n.kind = "literal" => n = Literal(n.val)
       /\ n.kind \notin Leaves => MadeOf(n, Parts(n))
       /\ n.kind = "path" => /\ MadeOf(n, n.elements)
                             /\ \A i \in DOMAIN n.elements : n.elements[i].kind \in Leaves
       /\ n.kind = "actions" => MadeOf(n, n.list)

\* Conditions the grammar has; one sort key at most; and index names that are unique.
WellFormed(c) ==
  /\ Trees(c) \subseteq Nodes
  /\ c.kind = "sort" => WellWritten(c.written) /\ c.strict \in BOOLEAN
  /\ c.kind = "query" =>
       /\ c.sort # <<>> => c.sort = <<c.sort[1]>> /\ WellWritten(c.sort[1]) /\ c.strict \in BOOLEAN
       /\ \A t, u \in Targets(c.schema, c.index) : t = u
  /\ c.kind = "scan" =>
       /\ c.schema.sk = <<>> \/ c.schema.sk = <<c.schema.sk[1]>>
       /\ c.attributes \in Seq(ToSet(c.attributes))

ASSUME CallsAssumption ==
  \A s \in Calls : /\ s \in Seq(Range(s))
                   /\ \A i \in DOMAIN s : /\ WellFormed(s[i])
                                          /\ s[i].kind \in Alone => Len(s) = 1

VARIABLES
  calls,      \* calls still to be completed, the current one first
  names,      \* DyneinParser.names
  names_inv,  \* DyneinParser.names_inv
  values,     \* DyneinParser.values
  base,       \* what generate_query_expressions has before the parser starts
  work,       \* parts of the tree still to be processed
  out,        \* expression so far
  busy,       \* whether a call is being processed
  results     \* what the calls returned

parser == <<names, names_inv, values>>
vars == <<calls, parser, base, work, out, busy, results>>

NoBase == [exp |-> <<>>, names |-> NoNames, values |-> NoValues]

Init == /\ calls \in Calls
        /\ names = NoNames
        /\ names_inv = [n \in {} |-> 0]
        /\ values = NoValues
        /\ base = NoBase
        /\ work = <<>>
        /\ out = <<>>
        /\ busy = FALSE
        /\ results = <<>>

Returned(ok, exp, ns, vs, suggest) ==
  results' = Append(results, [call |-> Head(calls), ok |-> ok, exp |-> exp,
                              names |-> ns, values |-> vs, suggest |-> suggest])
Fails(suggest) == Returned(FALSE, <<>>, NoNames, NoValues, suggest)
Succeeds(exp, ns, vs) == Returned(TRUE, exp, ns, vs, Rejected)

Starts(node) == work' = <<node>> /\ busy' = TRUE

\* Mutation of Update: a call starts with no values.
UpdateForgets ==
  /\ ~busy
  /\ calls # <<>>
  /\ Head(calls).kind = "update"
  /\ Starts(Head(calls).tree)
  /\ values' = NoValues
  /\ UNCHANGED <<calls, names, names_inv, base, out, results>>

\* parse_set_action and parse_remove_action.
Update == /\ ~busy
          /\ calls # <<>>
          /\ Head(calls).kind = "update"
          /\ Starts(Head(calls).tree)
          /\ UNCHANGED <<calls, parser, base, out, results>>

\* Either the condition is rejected, with nothing allocated, or its parts are
\* processed.
SortKey(w, key, strict) ==
  LET c == Condition(w, key.type, strict)
  IN \/ /\ c = Rejected
        /\ Fails(IF strict THEN Suggestion(w, key.type) ELSE Rejected)
        /\ calls' = Tail(calls)
        /\ UNCHANGED <<work, busy>>
     \/ /\ c # Rejected
        /\ Starts(ConditionNode(c, key.name))
        /\ UNCHANGED <<calls, results>>

\* Mutation of Sort: the name is allocated before the types are looked at.
SortAllocatesFirst ==
  /\ ~busy
  /\ calls # <<>>
  /\ LET c == Head(calls)
     IN /\ c.kind = "sort"
        /\ SortKey(c.written, c.key, c.strict)
        /\ IF c.key.name \in DOMAIN names_inv THEN UNCHANGED <<names, names_inv>>
           ELSE /\ names_inv' = Insert(names_inv, c.key.name, Cardinality(DOMAIN names))
                /\ names' = Insert(names, Cardinality(DOMAIN names), c.key.name)
  /\ UNCHANGED <<values, base, out>>

\* parse_sort_key_with_fallback and parse_sort_key_with_suggest.
Sort == /\ ~busy
        /\ calls # <<>>
        /\ LET c == Head(calls)
           IN c.kind = "sort" /\ SortKey(c.written, c.key, c.strict)
        /\ UNCHANGED <<parser, base, out>>

\* generate_query_expressions, with the condition on the partition key, and
\* append_sort_key_expression.  On a partition key of type B build_attrval_scalar
\* panics, so that nothing is sent either.
Query ==
  /\ ~busy
  /\ calls # <<>>
  /\ Head(calls).kind = "query"
  /\ LET c == Head(calls)
         targets == Targets(c.schema, c.index)
     IN \/ /\ \/ targets = {}
              \/ \E t \in targets : t.pk.type = "B"
              \/ c.sort # <<>> /\ \E t \in targets : t.sk = <<>>
           /\ Fails(Rejected)
           /\ calls' = Tail(calls)
           /\ UNCHANGED <<base, work, busy>>
        \/ \E t \in targets :
             /\ t.pk.type # "B"
             /\ base' = [exp |-> <<NameRef(Pk), Written("="), ValueRef(Pk)>>,
                         names |-> [r \in {Pk} |-> t.pk.name],
                         values |-> [r \in {Pk} |-> [type |-> t.pk.type, text |-> c.pval]]]
             /\ \/ /\ c.sort = <<>>
                   /\ Succeeds(base'.exp, base'.names, base'.values)
                   /\ calls' = Tail(calls)
                   /\ UNCHANGED <<work, busy>>
                \/ /\ c.sort # <<>>
                   /\ t.sk # <<>>
                   /\ SortKey(c.sort[1], t.sk[1], c.strict)
  /\ UNCHANGED <<parser, out>>

\* generate_scan_expressions.  The keys are always returned.
Scan ==
  /\ ~busy
  /\ calls # <<>>
  /\ Head(calls).kind = "scan"
  /\ LET c == Head(calls)
         keys == <<c.schema.pk>> \o c.schema.sk
         refs == SubSeq(<<Pk, Sk>>, 1, Len(keys))
         rest == Projected(c.schema, c.attributes)
     IN Succeeds([i \in 1..Len(keys) + Len(rest) |->
                    NameRef(IF i <= Len(keys) THEN refs[i] ELSE i - Len(keys) - 1)],
                 Extended([r \in Range(refs) |-> IF r = Pk THEN keys[1].name ELSE keys[2].name],
                          [r \in 0..Len(rest) - 1 |-> rest[r + 1]]),
                 NoValues)
  /\ calls' = Tail(calls)
  /\ UNCHANGED <<parser, base, work, out, busy>>

-----------------------------------------------------------------------------
(* Processing a tree, part by part *)

Part(kind) == busy /\ work # <<>> /\ Head(work).kind = kind
Next1(token) == /\ work' = Tail(work)
                /\ out' = Append(out, token)

Expand == /\ busy
          /\ work # <<>>
          /\ Head(work).kind \notin Leaves
          /\ work' = Parts(Head(work)) \o Tail(work)
          /\ UNCHANGED <<calls, parser, base, out, busy, results>>

PushText == /\ Part("text")
            /\ Next1(Written(Head(work).text))
            /\ UNCHANGED <<calls, parser, base, busy, results>>

\* Mutation of Attribute: every occurrence gets a placeholder of its own.
AttributeAlwaysNew ==
  LET n == Head(work).name
      r == Cardinality(DOMAIN names)
  IN /\ Part("attribute")
     /\ names_inv' = Insert(names_inv, n, r)
     /\ names' = Insert(names, r, n)
     /\ Next1(NameRef(r))
     /\ UNCHANGED <<calls, values, base, busy, results>>

\* get_or_create_attr_name_ref.
Attribute ==
  LET n == Head(work).name
      r == IF n \in DOMAIN names_inv THEN names_inv[n] ELSE Cardinality(DOMAIN names)
  IN /\ Part("attribute")
     /\ IF n \in DOMAIN names_inv
        THEN UNCHANGED <<names, names_inv>>
        ELSE names_inv' = Insert(names_inv, n, r) /\ names' = Insert(names, r, n)
     /\ Next1(NameRef(r))
     /\ UNCHANGED <<calls, values, base, busy, results>>

\* Mutation of Value: numbered by the names.
ValueByNames ==
  LET r == Cardinality(DOMAIN names)
  IN /\ Part("literal")
     /\ values' = Insert(values, r, Head(work).val)
     /\ Next1(ValueRef(r))
     /\ UNCHANGED <<calls, names, names_inv, base, busy, results>>

\* add_value_and_return_ref: no two literals share a placeholder.
Value ==
  LET r == Cardinality(DOMAIN values)
  IN /\ Part("literal")
     /\ values' = Insert(values, r, Head(work).val)
     /\ Next1(ValueRef(r))
     /\ UNCHANGED <<calls, names, names_inv, base, busy, results>>

Joined == IF base.exp = <<>> THEN out ELSE base.exp \o <<Written(" AND ")>> \o out

\* The call returns its expression, and copies of the maps.
Return == /\ busy
          /\ work = <<>>
          /\ Succeeds(Joined, Extended(base.names, names), Extended(base.values, values))
          /\ calls' = Tail(calls)
          /\ out' = <<>>
          /\ busy' = FALSE
          /\ UNCHANGED <<parser, base, work>>

-----------------------------------------------------------------------------
Next == \/ Update \/ Sort \/ Query \/ Scan
        \/ Expand \/ PushText \/ Attribute \/ Value \/ Return

Spec == Init /\ [][Next]_vars

-----------------------------------------------------------------------------
(* Properties *)

Prefix(f) == DOMAIN f = 0..Cardinality(DOMAIN f) - 1

\* Placeholders are numbered without gaps, as len() is the next number, and the
\* expression under way uses only those that have been given out.
TypeOK == /\ busy \in BOOLEAN
          /\ work \in Seq(Nodes)
          /\ busy => calls # <<>>
          /\ Prefix(names)
          /\ Prefix(values)
          /\ \A n \in DOMAIN names_inv : names_inv[n] \in DOMAIN names
          /\ \A i \in DOMAIN out :
               /\ out[i].kind = "name" => out[i].ref \in DOMAIN names
               /\ out[i].kind = "value" => out[i].ref \in DOMAIN values

Refs(exp, kind) == {exp[i].ref : i \in {j \in DOMAIN exp : exp[j].kind = kind}}
Used(n, kind) == UNION {Refs(results[i].exp, kind) : i \in 1..n}

\* DynamoDB rejects a request that uses a placeholder it does not define, or
\* defines one it does not use.  The maps a call returns define exactly the
\* placeholders of the expressions so far, although calls failed in between.
PlaceholdersMatch ==
  \A i \in DOMAIN results :
    results[i].ok => /\ DOMAIN results[i].names = Used(i, "name")
                     /\ DOMAIN results[i].values = Used(i, "value")

\* An attribute keeps one placeholder however often it is written: the two maps
\* between names and placeholders are inverse to each other.
NamesAgree ==
  /\ \A n \in DOMAIN names_inv : names_inv[n] \in DOMAIN names /\ names[names_inv[n]] = n
  /\ \A r \in DOMAIN names : names[r] \in DOMAIN names_inv /\ names_inv[names[r]] = r

\* "You can call this more than once" and merge the expressions: what an earlier
\* call returned means the same under the maps of a later one.
MergeKeepsMeaning ==
  \A i, j \in DOMAIN results :
    i < j /\ results[i].ok /\ results[j].ok =>
      /\ \A r \in DOMAIN results[i].names :
           r \in DOMAIN results[j].names /\ results[j].names[r] = results[i].names[r]
      /\ \A r \in DOMAIN results[i].values :
           r \in DOMAIN results[j].values /\ results[j].values[r] = results[i].values[r]

\* The types a sort key may have: that of the key given, or of the target's.
KeyTypes(c) ==
  CASE c.kind = "sort" -> {c.key.type}
    [] c.kind = "query" -> {t.sk[1].type : t \in {u \in Targets(c.schema, c.index) : u.sk # <<>>}}
    [] OTHER -> {}

\* Whatever was written and however it was read, a sort key is compared with
\* values of its own type.
SortKeyTyped ==
  \A i \in DOMAIN results :
    LET c == results[i].call
    IN results[i].ok =>
         /\ c.kind = "sort" => \A r \in Refs(results[i].exp, "value") :
                                 results[i].values[r].type \in KeyTypes(c)
         /\ c.kind = "query" => \A r \in DOMAIN results[i].values \ {Pk} :
                                  results[i].values[r].type \in KeyTypes(c)

\* What the strict mode suggests it also accepts, and understands as suggested.
SuggestionAccepted ==
  \A i \in DOMAIN results :
    results[i].suggest # Rejected =>
      \E type \in KeyTypes(results[i].call) :
        Condition(Shown(results[i].suggest), type, TRUE) = results[i].suggest

-----------------------------------------------------------------------------
(* What was written, as a sequence of names, literals and punctuation *)

\* Elements of a path, and of a list, with what stands between one and the next.
Dotted(elements) ==
  FlattenSeq([i \in DOMAIN elements |->
                IF i < Len(elements) /\ elements[i + 1].kind = "attribute"
                THEN <<elements[i], Text(".")>> ELSE <<elements[i]>>])
Listed(sources) ==
  FlattenSeq([i \in DOMAIN sources |->
                IF i < Len(sources) THEN Append(sources[i], Text(",")) ELSE sources[i]])

\* What is written for tree t, given what is written for the lower ones.  The tree of a
\* condition on a sort key has all of it as its parts.
SourceFrom(t, source) ==
  CASE t.kind \in Leaves -> <<t>>
    [] t.kind = "path" -> Dotted(t.elements)
    [] t.kind \in {"+", "-"} -> source[t.lhs] \o <<Text(t.kind)>> \o source[t.rhs]
    [] t.kind = "list_append" ->
         <<Text("list_append(")>> \o source[t.lhs] \o <<Text(",")>> \o source[t.rhs] \o <<Text(")")>>
    [] t.kind = "if_not_exists" ->
         <<Text("if_not_exists(")>> \o source[t.path] \o <<Text(",")>> \o source[t.value] \o <<Text(")")>>
    [] t.kind = "assign" -> source[t.path] \o <<Text("=")>> \o source[t.value]
    [] t.kind = "actions" -> Listed([i \in DOMAIN t.list |-> source[t.list[i]]])
    [] OTHER -> Parts(t)
Source[t \in Nodes] == SourceFrom(t, Source)

\* The condition on key k, whose operands have its type.
SortSource(w, k) ==
  LET val(i) == Literal([type |-> k.type, text |-> w.args[i].text])
  IN CASE w.op = "between" -> <<Attr(k.name), Text(" BETWEEN "), val(1), Text(" AND "), val(2)>>
       [] w.op = "begins_with" -> <<Text("begins_with("), Attr(k.name), Text(","), val(1), Text(")")>>
       [] w.op \notin {"between", "begins_with"} -> <<Attr(k.name), Text(Equal(w.op)), val(1)>>

QuerySource(c) ==
  LET t == CHOOSE x \in Targets(c.schema, c.index) : TRUE
      partition == <<Attr(t.pk.name), Text("="), Literal([type |-> t.pk.type, text |-> c.pval])>>
  IN IF c.sort = <<>> THEN partition
     ELSE partition \o <<Text(" AND ")>> \o SortSource(c.sort[1], t.sk[1])

\* The keys, and the attributes asked for but the keys that stand there already.
ScanSource(c) ==
  LET keys == KeysOf(c.schema)
      asked == keys \o c.attributes
      known(i) == i > Len(keys) /\ asked[i] \in ToSet(keys)
      told == FlattenSeq([i \in DOMAIN asked |-> IF known(i) THEN <<>> ELSE <<asked[i]>>])
  IN [i \in DOMAIN told |-> Attr(told[i])]

Meaning(c) == CASE c.kind = "update" -> Source[c.tree]
                [] c.kind = "sort" -> SortSource(c.written, c.key)
                [] c.kind = "query" -> QuerySource(c)
                [] c.kind = "scan" -> ScanSource(c)

\* An expression with its placeholders replaced by what the maps define for them.
Replaced(exp, ns, vs) == [i \in DOMAIN exp |->
                            CASE exp[i].kind = "name" -> Attr(ns[exp[i].ref])
                              [] exp[i].kind = "value" -> Literal(vs[exp[i].ref])
                              [] exp[i].kind = "text" -> Text(exp[i].text)]

\* With the placeholders replaced by what the maps define for them, a returned
\* expression is what was written: nothing is lost, doubled, reordered or taken
\* from another part of it, or from another index.
MeansTheSame ==
  \A i \in DOMAIN results :
    LET r == results[i] IN r.ok => Replaced(r.exp, r.names, r.values) = Meaning(r.call)
=============================================================================
