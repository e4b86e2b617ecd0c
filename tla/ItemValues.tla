----------------------------- MODULE ItemValues -----------------------------
(***************************************************************************)
(* Attribute values and the JSON they are written as and read from: the    *)
(* plain JSON of export, import, get and scan, and the typed JSON of the   *)
(* raw output and of the input file of bwrite.                             *)
(*                                                                         *)
(* An attribute value is a record of one field, its type; an item is a     *)
(* function from attribute names.  Sets are sequences, as in the code: a   *)
(* value that is to be a set may repeat an element.                        *)
(***************************************************************************)
EXTENDS TextForms

CONSTANTS
  Exact,   \* the integers up to which a 64 bit float is exact (2^53)
  MaxI64,  \* the largest signed and the largest unsigned 64 bit integer
  MaxU64

ASSUME WidthAssumption == 0 < Exact /\ Exact < MaxI64 /\ MaxI64 < MaxU64

Is(v, type) == type \in DOMAIN v
Map(f, Op(_)) == [x \in DOMAIN f |-> Op(f[x])]

(***************************************************************************)
(* A number is twice its value, so that odd ones are fractions.  Texts     *)
(* that the model does not spell out begin with a code point below 0.      *)
(***************************************************************************)
Unsupported == <<-1>>             \* "<<<JSON output doesn't support this type attributes>>>"
Base64(bytes) == <<-2>> \o bytes
NumberText(n) == <<-3, n>>

-----------------------------------------------------------------------------
(* Plain JSON *)

String(s) == [string |-> s]

\* The nearest float.
Float(n) == IF n \in -(2 * Exact)..(2 * Exact) THEN n ELSE ((n + 2) \div 4) * 4

\* Mutation of JsonNumber: every number is parsed as a float.
JsonNumberFloat(n) == [number |-> Float(n), float |-> TRUE]

\* str_to_json_num: an integer without a sign if it fits 64 bits, or a float.
JsonNumber(n) ==
  IF n \in 0..(2 * MaxU64) /\ n % 2 = 0 THEN [number |-> n, float |-> FALSE]
  ELSE [number |-> Float(n), float |-> TRUE]

\* attrval_to_jsonval and attrval_to_json_map.
RECURSIVE Json(_)
Json(v) ==
  CASE Is(v, "S") -> String(v.S)
    [] Is(v, "N") -> JsonNumber(v.N)
    [] Is(v, "BOOL") -> [bool |-> v.BOOL]
    [] Is(v, "NULL") -> [null |-> TRUE]
    [] Is(v, "SS") -> [array |-> Map(v.SS, String)]
    [] Is(v, "NS") -> [array |-> Map(v.NS, JsonNumber)]
    [] Is(v, "B") \/ Is(v, "BS") -> String(Unsupported)
    [] Is(v, "L") -> [array |-> Map(v.L, Json)]
    [] Is(v, "M") -> [object |-> Map(v.M, Json)]

JsonItem(item) == Map(item, Json)                                  \* convert_to_json
JsonItems(items) == Map(items, JsonItem)                           \* convert_to_json_vec

\* Of an array, when set inference is on: the first that applies.
AllStrings(array) == \A i \in DOMAIN array : Is(array[i], "string")
AllNumbers(array) == \A i \in DOMAIN array : Is(array[i], "number")

\* as_i64: none for a float, whatever its value.
AsI64(j) == IF j.float \/ j.number > 2 * MaxI64 THEN None ELSE j.number

\* dispatch_jsonvalue_to_attrval with build_attrval_set, _list and _map.
RECURSIVE FromJson(_, _)
FromJson(j, inference) ==
  LET Inner(e) == FromJson(e, inference)
  IN CASE Is(j, "string") -> [S |-> j.string]
       [] Is(j, "number") -> [N |-> j.number]
       [] Is(j, "bool") -> [BOOL |-> j.bool]
       [] Is(j, "null") -> [NULL |-> TRUE]
       [] Is(j, "object") -> [M |-> Map(j.object, Inner)]
       [] Is(j, "array") ->
            CASE inference /\ AllStrings(j.array) -> [SS |-> Map(j.array, LAMBDA e : e.string)]
              [] inference /\ ~AllStrings(j.array) /\ AllNumbers(j.array) -> [NS |-> Map(j.array, AsI64)]
              [] OTHER -> [L |-> Map(j.array, Inner)]

\* Somewhere a number of a set has no i64: the unwrap of build_attrval_set.
RECURSIVE Panics(_)
Panics(v) ==
  CASE Is(v, "NS") -> \E i \in DOMAIN v.NS : v.NS[i] = None
    [] Is(v, "L") -> \E i \in DOMAIN v.L : Panics(v.L[i])
    [] Is(v, "M") -> \E a \in DOMAIN v.M : Panics(v.M[a])
    [] OTHER -> FALSE

FromJsonItem(object, inference) == Map(object, LAMBDA j : FromJson(j, inference))
FromJsonItems(objects, inference) == Map(objects, LAMBDA o : FromJsonItem(o, inference))

-----------------------------------------------------------------------------
(* Typed JSON *)

Object(type, content) == [object |-> type :> content]
Strings(texts) == [array |-> Map(texts, String)]

\* Serialize for AttributeValueWrapper.
RECURSIVE Typed(_)
Typed(v) ==
  CASE Is(v, "S") -> Object("S", String(v.S))
    [] Is(v, "N") -> Object("N", String(NumberText(v.N)))
    [] Is(v, "BOOL") -> Object("BOOL", [bool |-> v.BOOL])
    [] Is(v, "NULL") -> Object("NULL", [bool |-> TRUE])
    [] Is(v, "SS") -> Object("SS", Strings(v.SS))
    [] Is(v, "NS") -> Object("NS", Strings(Map(v.NS, NumberText)))
    [] Is(v, "B") -> Object("B", String(Base64(v.B)))
    [] Is(v, "BS") -> Object("BS", Strings(Map(v.BS, Base64)))
    [] Is(v, "M") -> Object("M", [object |-> Map(v.M, Typed)])
    [] Is(v, "L") -> Object("L", [array |-> Map(v.L, Typed)])

TypedItem(item) == Map(item, Typed)                                \* strip_item
TypedItems(items) == Map(items, TypedItem)                         \* strip_items

AsText(j) == j.string
AsNumber(j) == j.string[2]     \* the number's text is passed on as it is
AsBytes(j) == Tail(j.string)   \* json_binary_val_to_bytes

\* ddbjson_val_to_attrval: the first of these types the object has; an attribute
\* of an item or a map that has none is left out.
RECURSIVE FromTyped(_)
FromTyped(j) ==
  LET o == IF Is(j, "object") THEN j.object ELSE <<>>
      Known(object) == {a \in DOMAIN object : FromTyped(object[a]) # None}
  IN CASE Is(o, "S") -> [S |-> AsText(o["S"])]
       [] Is(o, "N") -> [N |-> AsNumber(o["N"])]
       [] Is(o, "B") -> [B |-> AsBytes(o["B"])]
       [] Is(o, "BOOL") -> [BOOL |-> o["BOOL"].bool]
       [] Is(o, "SS") -> [SS |-> Map(o["SS"].array, AsText)]
       [] Is(o, "NS") -> [NS |-> Map(o["NS"].array, AsNumber)]
       [] Is(o, "BS") -> [BS |-> Map(o["BS"].array, AsBytes)]
       [] Is(o, "L") -> [L |-> Map(o["L"].array, FromTyped)]
       [] Is(o, "M") -> [M |-> [a \in Known(o["M"].object) |-> FromTyped(o["M"].object[a])]]
       [] Is(o, "NULL") -> [NULL |-> TRUE]
       [] OTHER -> None

\* ddbjson_attributes_to_attrvals.
FromTypedItem(object) ==
  [a \in {x \in DOMAIN object : FromTyped(object[x]) # None} |-> FromTyped(object[a])]
FromTypedItems(objects) == Map(objects, FromTypedItem)

-----------------------------------------------------------------------------
(* What DynamoDB stores: no set that is empty or repeats an element *)

IsSet(seq) == seq # <<>> /\ IsInjective(seq)

RECURSIVE Valid(_)
Valid(v) ==
  CASE Is(v, "SS") -> IsSet(v.SS)
    [] Is(v, "NS") -> IsSet(v.NS)
    [] Is(v, "BS") -> IsSet(v.BS)
    [] Is(v, "L") -> \A i \in DOMAIN v.L : Valid(v.L[i])
    [] Is(v, "M") -> \A a \in DOMAIN v.M : Valid(v.M[a])
    [] OTHER -> TRUE
=============================================================================
