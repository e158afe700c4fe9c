---------------------------- MODULE PayloadSchema ----------------------------
(* How a task definition normalises the payload of a task.  A JSON object is *)
(* a function from the paths of its leaves to scalars, a path the sequence of*)
(* its keys; a value is such a function too, with a scalar at the empty path.*)
(* What may throw a ValidationError returns the set of its results, which is *)
(* empty then.                                                               *)
EXTENDS Integers, SequencesExt, TLC

CONSTANTS
  Keys         \* what the fields of an object may be called

Str(text) == <<"string", text>>        \* without space around it
Padded(text) == <<"padded", text>>     \* with space around it
Num(n) == <<"number", n>>
AndAHalf(n) == <<"fraction", n>>       \* n + 1/2
Bool(b) == <<"boolean", b>>
List(items) == <<"list", items>>       \* of strings
Numbers(items) == <<"numbers", items>> \* a list of numbers
Null == <<"null", "null">>
EmptyObject == <<"object", "{}">>

Value(scalar) == [path \in {<<>>} |-> scalar]
Undefined == [path \in {} |-> Null]

IsObject(value) ==
  value # Undefined /\ (<<>> \in DOMAIN value => value[<<>>] = EmptyObject)

Get(value, path) ==
  LET below == {p \in DOMAIN value : IsPrefix(path, p)}
  IN  [q \in {SubSeq(p, Len(path) + 1, Len(p)) : p \in below} |-> value[path \o q]]

(* What is at the path, below it, and a scalar above it, are replaced.       *)
Set(object, path, value) ==
  LET kept == {p \in DOMAIN object : ~IsPrefix(path, p) /\ ~IsPrefix(p, path)}
      new == {path \o q : q \in DOMAIN value}
  IN  [p \in kept \cup new |->
         IF p \in new THEN value[SubSeq(p, Len(path) + 1, Len(p))] ELSE object[p]]

(* What the paths and the functions of this module are about.                *)
IsDocument(value) ==
  value = [p \in DOMAIN value |-> value[p]] /\ DOMAIN value \subseteq Seq(Keys)

Missing(value) == value \in {Undefined, Value(Null), Value(Str(""))}

-----------------------------------------------------------------------------
(* Values and rules.                                                         *)

(* String(value || '').trim().                                               *)
Text(value) ==
  IF IsObject(value) THEN "[object Object]"
  ELSE LET scalar == value[<<>>] IN
       CASE scalar[1] \in {"string", "padded"} -> scalar[2]
         [] scalar \in {Num(0), Bool(FALSE), Null} -> ""
         [] OTHER -> ToString(scalar[2])

(* Number(value); a text of spaces only is zero.                             *)
NumberOf(value) ==
  IF IsObject(value) THEN {}
  ELSE LET scalar == value[<<>>] IN
       CASE scalar[1] \in {"number", "fraction"} -> {scalar}
         [] scalar \in {Num(0), Padded(""), Bool(FALSE), Padded("0"), Str("0")} -> {Num(0)}
         [] scalar = Bool(TRUE) -> {Num(1)}
         [] scalar \in {Str("7"), Padded("7")} -> {Num(7)}
         [] scalar \in {Str("2000"), Padded("2000")} -> {Num(2000)}
         [] OTHER -> {}

Floor(number) == number[2]

(* A rule: its path, a type, required, the default, and the sets of allowed  *)
(* values, of the minimum and of the maximum, empty where there is none.     *)
Rule(path, type) ==
  [path |-> path, type |-> type, required |-> FALSE, default |-> Undefined,
   enum |-> {}, minimum |-> {}, maximum |-> {}]

InBounds(rule, n) == (\A m \in rule.minimum : n >= m) /\ (\A m \in rule.maximum : n <= m)

OfType(value, rule) ==
  CASE rule.type = "string" -> {Value(Str(text)) : text \in {Text(value)} \ {""}}
    [] rule.type = "object" -> {v \in {value} : IsObject(v)}
    [] rule.type = "boolean" ->
         IF ~IsObject(value) /\ value[<<>>][1] = "boolean" THEN {value}
         ELSE {Value(Bool(text = "true")) : text \in {Text(value)} \cap {"true", "false"}}
    [] rule.type = "integer" ->
         {Value(Num(Floor(n))) : n \in {n \in NumberOf(value) : InBounds(rule, Floor(n))}}

NormalizedValue(value, rule) ==
  {v \in OfType(value, rule) : rule.enum # {} => v \in {Value(e) : e \in rule.enum}}

-----------------------------------------------------------------------------
(* Payloads and definitions.  Fields of a name of its own the worker keeps   *)
(* for itself.                                                               *)

Reserved == {"taskDefinition", "runtime"}

Paths(object) ==
  UNION {{SubSeq(p, 1, n) : n \in 1..Len(p)} : p \in DOMAIN object}

Allowed(path, rules) ==
  \E n \in DOMAIN rules : IsPrefix(rules[n].path, path) \/ IsPrefix(path, rules[n].path)

(* Faulty variant: a value is tested and stored as it was posted.            *)
ApplyRuleAsPosted(source, normalized, rule) ==
  LET raw == Get(source, rule.path) IN
  IF ~Missing(raw) THEN {Set(normalized, rule.path, raw) : v \in NormalizedValue(raw, rule)}
  ELSE IF rule.default # Undefined THEN {Set(normalized, rule.path, rule.default)}
  ELSE IF rule.required THEN {} ELSE {normalized}

(* One round of normalizePayloadWithDefinition, for one rule.                *)
ApplyRule(source, normalized, rule) ==
  LET raw == Get(source, rule.path) IN
  IF ~Missing(raw) THEN {Set(normalized, rule.path, v) : v \in NormalizedValue(raw, rule)}
  ELSE IF rule.default # Undefined THEN {Set(normalized, rule.path, rule.default)}
  ELSE IF rule.required THEN {} ELSE {normalized}

Round(source, rule, before) ==
  UNION {ApplyRule(source, normalized, rule) : normalized \in before}

(* What the payload may be after each round.                                 *)
Rounds(source, rules) ==
  LET after[n \in 0..Len(rules)] ==
        IF n = 0 THEN {Undefined} ELSE Round(source, rules[n], after[n - 1])
  IN  after

NormalizedPayload(source, rules) ==
  IF \E p \in Paths(source) : p[1] \in Reserved \/ ~Allowed(p, rules) THEN {}
  ELSE Rounds(source, rules)[Len(rules)]

(* A definition that is fit for a payload with objects in it: an object      *)
(* takes no enum and has no default, any other default passes its own rule,  *)
(* and the fields below a field come after it, which then is an object.      *)
FieldTypes == {"string", "object", "boolean", "integer"}

WellFormed(rule) ==
  /\ rule.path \in Seq(Keys) /\ rule.type \in FieldTypes
  /\ rule.type = "object" => rule.enum = {} /\ rule.default = Undefined
  /\ rule.default # Undefined =>
       /\ IsDocument(rule.default) /\ ~Missing(rule.default)
       /\ NormalizedValue(rule.default, rule) = {rule.default}

Orderly(rules) ==
  /\ Len(rules) \in Nat /\ DOMAIN rules = 1..Len(rules)
  /\ \A n \in DOMAIN rules : WellFormed(rules[n])
  /\ \A m, n \in DOMAIN rules : m < n =>
       /\ ~IsPrefix(rules[n].path, rules[m].path)
       /\ IsPrefix(rules[m].path, rules[n].path) => rules[m].type = "object"

(* What a rule asks of a payload that has been normalised.                   *)
Satisfies(object, rule) ==
  LET value == Get(object, rule.path) IN
  IF Missing(value) THEN ~rule.required /\ rule.default = Undefined
  ELSE NormalizedValue(value, rule) = {value}
=============================================================================
