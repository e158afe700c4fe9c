--------------------------- MODULE ThreeViewPayload ---------------------------
(* What the worker takes a hunyuan3d_three_view payload for:                 *)
(* hydrateThreeView3dPayload, and the definition the server starts with.     *)
(* Optional fields are sets with one member or none.                         *)
EXTENDS PayloadSchema, FiniteSetsExt

CONSTANTS
  AssetUris    \* texts that start with assets://

Slots == <<"front", "left", "right", "back">>
Kinds == {"prop", "character", "location"}

(* MODEL_SHEET_PROFILES.  `in` also finds what every object inherits.        *)
Profiles == [version \in {"v1"} |-> <<"front", "left", "back">>]
Inherited == {"constructor"}

NoSheet == [given |-> FALSE, formatVersion |-> {}, normalized |-> FALSE]

Omitted(value) == value \in {Undefined, Value(Null)}

(* String(value ?? '').trim().                                               *)
TextGiven(value) ==
  IF Omitted(value) THEN ""
  ELSE IF value = Value(Bool(FALSE)) THEN "FALSE"
  ELSE IF value = Value(Num(0)) THEN "0" ELSE Text(value)

AssetUri(spec) == TextGiven(Get(spec, <<"assetUri">>)) \in AssetUris

(* assertViewsMatchProfile: the sheet itself says which views it shows.      *)
ViewsMatch(spec, version) ==
  LET views == Get(spec, <<"views">>) IN
  Omitted(views) \/ (version \in DOMAIN Profiles /\ views = Value(List(Profiles[version])))

Turnaround(payload) ==
  LET spec == Get(payload, <<"turnaround">>)
      given == Get(spec, <<"formatVersion">>)
      version == TextGiven(given)
  IN  IF Omitted(spec) THEN {NoSheet}
      ELSE IF ~IsObject(spec) \/ ~AssetUri(spec) THEN {}
      ELSE IF Omitted(given) THEN {[NoSheet EXCEPT !.given = TRUE]}
      ELSE IF version \in DOMAIN Profiles \cup Inherited /\ ViewsMatch(spec, version)
           THEN {[given |-> TRUE, formatVersion |-> {version},
                  normalized |-> Get(spec, <<"normalized">>) = Value(Bool(TRUE))]}
      ELSE {}

(* What an object inherits has no layout to compare the views with: that is  *)
(* a TypeError.                                                              *)
LayoutMissing(payload) ==
  LET spec == Get(payload, <<"turnaround">>)
      views == Get(spec, <<"views">>)
  IN  /\ IsObject(spec) /\ AssetUri(spec)
      /\ TextGiven(Get(spec, <<"formatVersion">>)) \in Inherited
      /\ ~Omitted(views) /\ ~IsObject(views) /\ views[<<>>][1] = "list"

(* The views that are given, if each of them is well formed.                 *)
Views(payload) ==
  LET source == Get(payload, <<"views">>)
      view(slot) == Get(source, <<slot>>)
      given == {slot \in ToSet(Slots) : ~Omitted(view(slot))}
  IN  IF Omitted(source) THEN {{}}
      ELSE IF IsObject(source) /\ \A slot \in given : IsObject(view(slot)) /\ AssetUri(view(slot))
           THEN {given}
      ELSE {}

OptionalInteger(value, minimum) ==
  IF Missing(value) THEN {{}}
  ELSE {{Floor(n)} : n \in {n \in NumberOf(value) : Floor(n) >= minimum}}

OptionalBoolean(value) ==
  IF Omitted(value) THEN {FALSE}
  ELSE {b \in BOOLEAN : value = Value(Bool(b))}

(* A box that is none degrades to no box.                                    *)
BboxM(value) ==
  IF Omitted(value) \/ IsObject(value) \/ value[<<>>][1] # "numbers" THEN {}
  ELSE LET dims == value[<<>>][2] IN
       {d \in {dims} : Len(d) = 3 /\ \A n \in 1..3 : d[n] > 0}

Hash == "sha256"

PhysicalInputHash(value) ==
  IF Omitted(value) THEN {{}} ELSE {{h} : h \in {h \in {Hash} : value = Value(Str(h))}}

PhysicalInput(value, entityId) ==
  IF Omitted(value) THEN {{}}
  ELSE {{v} : v \in {v \in {value} :
          /\ IsObject(v)
          /\ Get(v, <<"schemaVersion">>) = Value(Str("asset-physical-input-v1"))
          /\ Get(v, <<"entityId">>) = Value(Str(entityId))}}

Target(target) ==
  IF ~IsObject(target) THEN {}
  ELSE {[kind |-> kind, entityId |-> id, depictionIndex |-> depiction] :
          kind \in {TextGiven(Get(target, <<"entityKind">>))} \cap Kinds,
          id \in {TextGiven(Get(target, <<"entityId">>))} \ {""},
          depiction \in OptionalInteger(Get(target, <<"depictionIndex">>), 0)}

Preset(value) ==
  LET text == TextGiven(value)
  IN  {IF text = "" THEN "standard" ELSE text} \cap {"fast", "standard"}

(* Views that include the front win, and the sheet is ignored.               *)
SheetInUse(sheet, views) == IF "front" \in views THEN NoSheet ELSE sheet

(* hydrateThreeView3dPayload.                                                *)
Hydrated(payload) ==
  LET target == Get(payload, <<"target">>)
      field(key) == Get(target, <<key>>)
      results ==
        {[turnaround |-> SheetInUse(sheet, views), views |-> views, target |-> who,
          bboxM |-> BboxM(field("bboxM")), physicalInputHash |-> hash, physicalInput |-> input,
          protectGeneratedCurrent |-> protect,
          scalePolicy |-> IF who.kind = "character" THEN "articulated_height" ELSE "rigid_bbox",
          preset |-> preset, seed |-> seed, maxFaces |-> faces] :
           sheet \in {s \in Turnaround(payload) : s.given \/ \E v \in Views(payload) : "front" \in v},
           views \in Views(payload),
           who \in Target(target),
           hash \in PhysicalInputHash(field("physicalInputHash")),
           input \in UNION {PhysicalInput(field("physicalInput"), w.entityId) : w \in Target(target)},
           protect \in OptionalBoolean(field("protectGeneratedCurrent")),
           preset \in Preset(Get(payload, <<"preset">>)),
           seed \in OptionalInteger(Get(payload, <<"seed">>), 0),
           faces \in OptionalInteger(Get(payload, <<"maxFaces">>), 1000)}
  IN  results

-----------------------------------------------------------------------------
(* defaultThreeView3dDefinitionJson, whose two umbrellas let every field     *)
(* below them pass, in the order in which it comes back from PostgreSQL: the *)
(* keys of a jsonb object are sorted by their length and then by their text, *)
(* so that an umbrella still comes before the fields below it.               *)
ASSUME KeysAssumption ==
  {"seed", "preset", "target", "maxFaces", "turnaround", "views", "entityId", "entityKind",
   "assetUri", "depictionIndex", "normalized", "formatVersion", "front", "left", "right", "back",
   "bboxM", "physicalInputHash", "physicalInput", "protectGeneratedCurrent"} \subseteq Keys

ViewUri(slot) == Rule(<<"views", slot, "assetUri">>, "string")

BuiltIn ==
  << [Rule(<<"seed">>, "integer") EXCEPT !.minimum = {0}],
     [Rule(<<"preset">>, "string") EXCEPT !.default = Value(Str("standard")),
                                          !.enum = {Str("fast"), Str("standard")}],
     [Rule(<<"target">>, "object") EXCEPT !.required = TRUE],
     [Rule(<<"maxFaces">>, "integer") EXCEPT !.minimum = {1000}],
     Rule(<<"turnaround">>, "object"),
     [Rule(<<"target", "entityId">>, "string") EXCEPT !.required = TRUE],
     [Rule(<<"target", "entityKind">>, "string") EXCEPT !.required = TRUE,
                                                        !.enum = {Str(k) : k \in Kinds}],
     Rule(<<"turnaround", "assetUri">>, "string"),
     ViewUri("back"), ViewUri("left"), ViewUri("front"), ViewUri("right"),
     [Rule(<<"target", "depictionIndex">>, "integer") EXCEPT !.minimum = {0}],
     Rule(<<"turnaround", "normalized">>, "boolean"),
     Rule(<<"turnaround", "formatVersion">>, "string") >>

(* requiredFieldPaths and requiredFieldEnums.                                *)
MissingFields(rules) ==
  {<<"turnaround">>, <<"target">>} \ {rules[n].path : n \in DOMAIN rules}

StaleEnum(rules) ==
  ~\E n \in DOMAIN rules : /\ rules[n].path = <<"target", "entityKind">>
                           /\ {Str(k) : k \in Kinds} \subseteq rules[n].enum

Outdated(rules) == MissingFields(rules) # {} \/ StaleEnum(rules)
=============================================================================
