-------------------------- MODULE MCThreeViewIntake --------------------------
(* Payloads that differ from two usual ones in two fields, and the           *)
(* definitions that earlier releases stored.                                 *)
EXTENDS ThreeViewIntake

Names ==
  {"target", "entityKind", "entityId", "depictionIndex", "bboxM", "physicalInputHash",
   "physicalInput", "schemaVersion", "protectGeneratedCurrent", "turnaround", "assetUri",
   "formatVersion", "normalized", "views", "front", "left", "right", "back", "preset", "seed",
   "maxFaces", "later", "runtime"}

Asset == Str("assets://a")
Target0 == (<<"target", "entityKind">> :> Str("prop")) @@ (<<"target", "entityId">> :> Str("lamp"))

WithSheet ==
  Target0 @@ (<<"turnaround", "assetUri">> :> Asset)
    @@ (<<"turnaround", "formatVersion">> :> Str("v1"))
    @@ (<<"turnaround", "normalized">> :> Bool(TRUE))

WithViews ==
  Target0 @@ (<<"views", "front", "assetUri">> :> Asset)
    @@ (<<"views", "left", "assetUri">> :> Asset)

Physical(id) ==
  (<<"schemaVersion">> :> Str("asset-physical-input-v1")) @@ (<<"entityId">> :> Str(id))

Scalars(path, scalars) == {<<path, Value(s)>> : s \in scalars}

Changes ==
  Scalars(<<"turnaround">>, {Null, EmptyObject, Str("x")})
  \cup Scalars(<<"turnaround", "assetUri">>, {Padded("assets://a"), Str("http://a"), Str("")})
  \cup Scalars(<<"turnaround", "formatVersion">>,
               {Null, Padded("v1"), Str("v2"), Str("constructor"), Str("")})
  \cup Scalars(<<"turnaround", "normalized">>, {Bool(FALSE), Str("true"), Str("yes"), Null})
  \cup Scalars(<<"turnaround", "views">>,
               {List(<<"front", "left", "back">>), List(<<"front", "back", "left">>)})
  \cup Scalars(<<"turnaround", "later">>, {Str("new")})
  \cup Scalars(<<"views">>, {Null})
  \cup Scalars(<<"views", "front">>, {Null})
  \cup Scalars(<<"views", "left", "assetUri">>, {Asset, Padded("assets://a"), Str("http://a")})
  \cup Scalars(<<"views", "back", "later">>, {Str("new")})
  \cup Scalars(<<"target", "entityKind">>, {Str("character"), Str("location"), Padded("prop"), Str("ship")})
  \cup Scalars(<<"target", "entityId">>, {Num(7), Num(0), Bool(FALSE), Str("")})
  \cup Scalars(<<"target", "depictionIndex">>, {Num(0), AndAHalf(1), AndAHalf(-1), Str("7"), Padded("")})
  \cup Scalars(<<"target", "bboxM">>, {Numbers(<<1, 2, 3>>), Numbers(<<1, 0, 3>>)})
  \cup Scalars(<<"target", "physicalInputHash">>, {Str(Hash), Str("x")})
  \cup {<<<<"target", "physicalInput">>, Physical(id)>> : id \in {"lamp", "7"}}
  \cup Scalars(<<"target", "protectGeneratedCurrent">>, {Bool(TRUE), Str("true")})
  \cup Scalars(<<"preset">>, {Str("fast"), Padded("fast"), Str(""), Padded(""), Str("slow")})
  \cup Scalars(<<"seed">>, {Num(7), AndAHalf(-1), Str("7"), Bool(FALSE)})
  \cup Scalars(<<"maxFaces">>, {Str("2000"), Num(999), AndAHalf(999)})
  \cup Scalars(<<"later">>, {Str("new")})
  \cup Scalars(<<"runtime">>, {EmptyObject})

TwoChanges ==
  {Set(Set(base, c[1], c[2]), d[1], d[2]) : base \in {WithSheet, WithViews}, c, d \in Changes}

Without(path) == SelectSeq(BuiltIn, LAMBDA r : r.path # path)

Narrow ==
  [n \in DOMAIN BuiltIn |->
     IF BuiltIn[n].path = <<"target", "entityKind">>
     THEN [BuiltIn[n] EXCEPT !.enum = {Str("prop"), Str("character")}] ELSE BuiltIn[n]]

Releases ==
  {BuiltIn, Without(<<"turnaround">>), Without(<<"target">>), Narrow,
   SelectSeq(Without(<<"turnaround">>),
             LAMBDA r : r.path \notin {<<"turnaround", "formatVersion">>, <<"turnaround", "normalized">>})}

ASSUME UpgradedAssumption == Upgraded
=============================================================================
