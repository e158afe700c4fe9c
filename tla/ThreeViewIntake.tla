--------------------------- MODULE ThreeViewIntake ---------------------------
(* The way of a hunyuan3d_three_view payload into a modelling job: the       *)
(* server starts and brings its stored definition up to date, a POST is      *)
(* normalised by the definition, and the worker takes the stored payload     *)
(* for a list of views, or for a sheet that it cuts into views.              *)
EXTENDS ThreeViewPayload, SheetSlicing

CONSTANTS
  Payloads,      \* what may be posted
  StoredRules,   \* the fields of the definition that an earlier release left enabled
  Width,         \* of a sheet, in columns
  MaxFaint,      \* bound: the faint columns of a sheet
  MaxShades      \* bound: its shades

ASSUME WidthAssumption == Width \in Nat \ {0}
ASSUME AssetUrisAssumption == AssetUris \cap {"", "0", "FALSE"} = {}
ASSUME PayloadsAssumption == \A object \in Payloads : IsDocument(object)
ASSUME RulesAssumption == \A definition \in StoredRules : Orderly(definition)

VARIABLES
  stage,     \* how far it got
  rules,     \* the fields of the enabled definition
  payload,   \* what is posted
  stored,    \* request_payload of the task
  job,       \* what the worker takes it for
  sheet,     \* which figure is in which column, their luminance, faint columns
  images     \* of each view: the columns it was cut from

intakeVars == <<stage, rules, payload, stored, job, sheet, images>>

NoJob == [sheet |-> NoSheet, views |-> {}, kind |-> "none"]
NoDrawing == [figure |-> <<>>, luminance |-> <<>>, faint |-> {}]
NoImages == [slot \in {} |-> <<0, 0>>]

IntakeInit ==
  /\ stage = "starting"
  /\ rules \in StoredRules
  /\ payload \in Payloads
  /\ stored = Undefined /\ job = NoJob /\ sheet = NoDrawing /\ images = NoImages

(* Faulty variant: only missing fields are looked for.                       *)
EnsureFields ==
  /\ stage = "starting"
  /\ rules' = IF MissingFields(rules) # {} THEN BuiltIn ELSE rules
  /\ stage' = "serving"
  /\ UNCHANGED <<payload, stored, job, sheet, images>>

(* ensureBuiltInDefinition: an outdated definition gets a new version.       *)
EnsureDefinition ==
  /\ stage = "starting"
  /\ rules' = IF Outdated(rules) THEN BuiltIn ELSE rules
  /\ stage' = "serving"
  /\ UNCHANGED <<payload, stored, job, sheet, images>>

(* A rejected payload is a 400.                                              *)
Post ==
  /\ stage = "serving"
  /\ \/ NormalizedPayload(payload, rules) = {} /\ stage' = "refused" /\ UNCHANGED stored
     \/ stored' \in NormalizedPayload(payload, rules) /\ stage' = "accepted"
  /\ UNCHANGED <<rules, payload, job, sheet, images>>

(* What throws for another reason than the payload fails the task.           *)
Hydrate ==
  /\ stage = "accepted"
  /\ stage' = IF LayoutMissing(stored) THEN "failed"
              ELSE IF Hydrated(stored) = {} THEN "rejected" ELSE "hydrated"
  /\ UNCHANGED <<rules, payload, stored, job, sheet, images>>

(* resolveViewImages starts; it looks at nothing else from here on.          *)
Resolve ==
  /\ stage = "hydrated"
  /\ \E h \in Hydrated(stored) :
       job' = [sheet |-> h.turnaround, kind |-> h.target.kind,
               views |-> IF h.turnaround.given THEN {} ELSE h.views]
  /\ stage' = "resolving"
  /\ rules' = <<>> /\ payload' = Undefined /\ stored' = Undefined
  /\ UNCHANGED <<sheet, images>>

-----------------------------------------------------------------------------
(* Sheets.                                                                   *)

Columns == 0..(Width - 1)

(* SHEET_LAYOUT, for sheets of the old kind.                                 *)
SheetLayout(kind) == IF kind = "prop" THEN <<"front", "left">> ELSE <<"front", "left", "back">>

Legacy == job.sheet.formatVersion = {}
Supported == job.sheet.formatVersion \subseteq DOMAIN Profiles
SheetVersion == CHOOSE v \in job.sheet.formatVersion : TRUE
Layout == IF Legacy THEN SheetLayout(job.kind) ELSE Profiles[SheetVersion]
Background == IF Legacy THEN White ELSE Paper

(* Figures in a row, some of which may be missing: the ink, and where each   *)
(* figure but the last ends.                                                 *)
InARow(ink, ends) ==
  [x \in Columns |-> IF x \in ink THEN 1 + Cardinality({i \in DOMAIN ends : ends[i] <= x}) ELSE 0]

Rows(count) ==
  {InARow(ink, ends) :
     ink \in SUBSET Columns,
     ends \in {e \in [1..(count - 1) -> Columns] : \A i, j \in DOMAIN e : i < j => e[i] <= e[j]}}

ColumnsOf(figure, i) == {x \in Columns : figure[x] = i}

(* What upstream promises by normalized: every view is in a cell of its own. *)
InCells(figure, count) ==
  \A i \in 1..count : LET cell == EqualRanges(Width, count)[i] IN
    \A x \in ColumnsOf(figure, i) : cell[1] <= x /\ x < cell[2]

Luminance(figure, shade) ==
  [x \in Columns |-> IF figure[x] = 0 THEN Background ELSE shade[figure[x]]]

Inked(figure) == {x \in Columns : figure[x] # 0}

(* The thin parts of a figure, a spear or a tail, leave faint columns.       *)
Drawings(count) ==
  {drawing \in
     {[figure |-> figure, luminance |-> Luminance(figure, shade), faint |-> faint] :
        figure \in {f \in Rows(count) : job.sheet.normalized => InCells(f, count)},
        shade \in {s \in [1..count -> {Line, Gray}] : Cardinality(ToSet(s)) <= MaxShades},
        faint \in UNION {kSubset(k, Columns) : k \in 0..MaxFaint}} :
   drawing.faint \subseteq Inked(drawing.figure)}

Stages3D(found) ==
  /\ images' = found
  /\ stage' = IF "front" \in DOMAIN found THEN "staged" ELSE "noFront"

(* sliceTurnaround, or sliceModelInputSheet with the profile of its version. *)
SliceSheet ==
  /\ stage = "resolving" /\ job.sheet.given
  /\ Supported
  /\ sheet' \in Drawings(Len(Layout))
  /\ Stages3D(Slices(sheet', Layout, Background, job.sheet.normalized))
  /\ UNCHANGED <<rules, payload, stored, job>>

(* What an object inherits is no profile: the slicer throws.                 *)
SliceFails ==
  /\ stage = "resolving" /\ job.sheet.given
  /\ ~Supported
  /\ stage' = "failed"
  /\ UNCHANGED <<rules, payload, stored, job, sheet, images>>

UseViews ==
  /\ stage = "resolving" /\ ~job.sheet.given
  /\ Stages3D([slot \in job.views |-> <<0, Width>>])
  /\ UNCHANGED <<rules, payload, stored, job, sheet>>

IntakeNext ==
  EnsureDefinition \/ Post \/ Hydrate \/ Resolve \/ SliceSheet \/ SliceFails \/ UseViews

IntakeSpec == IntakeInit /\ [][IntakeNext]_intakeVars

-----------------------------------------------------------------------------
(* Properties.                                                               *)

KnownPaths(object) == \A p \in DOMAIN object : Allowed(p, BuiltIn)

TextsHaveText(object) ==
  \A path \in {<<"target", "entityId">>, <<"preset">>} :
    LET text == Get(object, path) IN Missing(text) \/ Text(text) # ""

(* Every definition that an earlier release has left is brought up to date,  *)
(* or needs not be.                                                          *)
Upgraded == \A definition \in StoredRules : Outdated(definition) \/ definition = BuiltIn

(* The definition and the worker do not drift apart: a payload of known      *)
(* fields that the worker could use as it is is accepted, whichever          *)
(* definition an earlier release has left in the database, and the worker    *)
(* takes what was stored for the same as what was posted. Whatever it takes  *)
(* has a front view in the end. (Two readings differ: `normalized` has to be *)
(* a boolean for the definition, and an id or a preset that String(value ||  *)
(* '') empties, as 0, false and spaces do, is refused by it, but the worker  *)
(* would take the id for its text and the preset for the standard one.)      *)
KnownFields(object) ==
  /\ KnownPaths(object) /\ TextsHaveText(object)
  /\ LET normalized == Get(object, <<"turnaround", "normalized">>)
     IN  Omitted(normalized) \/ normalized \in {Value(Bool(b)) : b \in BOOLEAN}

NothingConsumedIsRefused ==
  /\ stage \in {"refused", "accepted", "rejected", "hydrated"} =>
       (KnownFields(payload) /\ Hydrated(payload) # {} =>
          stage # "refused" /\ Hydrated(stored) = Hydrated(payload))
  /\ stage # "noFront"

(* What is stored satisfies every rule, in spite of the umbrellas that let   *)
(* whole objects pass: trimmed, of its type, within its enum and bounds.     *)
Conforms ==
  stage \in {"accepted", "rejected", "hydrated"} =>
    \A n \in DOMAIN rules : Satisfies(stored, rules[n])

(* What is drawn is in one of the views.  A sheet that is normalized loses   *)
(* nothing; of a sheet that is measured, faint columns are lost that are     *)
(* further out than the padding reaches from the content, and no others.     *)
Sliced == stage = "staged" /\ job.sheet.given

Near(x) ==
  \E first, last \in Content(sheet) :
    first - SegmentPadding <= x /\ x <= last + SegmentPadding

Shows(slot, x) == images[slot][1] <= x /\ x < images[slot][2]

NothingCutOff ==
  Sliced => \A x \in Inked(sheet.figure) : job.sheet.normalized \/ Near(x) =>
              \E slot \in DOMAIN images : Shows(slot, x)

(* Every view shows its own figure and no other one, and is trimmed to what  *)
(* is drawn, if the sheet keeps its promise, or if the figures are further   *)
(* apart than parts of a figure and than the padding reaches (closer figures *)
(* show in each other's views).  The promise is about all that is drawn.     *)
(* Without it the slicer goes by the columns with content: faint columns of  *)
(* a figure may be missing from its view, or be in a neighbour's.            *)
Clear == IF job.sheet.normalized THEN Inked(sheet.figure) ELSE Content(sheet)

Complete(count) == \A i \in 1..count : \E x \in Clear : sheet.figure[x] = i

WellApart(count) ==
  LET gaps == Gaps(Content(sheet))
      between == {g \in gaps : sheet.figure[g[1]] # sheet.figure[g[2]]}
  IN  /\ Cardinality(between) = count - 1
      /\ \A g \in between : /\ Size(g) >= 2 * SegmentPadding - 1
                            /\ \A h \in gaps \ between : Size(g) > Size(h)

OwnFigure ==
  (Sliced /\ Complete(Len(Layout)) /\ (job.sheet.normalized \/ WellApart(Len(Layout)))) =>
    \A i \in 1..Len(Layout) :
      LET view == images[Layout[i]]
      IN  /\ \A x \in Clear : sheet.figure[x] = i <=> Shows(Layout[i], x)
          /\ {view[1], view[2] - 1} \subseteq Inked(sheet.figure)
=============================================================================
