----------------------------- MODULE EntityLedger -----------------------------
(***************************************************************************)
(* How a 3D model becomes the current one of its entity.  A run submits the *)
(* modeling job with the size of the entity and, when the model is done,    *)
(* checks the size once more, registers the model (registerEntityModel3d)   *)
(* and has the Platform measure it.  The Platform keeps two files:          *)
(* manifest.json, whose artifacts hold the takes of the entity, and the     *)
(* ledger, where the entity and each of its depictions have a model3d slot  *)
(* that names a take.  A registration is for one of these places; it reads  *)
(* the ledger, then the manifest, and writes both in one atomic batch of    *)
(* JSON patches; nothing but the "test" operations of a protected           *)
(* registration ties the batch to what was read.                            *)
(*                                                                          *)
(* The takes of all places of an entity are ONE group: whichever place a    *)
(* registration is for, it unsets the current takes of them all.            *)
(*                                                                          *)
(* One entity is followed: takes of others are in other groups, and array   *)
(* positions only ever grow.  People edit the same files with other tools   *)
(* (external).                                                              *)
(***************************************************************************)
EXTENDS Integers, Sequences, FiniteSets, SequencesExt

CONSTANTS
  Registrars,    \* the runs that make a model of the entity
  Protecting,    \* those with protectGeneratedCurrent
  Hashed,        \* those with a physicalInputHash
  Entity,        \* where a model goes without a depictionIndex
  Places,        \* the entity, and the depictions it may have
  PlaceOf,       \* the place each registration is for
  Sizes,         \* values of bboxM
  Given,         \* bboxM in the payload of each, or None
  Prefix,        \* the first six characters of the modeling job of each
  Person, None,
  \* Bounds of the environment.
  MaxEdits,      \* edits by people
  MaxFailures    \* reads and writes the Platform fails

ASSUME LedgerAssumption ==
  /\ IsFiniteSet(Registrars)
  /\ Protecting \subseteq Registrars
  /\ Hashed \subseteq Registrars
  /\ Entity \in Places /\ None \notin Places
  /\ PlaceOf \in [Registrars -> Places]
  /\ Registrars \subseteq DOMAIN Prefix
  /\ Given \in [Registrars -> Sizes \cup {None}]
  /\ MaxEdits \in Nat /\ MaxFailures \in Nat

VARIABLES
  artifacts,     \* the takes in manifest.json, or None: no artifacts array
  model3d,       \* the slot, or None, of each place that is there
  previz,        \* previzModel: None, or its source and version
  size,          \* physicalAttributes.bboxM of the entity, or None
  anchors,       \* the version the Platform has measured last, or None
  registrars,    \* what each run is doing, and what it read
  edits, failures,
  latest         \* the place whose slot was written last, or None (history)

files == <<artifacts, model3d, previz, size, anchors>>
vars == <<files, registrars, edits, failures, latest>>

Present(list) == IF list = None THEN <<>> ELSE list

CurrentOf(list) == {i \in DOMAIN list : list[i].current}

Version(n, suffix) == [take |-> n, suffix |-> suffix]

(* Faulty variant: no job in the version.                                   *)
VersionOfCount(list, g) == Version(Len(list) + 1, None)

(* nextTakeLineage: the takes of the group are counted, the last one is     *)
(* superseded.                                                              *)
NextVersion(list, g) == Version(Len(list) + 1, Prefix[g])

Supersedes(list) == IF list = <<>> THEN None ELSE Last(list).version

WorkerTake(list, g) ==
  [version |-> NextVersion(list, g), supersedes |-> Supersedes(list), current |-> TRUE,
   source |-> "worker_generated", authority |-> "automatic"]

WorkerSlot(take) == [source |-> "generated", version |-> take.version]

Unset(list, indices) ==
  [i \in DOMAIN list |-> IF i \in indices THEN [list[i] EXCEPT !.current = FALSE] ELSE list[i]]

Afresh(step) ==
  [at |-> step, built |-> None, resized |-> FALSE, slot |-> None, previz |-> None,
   artifacts |-> None, version |-> None, own |-> 0, revision |-> 0, again |-> FALSE]

Init ==
  /\ artifacts \in {None, <<>>}
  /\ \E there \in SUBSET Places : Entity \in there /\ model3d = [p \in there |-> None]
  /\ previz \in {None, [source |-> "presetModel", version |-> None]}
  /\ size \in Sizes \cup {None}
  /\ anchors = None
  /\ registrars = [g \in Registrars |-> Afresh("ready")]
  /\ edits = 0 /\ failures = 0 /\ latest = None

-----------------------------------------------------------------------------
At(g, step) == registrars[g].at = step

Goes(g, step) == registrars' = [registrars EXCEPT ![g].at = step]

Ends(g, step) == registrars' = [registrars EXCEPT ![g] = [Afresh(step) EXCEPT !.own = registrars[g].own]]

Written == {"registered", "measuring", "measured", "pending"}

(* The revision of the project: every batch, edit and measurement is one.   *)
Revision ==
  edits + Cardinality({g \in Registrars : registrars[g].at \in Written})
        + Cardinality({g \in Registrars : registrars[g].at = "measured"})

Fails == failures < MaxFailures /\ failures' = failures + 1

(* readEntityBboxM: a read that fails finds no size.                        *)
ReadSize(read) ==
  /\ read \in {size, None}
  /\ IF read = size THEN UNCHANGED failures ELSE Fails

(* The model is built for the size in the payload, or else for that of the  *)
(* entity.                                                                  *)
Submit(g) ==
  /\ At(g, "ready")
  /\ \E read \in {size, None} :
       /\ IF Given[g] = None THEN ReadSize(read) ELSE read = size /\ UNCHANGED failures
       /\ registrars' = [registrars EXCEPT
            ![g].at = "modelled", ![g].built = IF Given[g] = None THEN read ELSE Given[g]]
  /\ UNCHANGED <<files, edits, latest>>

(* Faulty variant: what is not known does not differ.                       *)
SameOrUnknown(left, right) == left = None \/ left = right

(* sameBbox.                                                                *)
SameSize(left, right) == left # None /\ left = right

(* With a physicalInputHash, the entity has to have the size in the payload.*)
CheckSize(g) ==
  /\ At(g, "modelled") /\ g \in Hashed
  /\ \E read \in {size, None} :
       /\ ReadSize(read)
       /\ IF SameSize(read, Given[g]) THEN Goes(g, "checked") ELSE Ends(g, "failed")
  /\ UNCHANGED <<files, edits, latest>>

(* A depiction that is not there has no slot.                               *)
SlotAt(place) == IF place \in DOMAIN model3d THEN model3d[place] ELSE None

ReadLedger(g) ==
  /\ At(g, IF g \in Hashed THEN "checked" ELSE "modelled")
  /\ \/ /\ registrars' = [registrars EXCEPT ![g].at = "ledgerRead",
                                            ![g].slot = SlotAt(PlaceOf[g]), ![g].previz = previz]
        /\ UNCHANGED failures
     \/ Ends(g, "failed") /\ Fails
  /\ UNCHANGED <<files, edits, latest>>

(* The current take is the only one, a worker made it, no person chose it,  *)
(* and the slot of the place names it.                                      *)
MachineOwned(list, aSlot) ==
  /\ Cardinality(CurrentOf(list)) = 1
  /\ \A i \in CurrentOf(list) :
       /\ list[i].source = "worker_generated" /\ list[i].authority # "human"
       /\ aSlot # None
       /\ aSlot = [source |-> "generated", version |-> list[i].version]

(* A manifest that cannot be read is taken for one without artifacts.       *)
ReadManifest(g) ==
  /\ At(g, "ledgerRead")
  /\ \E read \in {artifacts, None} :
       /\ IF read = artifacts THEN UNCHANGED failures ELSE Fails
       /\ IF g \in Protecting /\ ~MachineOwned(Present(read), registrars[g].slot)
          THEN Ends(g, "failed")
          ELSE registrars' = [registrars EXCEPT ![g].at = "manifestRead", ![g].artifacts = read]
  /\ UNCHANGED <<files, edits, latest>>

(* Faulty variant: no "test" of what was read.                              *)
TestNothing(g) == TRUE

(* The "test" operations of a protected registration.                       *)
Tested(g) ==
  g \in Protecting =>
    /\ SlotAt(PlaceOf[g]) = registrars[g].slot
    /\ \A i \in CurrentOf(registrars[g].artifacts) :
         i \in DOMAIN Present(artifacts) /\ artifacts[i] = registrars[g].artifacts[i]

(* The place, and every index that is unset, have to exist.                 *)
Applicable(g) ==
  /\ PlaceOf[g] \in DOMAIN model3d
  /\ registrars[g].artifacts # None =>
       /\ artifacts # None
       /\ CurrentOf(registrars[g].artifacts) \subseteq DOMAIN artifacts

(* The manifest after the patch: an artifacts array that was not read is    *)
(* added as an empty one, which replaces one that is there.                 *)
PatchedManifest(g, take) ==
  IF registrars[g].artifacts = None THEN <<take>>
  ELSE Append(Unset(artifacts, CurrentOf(registrars[g].artifacts)), take)

(* Faulty variant: the depictionIndex is forgotten.                         *)
PatchedEntity(g, take) == [model3d EXCEPT ![Entity] = WorkerSlot(take)]

PatchedSlots(g, take) == [model3d EXCEPT ![PlaceOf[g]] = WorkerSlot(take)]

(* The previz of an entity that shows its model follows the entity's own    *)
(* slot, not those of its depictions.                                       *)
PatchedPreviz(g, take) ==
  IF PlaceOf[g] = Entity /\ registrars[g].previz # None /\ registrars[g].previz.source = "model3d"
  THEN [source |-> "model3d", version |-> take.version]
  ELSE previz

(* writePaceFiles: all the operations, or none when one of them fails.      *)
WriteBatch(g) ==
  /\ At(g, "manifestRead")
  /\ IF Applicable(g) /\ Tested(g)
     THEN LET take == WorkerTake(Present(registrars[g].artifacts), g)
          IN  /\ artifacts' = PatchedManifest(g, take)
              /\ model3d' = PatchedSlots(g, take) /\ latest' = PlaceOf[g]
              /\ previz' = PatchedPreviz(g, take)
              /\ registrars' = [registrars EXCEPT ![g] =
                   [Afresh("registered") EXCEPT !.version = take.version, !.own = Revision + 1]]
     ELSE Ends(g, "failed") /\ UNCHANGED <<artifacts, model3d, previz, latest>>
  /\ UNCHANGED <<size, anchors, edits, failures>>

(* The Platform refuses the batch, or the worker dies before it sends it.   *)
WriteFails(g) ==
  /\ At(g, "manifestRead")
  /\ Fails
  /\ Ends(g, "failed")
  /\ UNCHANGED <<files, edits, latest>>

-----------------------------------------------------------------------------
(* initializeGeneratedModelPlacement: a measurement tells the Platform which*)
(* revision it is meant for.  What becomes of it is no matter for the task. *)

ReadRevision(g) ==
  /\ At(g, "registered")
  /\ registrars' = [registrars EXCEPT ![g].at = "measuring", ![g].revision = Revision]
  /\ UNCHANGED <<files, edits, failures, latest>>

(* Faulty variant: the second attempt is for the same revision.             *)
MeasureAgain(g) ==
  registrars' = [registrars EXCEPT ![g].at = "measuring", ![g].again = TRUE]

StartOver(g) ==
  registrars' = [registrars EXCEPT ![g].at = "registered", ![g].again = TRUE]

Measure(g) ==
  /\ At(g, "measuring")
  /\ IF registrars[g].revision = Revision
     THEN Ends(g, "measured") /\ anchors' = registrars[g].version
     ELSE /\ IF registrars[g].again THEN Ends(g, "pending") ELSE StartOver(g)
          /\ UNCHANGED anchors
  /\ UNCHANGED <<artifacts, model3d, previz, size, edits, failures, latest>>

(* Either call fails, for a reason other than a stale revision.             *)
MeasureFails(g) ==
  /\ registrars[g].at \in {"registered", "measuring"}
  /\ Fails
  /\ Ends(g, "pending")
  /\ UNCHANGED <<files, edits, latest>>

-----------------------------------------------------------------------------
(* People.                                                                  *)

Edit == edits < MaxEdits /\ edits' = edits + 1

(* The slot of a place is written, for a model of theirs or one they pick.  *)
WriteSlot(source, version) ==
  \E place \in DOMAIN model3d :
    /\ model3d' = [model3d EXCEPT ![place] = [source |-> source, version |-> version]]
    /\ latest' = place

(* Somebody uploads a model of their own.                                   *)
Upload ==
  /\ Edit
  /\ LET list == Present(artifacts)
         take == [version |-> Version(Len(list) + 1, Person), supersedes |-> Supersedes(list),
                  current |-> TRUE, source |-> "uploaded", authority |-> "human"]
     IN  /\ artifacts' = Append(Unset(list, DOMAIN list), take)
         /\ WriteSlot("uploaded", take.version)
  /\ UNCHANGED <<previz, size, anchors, registrars, failures>>

(* Somebody picks a take.                                                   *)
Pick ==
  /\ Edit
  /\ \E i \in DOMAIN Present(artifacts) :
       /\ artifacts' = [Unset(artifacts, DOMAIN artifacts) EXCEPT
                          ![i].current = TRUE, ![i].authority = "human"]
       /\ WriteSlot(IF artifacts[i].source = "uploaded" THEN "uploaded" ELSE "generated",
                    artifacts[i].version)
  /\ UNCHANGED <<previz, size, anchors, registrars, failures>>

(* Somebody chooses what the previz shows: a preset, or the model.          *)
ChoosePreviz ==
  /\ Edit
  /\ previz' \in {[source |-> "presetModel", version |-> None],
                  [source |-> "model3d",
                   version |-> IF model3d[Entity] = None THEN None ELSE model3d[Entity].version]}
  /\ UNCHANGED <<artifacts, model3d, size, anchors, registrars, failures, latest>>

(* Somebody changes the size of the entity.                                 *)
Resize ==
  /\ Edit
  /\ size' \in Sizes \ {size}
  /\ registrars' = [g \in Registrars |->
       [registrars[g] EXCEPT !.resized = @ \/ registrars[g].at \in {"checked", "ledgerRead", "manifestRead"}]]
  /\ UNCHANGED <<artifacts, model3d, previz, anchors, failures, latest>>

Register(g) ==
  \/ Submit(g) \/ CheckSize(g)
  \/ ReadLedger(g) \/ ReadManifest(g) \/ WriteBatch(g) \/ WriteFails(g)
  \/ ReadRevision(g) \/ Measure(g) \/ MeasureFails(g)

Next == (\E g \in Registrars : Register(g)) \/ Upload \/ Pick \/ ChoosePreviz \/ Resize

Spec == Init /\ [][Next]_vars

-----------------------------------------------------------------------------
(* Properties.                                                              *)

Versions == [take : Nat \ {0}, suffix : {Prefix[g] : g \in Registrars} \cup {Person}]

Take == [version : Versions, supersedes : Versions \cup {None}, current : BOOLEAN,
         source : {"worker_generated", "uploaded"}, authority : {"automatic", "human"}]

Filled == [source : {"generated", "uploaded"}, version : Versions]

(* What is not there is neither a list nor a slot that names a take.        *)
ASSUME NoneAssumption == None \notin Seq(Take) /\ None \notin Filled

Slot == Filled \cup {None}

Previz == [source : {"presetModel", "model3d"}, version : Versions \cup {None}] \cup {None}

Location == Written \cup {"ready", "modelled", "checked", "ledgerRead", "manifestRead", "failed"}

Registrar ==
  [at : Location, built : Sizes \cup {None}, resized : BOOLEAN, slot : Slot, previz : Previz,
   artifacts : Seq(Take) \cup {None}, version : Versions \cup {None},
   own : Nat, revision : Nat, again : BOOLEAN]

TypeOK ==
  /\ artifacts \in Seq(Take) \cup {None}
  /\ DOMAIN model3d \subseteq Places /\ Entity \in DOMAIN model3d
  /\ model3d \in [DOMAIN model3d -> Slot] /\ latest \in DOMAIN model3d \cup {None}
  /\ previz \in Previz
  /\ size \in Sizes \cup {None} /\ anchors \in Versions \cup {None}
  /\ registrars \in [Registrars -> Registrar]
  /\ edits \in 0..MaxEdits /\ failures \in 0..MaxFailures

Mirrors(place) ==
  /\ model3d[place] # None
  /\ \E i \in CurrentOf(Present(artifacts)) : artifacts[i].version = model3d[place].version

(* The slot that was written last names a take that is current, however     *)
(* registrations and edits interleave and whatever fails: the two files     *)
(* drift apart at the OTHER places of the entity only.                      *)
LatestSlotMirrors == latest # None => Mirrors(latest)

(* entityLedger.ts:53 has the slot mirror the current take and the batch    *)
(* leave no drift.  So it is for an entity without depictions; with them, a *)
(* registration for one place unsets the take that the slot of another      *)
(* still names, and this is false.                                          *)
SlotsMirrorCurrent == \A place \in DOMAIN model3d : model3d[place] # None => Mirrors(place)

(* Two takes never have the same version, even if both registrations        *)
(* counted the same number of takes (their jobs differ in the first six     *)
(* characters, and the manifest was read).                                  *)
VersionsDiffer ==
  LET list == Present(artifacts)
  IN  \A i, k \in DOMAIN list : list[i].version = list[k].version => i = k

(* A protected registration never takes the place of what a person chose or *)
(* uploaded, even if they did so after it read the files.                   *)
PersonsChoiceStands ==
  [][\A g \in Protecting :
       At(g, "manifestRead") /\ registrars'[g].at = "registered" =>
         \A i \in CurrentOf(artifacts) : artifacts[i].authority # "human"]_vars

(* With a physicalInputHash, a model that was built for another size than   *)
(* the entity has is not registered, unless the size is changed after it was*)
(* checked (nothing notices that).                                          *)
FitsEntity ==
  [][\A g \in Hashed :
       At(g, "manifestRead") /\ registrars'[g].at = "registered" =>
         registrars[g].resized \/ registrars[g].built = size]_vars

(* A model that is registered gets measured, unless a call fails or others  *)
(* write to the project twice in between.                                   *)
PendingHasCause ==
  \A g \in Registrars :
    At(g, "pending") => failures > 0 \/ Revision >= registrars[g].own + 2

(* entityLedger.ts:52: takes are appended, never overwritten.               *)
AppendOnly ==
  [][\A i \in DOMAIN Present(artifacts) :
       i \in DOMAIN Present(artifacts') /\ artifacts'[i].version = artifacts[i].version]_vars
=============================================================================
